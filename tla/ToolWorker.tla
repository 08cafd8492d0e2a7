----------------------------- MODULE ToolWorker -----------------------------
(***************************************************************************)
(* The worker thread.  run_once promotes the delayed jobs that are due,    *)
(* takes over messages another consumer left unacknowledged, reads one     *)
(* message and processes it: cancel check, lease, idempotency ownership,   *)
(* tool run, result, record, acknowledgement.  One action per access to    *)
(* the shared store, so workers interleave wherever the threads can.       *)
(***************************************************************************)
EXTENDS ToolStore

VARIABLES
    wpc,        \* where a worker is in run_once
    wmsg,       \* the message it processes
    wout,       \* how its tool run ended
    wbatch,     \* the messages XAUTOCLAIM gave it and it has not handled
    unsettled   \* history: messages whose tool run began and reported no failure

workerVars == <<wpc, wmsg, wout, wbatch, unsettled>>

NoMsg == [id |-> 0, call |-> NoCall, att |-> 0]

\* Between the lease's SET NX and its release.
Leased == {"index", "own", "replace", "claim", "start", "running",
           "releaseOk", "releaseFailed", "releaseSkip"}

Unleased == {"top", "promote", "batch", "requeueStale", "ackStale", "read", "got",
             "complete", "persistFailed", "failRetry", "giveBack", "retryLater",
             "escalate", "fail", "ack"}

\* Where wmsg holds a message this worker read itself.
Processing == Leased \cup {"got", "complete", "persistFailed", "failRetry",
                           "giveBack", "retryLater", "escalate", "fail", "ack"}

WorkerTypeOK ==
    /\ wpc \in [Workers -> Leased \cup Unleased]
    /\ wmsg \in [Workers -> Messages \cup {NoMsg}]
    /\ wout \in [Workers -> Errors]
    /\ wbatch \in [Workers -> SUBSET Messages]
    /\ unsettled \subseteq Nat

WorkerInit ==
    /\ wpc = [w \in Workers |-> "top"]
    /\ wmsg = [w \in Workers |-> NoMsg]
    /\ wout = [w \in Workers |-> "none"]
    /\ wbatch = [w \in Workers |-> {}]
    /\ unsettled = {}

At(w, pc) == wpc[w] = pc

Goto(w, pc) == wpc' = [wpc EXCEPT ![w] = pc]

Call(w) == wmsg[w].call

Processes(w, id) == wpc[w] \in Processing /\ wmsg[w].id = id

(***************************************************************************)
(* First part of run_once: jobs that are due leave the delayed set (ZREM)  *)
(* and then enter the stream (XADD).                                       *)
(***************************************************************************)
PromoteTake(w) ==
    /\ At(w, "top")
    /\ \E p \in delayed :
          /\ delayed' = delayed \ {p}
          /\ wmsg' = [wmsg EXCEPT ![w] = Message(0, p)]
    /\ Goto(w, "promote")
    /\ UNCHANGED <<idem, lease, leaseIdx, db, result, stream, pel, lastId, approval,
                   cancelled, wcancel, wout, wbatch, unsettled>>

PromoteAdd(w) ==
    /\ At(w, "promote")
    /\ Xadd(Payload(wmsg[w]))
    /\ wmsg' = [wmsg EXCEPT ![w] = NoMsg]
    /\ Goto(w, "top")
    /\ UNCHANGED <<idem, lease, leaseIdx, db, result, pel, delayed, approval,
                   cancelled, wcancel, wout, wbatch, unsettled>>

(***************************************************************************)
(* Second part: XAUTOCLAIM moves idle messages of OTHER consumers to w.    *)
(* Their payloads are in hand from then on, acknowledged meanwhile or not. *)
(***************************************************************************)
Autoclaim(w, taken) ==
    /\ At(w, "top")
    /\ taken # {}
    /\ pel' = (pel \ taken) \cup {[e EXCEPT !.owner = w] : e \in taken}
    /\ wbatch' = [wbatch EXCEPT ![w] = {e.msg : e \in taken}]
    /\ Goto(w, "batch")
    /\ UNCHANGED <<idem, lease, leaseIdx, db, result, stream, delayed, lastId, approval,
                   cancelled, wcancel, wmsg, wout, unsettled>>

\* Only the lease decides: alive, the message is dropped; dead, it is requeued.
StaleCheck(w) ==
    /\ At(w, "batch")
    /\ \E m \in wbatch[w] :
          /\ \A n \in wbatch[w] : m.id <= n.id
          /\ wmsg' = [wmsg EXCEPT ![w] = m]
          /\ wbatch' = [wbatch EXCEPT ![w] = @ \ {m}]
          /\ Goto(w, IF IsAlive(m.call) THEN "ackStale" ELSE "requeueStale")
    /\ UNCHANGED <<storeVars, wout, unsettled>>

RequeueStale(w) ==
    /\ At(w, "requeueStale")
    /\ RetryLater(Call(w), wmsg[w].att)
    /\ Goto(w, "ackStale")
    /\ UNCHANGED <<idem, lease, leaseIdx, db, result, stream, pel, lastId, approval,
                   cancelled, wcancel, wmsg, wout, wbatch, unsettled>>

AckStale(w) ==
    /\ At(w, "ackStale")
    /\ Xack(wmsg[w].id)
    /\ wmsg' = [wmsg EXCEPT ![w] = NoMsg]
    /\ Goto(w, IF wbatch[w] = {} THEN "read" ELSE "batch")
    /\ UNCHANGED <<idem, lease, leaseIdx, db, result, stream, delayed, lastId, approval,
                   cancelled, wcancel, wout, wbatch, unsettled>>

(***************************************************************************)
(* Third part: XREADGROUP of one new message.  Nothing due and nothing     *)
(* idle, a worker reads straight from the top.                             *)
(***************************************************************************)
Read(w) ==
    /\ wpc[w] \in {"top", "read"}
    /\ stream # <<>>
    /\ stream' = Tail(stream)
    /\ pel' = pel \cup {[msg |-> Head(stream), owner |-> w]}
    /\ wmsg' = [wmsg EXCEPT ![w] = Head(stream)]
    /\ Goto(w, "got")
    /\ UNCHANGED <<idem, lease, leaseIdx, db, result, delayed, lastId, approval,
                   cancelled, wcancel, wout, wbatch, unsettled>>

ReadNothing(w) ==
    /\ At(w, "read")
    /\ stream = <<>>
    /\ Goto(w, "top")
    /\ UNCHANGED <<storeVars, wmsg, wout, wbatch, unsettled>>

(***************************************************************************)
(* _process.                                                               *)
(***************************************************************************)
SkipCancelled(w) ==
    /\ At(w, "got")
    /\ Call(w) \in wcancel[w]
    /\ wcancel' = [wcancel EXCEPT ![w] = @ \ {Call(w)}]
    /\ Goto(w, "ack")
    /\ UNCHANGED <<idem, lease, leaseIdx, db, result, stream, pel, delayed, lastId,
                   approval, cancelled, wmsg, wout, wbatch, unsettled>>

AcquireLease(w) ==
    /\ At(w, "got")
    /\ Call(w) \notin wcancel[w]
    /\ LeaseTake(Call(w), wmsg[w].id)
    /\ Goto(w, "index")
    /\ UNCHANGED <<idem, leaseIdx, db, result, stream, pel, delayed, lastId, approval,
                   cancelled, wcancel, wmsg, wout, wbatch, unsettled>>

LeaseRejected(w) ==
    /\ At(w, "got")
    /\ Call(w) \notin wcancel[w]
    /\ IsAlive(Call(w))
    /\ Goto(w, "ack")
    /\ UNCHANGED <<storeVars, wmsg, wout, wbatch, unsettled>>

IndexLease(w) ==
    /\ At(w, "index")
    /\ leaseIdx' = leaseIdx \cup {Call(w)}
    /\ Goto(w, "own")
    /\ UNCHANGED <<idem, lease, db, result, stream, pel, delayed, lastId, approval,
                   cancelled, wcancel, wmsg, wout, wbatch, unsettled>>

(***************************************************************************)
(* ensure_owned reads the record and acts on what it read.  The owner      *)
(* fields it writes into a PROCESSING record are not modelled.             *)
(***************************************************************************)
\* Mutant of EnsureOwned: the gateway's own claim counts as somebody else's.
EnsureOwnedStrict(w) ==
    /\ At(w, "own")
    /\ Goto(w, CASE idem.st = "ABSENT" -> "claim"
                 [] idem.st = "FAILED" -> "replace"
                 [] OTHER              -> "releaseSkip")
    /\ UNCHANGED <<storeVars, wmsg, wout, wbatch, unsettled>>

EnsureOwned(w) ==
    /\ At(w, "own")
    /\ Goto(w, CASE idem.st = "ABSENT"     -> "claim"
                 [] idem.st = "FAILED"     -> "replace"
                 [] idem.st = "PROCESSING" -> "start"
                 [] idem.st = "SUCCESS"    -> "releaseSkip")
    /\ UNCHANGED <<storeVars, wmsg, wout, wbatch, unsettled>>

ReplaceFailed(w) ==
    /\ At(w, "replace")
    /\ DeleteRecord
    /\ Goto(w, "claim")
    /\ UNCHANGED <<lease, leaseIdx, db, result, stream, pel, delayed, lastId, approval,
                   cancelled, wcancel, wmsg, wout, wbatch, unsettled>>

ClaimKey(w) ==
    /\ At(w, "claim")
    /\ Claim(Call(w))
    /\ Goto(w, IF idem.st = "ABSENT" THEN "start" ELSE "releaseSkip")
    /\ UNCHANGED <<lease, leaseIdx, db, result, stream, pel, delayed, lastId, approval,
                   cancelled, wcancel, wmsg, wout, wbatch, unsettled>>

SkipOwned(w) ==
    /\ At(w, "releaseSkip")
    /\ LeaseRelease(Call(w), wmsg[w].id)
    /\ Goto(w, "ack")
    /\ UNCHANGED <<idem, db, result, stream, pel, delayed, lastId, approval,
                   cancelled, wcancel, wmsg, wout, wbatch, unsettled>>

(***************************************************************************)
(* Executor.execute.  The lease is released before the record is settled.  *)
(***************************************************************************)
StartTool(w) ==
    /\ At(w, "start")
    /\ Call(w) \notin cancelled
    /\ unsettled' = unsettled \cup {wmsg[w].id}
    /\ Goto(w, "running")
    /\ UNCHANGED <<storeVars, wmsg, wout, wbatch>>

StartCancelled(w) ==
    /\ At(w, "start")
    /\ Call(w) \in cancelled
    /\ wout' = [wout EXCEPT ![w] = "cancelled"]
    /\ Goto(w, "releaseFailed")
    /\ UNCHANGED <<storeVars, wmsg, wbatch, unsettled>>

ToolSucceeds(w) ==
    /\ At(w, "running")
    /\ FinalizeSuccess(Call(w))
    /\ Goto(w, "releaseOk")
    /\ UNCHANGED <<idem, lease, leaseIdx, stream, pel, delayed, lastId, approval,
                   cancelled, wcancel, wmsg, wout, wbatch, unsettled>>

ToolFails(w, err) ==
    /\ At(w, "running")
    /\ wout' = [wout EXCEPT ![w] = err]
    /\ unsettled' = unsettled \ {wmsg[w].id}
    /\ Goto(w, "releaseFailed")
    /\ UNCHANGED <<storeVars, wmsg, wbatch>>

\* The finally block of execute, before the outcome is settled anywhere else.
ReleaseLease(w) ==
    /\ wpc[w] \in {"releaseOk", "releaseFailed"}
    /\ LeaseRelease(Call(w), wmsg[w].id)
    /\ Goto(w, IF At(w, "releaseOk") THEN "complete" ELSE "persistFailed")
    /\ UNCHANGED <<idem, db, result, stream, pel, delayed, lastId, approval,
                   cancelled, wcancel, wmsg, wout, wbatch, unsettled>>

(***************************************************************************)
(* _finalize.                                                              *)
(***************************************************************************)
ClearCancel(w) == wcancel' = [wcancel EXCEPT ![w] = @ \ {Call(w)}]

CompleteSuccess(w) ==
    /\ At(w, "complete")
    /\ MarkSuccess(Call(w))
    /\ ClearCancel(w)
    /\ Goto(w, "ack")
    /\ UNCHANGED <<lease, leaseIdx, db, result, stream, pel, delayed, lastId, approval,
                   cancelled, wmsg, wout, wbatch, unsettled>>

\* Mutant of Recovery: a failure that is not retried is not recorded.
RecoveryForgets(err, att) ==
    IF err = "transient" /\ att + 1 < MaxAttempts
    THEN IF HighRisk THEN "escalate" ELSE "failRetry"
    ELSE "ack"

\* RecoveryPolicyEngine.decide for the outcome of a run.
Recovery(err, att) ==
    IF err = "transient" /\ att + 1 < MaxAttempts
    THEN IF HighRisk THEN "escalate" ELSE "failRetry"
    ELSE "fail"

PersistFailure(w) ==
    /\ At(w, "persistFailed")
    /\ SetStatus(Call(w), IF wout[w] = "cancelled" THEN "CANCELLED" ELSE "FAILED")
    /\ ClearCancel(w)
    /\ Goto(w, Recovery(wout[w], wmsg[w].att))
    /\ UNCHANGED <<idem, lease, leaseIdx, result, stream, pel, delayed, lastId, approval,
                   cancelled, wmsg, wout, wbatch, unsettled>>

\* complete_failure; a retry goes on to give the claim back.
CompleteFailure(w) ==
    /\ wpc[w] \in {"fail", "failRetry"}
    /\ MarkFailed(Call(w), wout[w])
    /\ Goto(w, IF At(w, "fail") THEN "ack" ELSE "giveBack")
    /\ UNCHANGED <<lease, leaseIdx, db, result, stream, pel, delayed, lastId, approval,
                   cancelled, wcancel, wmsg, wout, wbatch, unsettled>>

GiveClaimBack(w) ==
    /\ At(w, "giveBack")
    /\ ReleaseClaim
    /\ Goto(w, "retryLater")
    /\ UNCHANGED <<lease, leaseIdx, db, result, stream, pel, delayed, lastId, approval,
                   cancelled, wcancel, wmsg, wout, wbatch, unsettled>>

ScheduleRetry(w) ==
    /\ At(w, "retryLater")
    /\ RetryLater(Call(w), wmsg[w].att)
    /\ Goto(w, "ack")
    /\ UNCHANGED <<idem, lease, leaseIdx, db, result, stream, pel, lastId, approval,
                   cancelled, wcancel, wmsg, wout, wbatch, unsettled>>

EscalateToHuman(w) ==
    /\ At(w, "escalate")
    /\ approval' = [approval EXCEPT ![Call(w)] = "WAITING"]
    /\ Goto(w, "fail")
    /\ UNCHANGED <<idem, lease, leaseIdx, db, result, stream, pel, delayed, lastId,
                   cancelled, wcancel, wmsg, wout, wbatch, unsettled>>

Acknowledge(w) ==
    /\ At(w, "ack")
    /\ Xack(wmsg[w].id)
    /\ wmsg' = [wmsg EXCEPT ![w] = NoMsg]
    /\ wout' = [wout EXCEPT ![w] = "none"]
    /\ Goto(w, "top")
    /\ UNCHANGED <<idem, lease, leaseIdx, db, result, stream, delayed, lastId, approval,
                   cancelled, wcancel, wbatch, unsettled>>

(***************************************************************************)
(* The process dies and a worker of the same name starts: the pending      *)
(* entries keep that name.                                                 *)
(***************************************************************************)
WorkerCrash(w) ==
    /\ wpc' = [wpc EXCEPT ![w] = "top"]
    /\ wmsg' = [wmsg EXCEPT ![w] = NoMsg]
    /\ wout' = [wout EXCEPT ![w] = "none"]
    /\ wbatch' = [wbatch EXCEPT ![w] = {}]
    /\ wcancel' = [wcancel EXCEPT ![w] = {}]
    /\ UNCHANGED <<idem, lease, leaseIdx, db, result, stream, pel, delayed, lastId,
                   approval, cancelled, unsettled>>

\* Every step of processing a message, from the cancel check to the acknowledgement.
ProcessStep(w) ==
    \/ SkipCancelled(w) \/ AcquireLease(w) \/ LeaseRejected(w) \/ IndexLease(w)
    \/ EnsureOwned(w) \/ ReplaceFailed(w) \/ ClaimKey(w) \/ SkipOwned(w)
    \/ StartTool(w) \/ StartCancelled(w) \/ ToolSucceeds(w)
    \/ \E err \in {"transient", "permanent"} : ToolFails(w, err)
    \/ ReleaseLease(w) \/ CompleteSuccess(w) \/ PersistFailure(w) \/ CompleteFailure(w)
    \/ GiveClaimBack(w) \/ ScheduleRetry(w) \/ EscalateToHuman(w) \/ Acknowledge(w)

\* The queue steps of run_once; which messages are idle is the environment's choice.
QueueStep(w) ==
    \/ PromoteTake(w) \/ PromoteAdd(w) \/ StaleCheck(w) \/ RequeueStale(w)
    \/ AckStale(w) \/ Read(w) \/ ReadNothing(w)

=============================================================================
