----------------------------- MODULE ToolGateway -----------------------------
(***************************************************************************)
(* ToolGateway, run by the callers' threads: submit (with what it does on  *)
(* an existing record), the reviewer's approve and reject, and cancel, for *)
(* a tool executed asynchronously.  The checks before the claim that only  *)
(* refuse a call (registry, loops, validation, injection, permission) are  *)
(* taken as passed.                                                        *)
(***************************************************************************)
EXTENDS ToolStore

CONSTANTS
    Threads,    \* the callers' threads
    Resubmit    \* a caller may submit a call id more than once

ASSUME GatewayAssumption == Resubmit \in BOOLEAN

VARIABLES
    gpc,        \* where a thread is in its gateway operation
    gcall,      \* the call it handles
    gatt,       \* call.attempt of that call
    grec,       \* the idempotency record it read
    submitted,  \* history: calls submitted by a caller
    accepted,   \* history: calls a caller was told are ACCEPTED
    granted     \* history: calls a reviewer approved

gatewayVars == <<gpc, gcall, gatt, grec, submitted, accepted, granted>>

GatewayPcs ==
    {"idle", "gate", "begin", "reread", "existing", "giveBack", "ask", "park",
     "upsert", "dispatch", "markProcessing", "setRejected",
     "readRow", "cancelling", "signal", "setCancelled"}

GatewayTypeOK ==
    /\ gpc \in [Threads -> GatewayPcs]
    /\ gcall \in [Threads -> Calls \cup {NoCall}]
    /\ gatt \in [Threads -> Nat]
    /\ grec \in [Threads -> IdemRecords]
    /\ submitted \subseteq Calls
    /\ accepted \subseteq Calls
    /\ granted \subseteq Calls

GatewayInit ==
    /\ gpc = [t \in Threads |-> "idle"]
    /\ gcall = [t \in Threads |-> NoCall]
    /\ gatt = [t \in Threads |-> 0]
    /\ grec = [t \in Threads |-> Absent]
    /\ submitted = {}
    /\ accepted = {}
    /\ granted = {}

AtG(t, pc) == gpc[t] = pc

GotoG(t, pc) == gpc' = [gpc EXCEPT ![t] = pc]

\* The operation is over: the thread forgets what it handled.
Return(t) ==
    /\ gpc' = [gpc EXCEPT ![t] = "idle"]
    /\ gcall' = [gcall EXCEPT ![t] = NoCall]
    /\ gatt' = [gatt EXCEPT ![t] = 0]
    /\ grec' = [grec EXCEPT ![t] = Absent]

Enter(t, c, pc) ==
    /\ AtG(t, "idle")
    /\ GotoG(t, pc)
    /\ gcall' = [gcall EXCEPT ![t] = c]

(***************************************************************************)
(* submit.                                                                 *)
(***************************************************************************)
Submit(t, c) ==
    /\ Resubmit \/ c \notin submitted
    /\ submitted' = submitted \cup {c}
    /\ Enter(t, c, "gate")
    /\ UNCHANGED <<storeVars, gatt, grec, accepted, granted>>

\* Mutant of Gate: the approval is looked up by idempotency key, not by call.
GateByKey(t) ==
    /\ AtG(t, "gate")
    /\ GotoG(t, IF HighRisk /\ \A c \in Calls : approval[c] # "APPROVED"
                THEN "ask" ELSE "begin")
    /\ UNCHANGED <<storeVars, gcall, gatt, grec, submitted, accepted, granted>>

\* A high-risk call goes on only with an approved approval record.
Gate(t) ==
    /\ AtG(t, "gate")
    /\ GotoG(t, IF HighRisk /\ approval[gcall[t]] # "APPROVED" THEN "ask" ELSE "begin")
    /\ UNCHANGED <<storeVars, gcall, gatt, grec, submitted, accepted, granted>>

Begin(t) ==
    /\ AtG(t, "begin")
    /\ Claim(gcall[t])
    /\ GotoG(t, IF idem.st = "ABSENT" THEN "upsert" ELSE "reread")
    /\ UNCHANGED <<lease, leaseIdx, db, result, stream, pel, delayed, lastId, approval,
                   cancelled, wcancel, gcall, gatt, grec, submitted, accepted, granted>>

InsertRow(t) ==
    /\ AtG(t, "upsert")
    /\ Upsert(gcall[t], "QUEUED", gatt[t])
    /\ GotoG(t, "dispatch")
    /\ UNCHANGED <<idem, lease, leaseIdx, result, stream, pel, delayed, lastId, approval,
                   cancelled, wcancel, gcall, gatt, grec, submitted, accepted, granted>>

Dispatch(t) ==
    /\ AtG(t, "dispatch")
    /\ Xadd([call |-> gcall[t], att |-> gatt[t]])
    /\ GotoG(t, "markProcessing")
    /\ UNCHANGED <<idem, lease, leaseIdx, db, result, pel, delayed, approval,
                   cancelled, wcancel, gcall, gatt, grec, submitted, accepted, granted>>

\* The job is in the stream already when its row becomes PROCESSING.
MarkProcessing(t) ==
    /\ AtG(t, "markProcessing")
    /\ SetStatus(gcall[t], "PROCESSING")
    /\ accepted' = accepted \cup {gcall[t]}
    /\ Return(t)
    /\ UNCHANGED <<idem, lease, leaseIdx, result, stream, pel, delayed, lastId, approval,
                   cancelled, wcancel, submitted, granted>>

(***************************************************************************)
(* _handle_existing.                                                       *)
(***************************************************************************)
Reread(t) ==
    /\ AtG(t, "reread")
    /\ grec' = [grec EXCEPT ![t] = idem]
    /\ GotoG(t, "existing")
    /\ UNCHANGED <<storeVars, gcall, gatt, submitted, accepted, granted>>

\* The attempts a RETRY verdict may still use.
MayRetry(t) ==
    gatt[t] + 1 < (IF MaxAttempts > 1 THEN MaxAttempts ELSE 1) + 1

\* Mutant of Verdict: a claim without a lease is retried whatever the tool.
VerdictRetries(t, old) ==
    LET rec == grec[t]
    IN CASE rec.st = "PROCESSING" -> IF IsAlive(rec.call) \/ ~old THEN "wait" ELSE "retry"
         [] rec.st = "FAILED" ->
              IF gatt[t] < MaxAttempts /\ rec.err = "transient" THEN "retry" ELSE "stop"
         [] OTHER -> "stop"

\* IdempotencyManager.decide: "old" says that the claim outlived its grace period.
Verdict(t, old) ==
    LET rec == grec[t]
    IN CASE rec.st = "PROCESSING" ->
              IF IsAlive(rec.call) \/ ~old THEN "wait"
              ELSE IF CrashSafe /\ ~HighRisk THEN "retry" ELSE "human"
         [] rec.st = "FAILED" ->
              IF gatt[t] < MaxAttempts /\ rec.err = "transient" THEN "retry" ELSE "stop"
         [] OTHER -> "stop"   \* vanished, or SUCCESS: the stored result is returned

Existing(t, old) ==
    /\ AtG(t, "existing")
    /\ CASE Verdict(t, old) = "human" ->
              /\ GotoG(t, "ask")
              /\ UNCHANGED <<gcall, gatt, grec>>
         [] Verdict(t, old) = "retry" /\ MayRetry(t) ->
              /\ GotoG(t, "giveBack")
              /\ UNCHANGED <<gcall, gatt, grec>>
         [] OTHER -> Return(t)
    /\ UNCHANGED <<storeVars, submitted, accepted, granted>>

\* The claim given back, submit starts over; a FAILED record is not given back.
GiveBackAndResubmit(t) ==
    /\ AtG(t, "giveBack")
    /\ ReleaseClaim
    /\ IF idem.st = "PROCESSING"
       THEN /\ gatt' = [gatt EXCEPT ![t] = @ + 1]
            /\ grec' = [grec EXCEPT ![t] = Absent]
            /\ GotoG(t, "gate")
            /\ UNCHANGED gcall
       ELSE Return(t)
    /\ UNCHANGED <<lease, leaseIdx, db, result, stream, pel, delayed, lastId, approval,
                   cancelled, wcancel, submitted, accepted, granted>>

(***************************************************************************)
(* _request_human: the approval record, then the row.                      *)
(***************************************************************************)
Ask(t) ==
    /\ AtG(t, "ask")
    /\ approval' = [approval EXCEPT ![gcall[t]] = "WAITING"]
    /\ GotoG(t, "park")
    /\ UNCHANGED <<idem, lease, leaseIdx, db, result, stream, pel, delayed, lastId,
                   cancelled, wcancel, gcall, gatt, grec, submitted, accepted, granted>>

Park(t) ==
    /\ AtG(t, "park")
    /\ Upsert(gcall[t], "WAITING_HUMAN", gatt[t])
    /\ Return(t)
    /\ UNCHANGED <<idem, lease, leaseIdx, result, stream, pel, delayed, lastId, approval,
                   cancelled, wcancel, submitted, accepted, granted>>

(***************************************************************************)
(* approve and reject.  Approving submits the rebuilt call.                *)
(***************************************************************************)
Approve(t, c) ==
    /\ approval[c] = "WAITING"
    /\ approval' = [approval EXCEPT ![c] = "APPROVED"]
    /\ granted' = granted \cup {c}
    /\ Enter(t, c, "gate")
    /\ UNCHANGED <<idem, lease, leaseIdx, db, result, stream, pel, delayed, lastId,
                   cancelled, wcancel, gatt, grec, submitted, accepted>>

Reject(t, c) ==
    /\ approval[c] = "WAITING"
    /\ approval' = [approval EXCEPT ![c] = "REJECTED"]
    /\ Enter(t, c, "setRejected")
    /\ UNCHANGED <<idem, lease, leaseIdx, db, result, stream, pel, delayed, lastId,
                   cancelled, wcancel, gatt, grec, submitted, accepted, granted>>

(***************************************************************************)
(* cancel: the row is read, marked CANCELLING, the scheduler and the       *)
(* workers are told, and the row is marked CANCELLED.                      *)
(***************************************************************************)
Cancel(t, c) ==
    /\ Enter(t, c, "readRow")
    /\ UNCHANGED <<storeVars, gatt, grec, submitted, accepted, granted>>

CancelReadRow(t) ==
    /\ AtG(t, "readRow")
    /\ IF db[gcall[t]].st \in {"ABSENT", "SUCCESS", "CANCELLED"}
       THEN Return(t)
       ELSE GotoG(t, "cancelling") /\ UNCHANGED <<gcall, gatt, grec>>
    /\ UNCHANGED <<storeVars, submitted, accepted, granted>>

CancelMark(t) ==
    /\ AtG(t, "cancelling")
    /\ SetStatus(gcall[t], "CANCELLING")
    /\ GotoG(t, "signal")
    /\ UNCHANGED <<idem, lease, leaseIdx, result, stream, pel, delayed, lastId, approval,
                   cancelled, wcancel, gcall, gatt, grec, submitted, accepted, granted>>

CancelSignal(t) ==
    /\ AtG(t, "signal")
    /\ cancelled' = cancelled \cup {gcall[t]}
    /\ wcancel' = [w \in Workers |-> wcancel[w] \cup {gcall[t]}]
    /\ GotoG(t, "setCancelled")
    /\ UNCHANGED <<idem, lease, leaseIdx, db, result, stream, pel, delayed, lastId,
                   approval, gcall, gatt, grec, submitted, accepted, granted>>

\* The last step of cancel and of reject: the row becomes CANCELLED whatever it was.
SetCancelled(t) ==
    /\ gpc[t] \in {"setCancelled", "setRejected"}
    /\ SetStatus(gcall[t], "CANCELLED")
    /\ Return(t)
    /\ UNCHANGED <<idem, lease, leaseIdx, result, stream, pel, delayed, lastId, approval,
                   cancelled, wcancel, submitted, accepted, granted>>

GatewayCrash(t) ==
    /\ ~AtG(t, "idle")
    /\ Return(t)
    /\ UNCHANGED <<storeVars, submitted, accepted, granted>>

\* What a thread does inside an operation.
GatewayStep(t) ==
    \/ Gate(t) \/ Begin(t) \/ InsertRow(t) \/ Dispatch(t) \/ MarkProcessing(t)
    \/ Reread(t) \/ \E old \in BOOLEAN : Existing(t, old) \/ GiveBackAndResubmit(t)
    \/ Ask(t) \/ Park(t)
    \/ CancelReadRow(t) \/ CancelMark(t) \/ CancelSignal(t) \/ SetCancelled(t)

\* The operations a caller, a reviewer or an operator may begin.
GatewayOp(t) ==
    \E c \in Calls : Submit(t, c) \/ Approve(t, c) \/ Reject(t, c) \/ Cancel(t, c)

=============================================================================
