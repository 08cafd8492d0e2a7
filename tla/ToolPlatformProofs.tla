-------------------------- MODULE ToolPlatformProofs --------------------------
(***************************************************************************)
(* Proofs about ToolPlatform for every set of calls, workers, threads and  *)
(* reapers, every kind of tool and every bound.                            *)
(***************************************************************************)
EXTENDS ToolPlatform, FiniteSetTheorems, TLAPS

(***************************************************************************)
(* The type invariant is not inductive: an operation in progress needs to  *)
(* know that the message or the call it handles is a real one.             *)
(***************************************************************************)
BudgetTypeOK ==
    /\ ops \in 0..MaxOps
    /\ crashes \in 0..MaxCrashes
    /\ stalls \in 0..MaxStalls

WorkerTyped ==
    /\ WorkerTypeOK
    /\ \A w \in Workers : wpc[w] \notin {"top", "batch", "read"} => wmsg[w] \in Messages

GatewayTyped ==
    /\ GatewayTypeOK
    /\ \A t \in Threads : gpc[t] # "idle" => gcall[t] \in Calls

ReaperTyped ==
    /\ ReaperTypeOK
    /\ \A r \in Reapers : rpc[r] # "idle" => rcall[r] \in Calls

Typed == StoreTypeOK /\ WorkerTyped /\ GatewayTyped /\ ReaperTyped /\ BudgetTypeOK

LEMMA TypedInit == Init => Typed
BY StoreAssumption, BoundAssumption
   DEF Init, Typed, StoreInit, StoreTypeOK, IdemRecords, Absent, Errors, NoLease, Rows, RowStates,
       NoRow, ApprovalStates, WorkerInit, WorkerTyped, WorkerTypeOK, Unleased, NoMsg, GatewayInit,
       GatewayTyped, GatewayTypeOK, GatewayPcs, ReaperInit, ReaperTyped, ReaperTypeOK, ReaperPcs,
       LockedPcs, BudgetTypeOK

\* What a step of a worker leaves alone keeps its type.
LEMMA OthersTyped ==
    ASSUME Typed, UNCHANGED <<gatewayVars, reaperVars, budgetVars>>
    PROVE  GatewayTyped' /\ ReaperTyped' /\ BudgetTypeOK'
BY DEF Typed, gatewayVars, reaperVars, budgetVars, GatewayTyped, GatewayTypeOK, ReaperTyped,
       ReaperTypeOK, BudgetTypeOK

(***************************************************************************)
(* The steps of a worker.                                                  *)
(***************************************************************************)
LEMMA SetStatusTyped ==
    ASSUME StoreTypeOK, NEW c \in Calls, NEW st \in RowStates, SetStatus(c, st)
    PROVE  db' \in [Calls -> Rows]
BY DEF SetStatus, Rows, StoreTypeOK

LEMMA ProcessTyped ==
    ASSUME StoreTypeOK, WorkerTyped, NEW w \in Workers, ProcessStep(w)
    PROVE  StoreTypeOK' /\ WorkerTyped'
<1>1. CASE SkipCancelled(w)
  BY <1>1 DEF SkipCancelled, At, Goto, Call, StoreTypeOK, WorkerTyped, WorkerTypeOK, Unleased
<1>2. CASE AcquireLease(w)
  BY <1>2 DEF AcquireLease, LeaseTake, At, Goto, Call, StoreTypeOK, WorkerTyped, WorkerTypeOK,
     Leased, Messages
<1>3. CASE LeaseRejected(w)
  BY <1>3 DEF LeaseRejected, At, Goto, storeVars, StoreTypeOK, WorkerTyped, WorkerTypeOK, Unleased
<1>4. CASE IndexLease(w)
  BY <1>4 DEF IndexLease, At, Goto, Call, StoreTypeOK, WorkerTyped, WorkerTypeOK, Leased, Messages
<1>5. CASE EnsureOwned(w)
  BY <1>5 DEF EnsureOwned, At, Goto, storeVars, StoreTypeOK, IdemRecords, WorkerTyped,
     WorkerTypeOK, Leased
<1>6. CASE ReplaceFailed(w)
  BY <1>6, StoreAssumption DEF ReplaceFailed, DeleteRecord, Absent, IdemRecords, Errors, At,
     Goto, StoreTypeOK, WorkerTyped, WorkerTypeOK, Leased
<1>7. CASE ClaimKey(w)
  BY <1>7 DEF ClaimKey, Claim, Call, IdemRecords, Errors, Messages, At, Goto, StoreTypeOK,
     WorkerTyped, WorkerTypeOK, Leased
<1>8. CASE SkipOwned(w)
  BY <1>8 DEF SkipOwned, LeaseRelease, NoLease, Call, Messages, At, Goto, StoreTypeOK,
     WorkerTyped, WorkerTypeOK, Unleased
<1>9. CASE StartTool(w)
  BY <1>9 DEF StartTool, Messages, At, Goto, storeVars, StoreTypeOK, WorkerTyped, WorkerTypeOK,
     Leased
<1>10. CASE StartCancelled(w)
  BY <1>10 DEF StartCancelled, Errors, At, Goto, storeVars, StoreTypeOK, WorkerTyped,
     WorkerTypeOK, Leased
<1>11. CASE ToolSucceeds(w)
  <2>1. Call(w) \in Calls
    BY <1>11 DEF ToolSucceeds, At, Call, Messages, WorkerTyped
  <2>2. db' \in [Calls -> Rows]
    BY <1>11, <2>1, SetStatusTyped DEF ToolSucceeds, FinalizeSuccess, RowStates
  <2> QED
    BY <1>11, <2>1, <2>2 DEF ToolSucceeds, FinalizeSuccess, At, Goto, StoreTypeOK, WorkerTyped,
       WorkerTypeOK, Leased
<1>12. CASE \E err \in {"transient", "permanent"} : ToolFails(w, err)
  BY <1>12 DEF ToolFails, Errors, At, Goto, storeVars, StoreTypeOK, WorkerTyped, WorkerTypeOK,
     Leased
<1>13. CASE ReleaseLease(w)
  BY <1>13 DEF ReleaseLease, LeaseRelease, NoLease, Call, Messages, At, Goto, StoreTypeOK,
     WorkerTyped, WorkerTypeOK, Unleased
<1>14. CASE CompleteSuccess(w)
  BY <1>14 DEF CompleteSuccess, MarkSuccess, Transition, ClearCancel, IdemRecords, Errors, Call,
     Messages, At, Goto, StoreTypeOK, WorkerTyped, WorkerTypeOK, Unleased
<1>15. CASE PersistFailure(w)
  <2>1. wmsg[w] \in Messages /\ wmsg' = wmsg
    BY <1>15 DEF PersistFailure, At, WorkerTyped, WorkerTypeOK
  <2>2. db' \in [Calls -> Rows]
    <3>1. Call(w) \in Calls
      BY <2>1 DEF Call, Messages
    <3>2. /\ SetStatus(Call(w), IF wout[w] = "cancelled" THEN "CANCELLED" ELSE "FAILED")
          /\ (IF wout[w] = "cancelled" THEN "CANCELLED" ELSE "FAILED") \in RowStates
      BY <1>15 DEF PersistFailure, RowStates
    <3> QED
      BY <3>1, <3>2, SetStatusTyped
  <2>3. wcancel' \in [Workers -> SUBSET Calls]
    BY <1>15, <2>1 DEF PersistFailure, ClearCancel, Call, Messages, StoreTypeOK
  <2>4. Recovery(wout[w], wmsg[w].att) \in Unleased
    BY DEF Recovery, Unleased
  <2>5. wpc' \in [Workers -> Leased \cup Unleased] /\ \A v \in Workers : v # w => wpc'[v] = wpc[v]
    BY <1>15, <2>4 DEF PersistFailure, Goto, WorkerTyped, WorkerTypeOK
  <2> QED
    BY <1>15, <2>1, <2>2, <2>3, <2>5 DEF PersistFailure, StoreTypeOK, WorkerTyped, WorkerTypeOK
<1>16. CASE CompleteFailure(w)
  BY <1>16 DEF CompleteFailure, MarkFailed, Transition, IdemRecords, Call, Messages, At, Goto,
     StoreTypeOK, WorkerTyped, WorkerTypeOK, Unleased
<1>17. CASE GiveClaimBack(w)
  BY <1>17 DEF GiveClaimBack, ReleaseClaim, Absent, IdemRecords, Errors, At, Goto, StoreTypeOK,
     WorkerTyped, WorkerTypeOK, Unleased
<1>18. CASE ScheduleRetry(w)
  <2>1. wmsg[w] \in Messages
    BY <1>18 DEF ScheduleRetry, At, WorkerTyped
  <2>2. delayed' \subseteq Payloads
    BY <1>18, <2>1 DEF ScheduleRetry, RetryLater, Payloads, Call, Messages, StoreTypeOK
  <2> QED
    BY <1>18, <2>2 DEF ScheduleRetry, At, Goto, StoreTypeOK, WorkerTyped, WorkerTypeOK, Unleased
<1>19. CASE EscalateToHuman(w)
  BY <1>19 DEF EscalateToHuman, ApprovalStates, Call, Messages, At, Goto, StoreTypeOK,
     WorkerTyped, WorkerTypeOK, Unleased
<1>20. CASE Acknowledge(w)
  BY <1>20 DEF Acknowledge, Xack, NoMsg, Errors, At, Goto, StoreTypeOK, WorkerTyped,
     WorkerTypeOK, Unleased
<1> QED
  BY <1>1, <1>2, <1>3, <1>4, <1>5, <1>6, <1>7, <1>8, <1>9, <1>10, <1>11, <1>12, <1>13, <1>14,
     <1>15, <1>16, <1>17, <1>18, <1>19, <1>20 DEF ProcessStep

LEMMA XaddTyped ==
    ASSUME StoreTypeOK, NEW p \in Payloads, Xadd(p)
    PROVE  stream' \in Seq(Messages) /\ lastId' \in Nat
<1>1. Message(lastId + 1, p) \in Messages
  BY DEF Message, Messages, Payloads, StoreTypeOK
<1> QED
  BY <1>1 DEF Xadd, StoreTypeOK

LEMMA QueueTyped ==
    ASSUME StoreTypeOK, WorkerTyped, NEW w \in Workers, QueueStep(w)
    PROVE  StoreTypeOK' /\ WorkerTyped'
<1>1. CASE PromoteTake(w)
  <2>1. wmsg' \in [Workers -> Messages \cup {NoMsg}] /\ wmsg'[w] \in Messages
    BY <1>1 DEF PromoteTake, Message, Messages, Payloads, StoreTypeOK, WorkerTyped, WorkerTypeOK
  <2>2. \A v \in Workers : v # w => wmsg'[v] = wmsg[v]
    BY <1>1 DEF PromoteTake, WorkerTyped, WorkerTypeOK
  <2> QED
    BY <1>1, <2>1, <2>2 DEF PromoteTake, Goto, StoreTypeOK, WorkerTyped, WorkerTypeOK, Unleased
<1>2. CASE PromoteAdd(w)
  <2>1. Payload(wmsg[w]) \in Payloads
    BY <1>2 DEF PromoteAdd, At, Payload, Payloads, Messages, WorkerTyped
  <2>2. stream' \in Seq(Messages) /\ lastId' \in Nat
    BY <1>2, <2>1, XaddTyped DEF PromoteAdd
  <2> QED
    BY <1>2, <2>2 DEF PromoteAdd, Goto, StoreTypeOK, WorkerTyped, WorkerTypeOK, Unleased
<1>3. CASE StaleCheck(w)
  BY <1>3 DEF StaleCheck, Goto, storeVars, StoreTypeOK, WorkerTyped, WorkerTypeOK, Unleased
<1>4. CASE RequeueStale(w)
  <2>1. wmsg[w] \in Messages
    BY <1>4 DEF RequeueStale, At, WorkerTyped
  <2>2. delayed' \subseteq Payloads
    BY <1>4, <2>1 DEF RequeueStale, RetryLater, Payloads, Call, Messages, StoreTypeOK
  <2> QED
    BY <1>4, <2>2 DEF RequeueStale, At, Goto, StoreTypeOK, WorkerTyped, WorkerTypeOK, Unleased
<1>5. CASE AckStale(w)
  BY <1>5 DEF AckStale, Xack, Goto, StoreTypeOK, WorkerTyped, WorkerTypeOK, Unleased
<1>6. CASE Read(w)
  <2>1. Head(stream) \in Messages /\ Tail(stream) \in Seq(Messages)
    BY <1>6 DEF Read, StoreTypeOK
  <2>2. pel' \subseteq Deliveries
    BY <1>6, <2>1 DEF Read, Deliveries, StoreTypeOK
  <2> QED
    BY <1>6, <2>1, <2>2 DEF Read, Goto, StoreTypeOK, WorkerTyped, WorkerTypeOK, Unleased
<1>7. CASE ReadNothing(w)
  BY <1>7 DEF ReadNothing, Goto, storeVars, StoreTypeOK, WorkerTyped, WorkerTypeOK, Unleased
<1> QED
  BY <1>1, <1>2, <1>3, <1>4, <1>5, <1>6, <1>7 DEF QueueStep

LEMMA AutoclaimTyped ==
    ASSUME StoreTypeOK, WorkerTyped, NEW w \in Workers, NEW taken \in SUBSET pel,
           Autoclaim(w, taken)
    PROVE  StoreTypeOK' /\ WorkerTyped'
<1>1. \A e \in taken : e \in Deliveries /\ e.msg \in Messages /\ [e EXCEPT !.owner = w] \in Deliveries
  BY DEF StoreTypeOK, Deliveries
<1>2. pel' \subseteq Deliveries
  BY <1>1 DEF Autoclaim, StoreTypeOK
<1>3. wbatch' \in [Workers -> SUBSET Messages]
  BY <1>1 DEF Autoclaim, WorkerTyped, WorkerTypeOK
<1> QED
  BY <1>2, <1>3 DEF Autoclaim, Goto, StoreTypeOK, WorkerTyped, WorkerTypeOK, Unleased

LEMMA WorkerCrashTyped ==
    ASSUME StoreTypeOK, WorkerTyped, NEW w \in Workers, WorkerCrash(w)
    PROVE  StoreTypeOK' /\ WorkerTyped'
BY DEF WorkerCrash, Errors, StoreTypeOK, WorkerTyped, WorkerTypeOK, Unleased

(***************************************************************************)
(* The steps of a caller's thread.                                         *)
(***************************************************************************)
LEMMA ReturnTyped ==
    ASSUME GatewayTyped, NEW t \in Threads, Return(t)
    PROVE  /\ gpc' \in [Threads -> GatewayPcs]
           /\ gcall' \in [Threads -> Calls \cup {NoCall}]
           /\ gatt' \in [Threads -> Nat]
           /\ grec' \in [Threads -> IdemRecords]
           /\ \A u \in Threads : gpc'[u] # "idle" => gcall'[u] \in Calls
<1>1. Absent \in IdemRecords
  BY DEF Absent, IdemRecords, Errors
<1> QED
  BY <1>1 DEF Return, GatewayTyped, GatewayTypeOK, GatewayPcs

LEMMA GatewayStepTyped ==
    ASSUME StoreTypeOK, GatewayTyped, NEW t \in Threads, GatewayStep(t)
    PROVE  StoreTypeOK' /\ GatewayTyped'
<1>1. Absent \in IdemRecords
  BY DEF Absent, IdemRecords, Errors
<1>2. gpc[t] # "idle" => gcall[t] \in Calls /\ gatt[t] \in Nat
  BY DEF GatewayTyped, GatewayTypeOK
<1>3. CASE Gate(t)
  BY <1>3 DEF Gate, AtG, GotoG, storeVars, StoreTypeOK, GatewayTyped, GatewayTypeOK, GatewayPcs
<1>4. CASE Begin(t)
  BY <1>2, <1>4 DEF Begin, Claim, IdemRecords, Errors, AtG, GotoG, StoreTypeOK, GatewayTyped,
     GatewayTypeOK, GatewayPcs
<1>5. CASE InsertRow(t)
  BY <1>2, <1>5 DEF InsertRow, Upsert, Rows, RowStates, AtG, GotoG, StoreTypeOK, GatewayTyped,
     GatewayTypeOK, GatewayPcs
<1>6. CASE Dispatch(t)
  <2>1. [call |-> gcall[t], att |-> gatt[t]] \in Payloads
    BY <1>2, <1>6 DEF Dispatch, AtG, Payloads
  <2>2. stream' \in Seq(Messages) /\ lastId' \in Nat
    BY <1>6, <2>1, XaddTyped DEF Dispatch
  <2> QED
    BY <1>6, <2>2 DEF Dispatch, AtG, GotoG, StoreTypeOK, GatewayTyped, GatewayTypeOK, GatewayPcs
<1>7. CASE MarkProcessing(t)
  <2>1. db' \in [Calls -> Rows] /\ accepted' \subseteq Calls
    BY <1>2, <1>7, ZenonT(60) DEF MarkProcessing, SetStatus, Rows, RowStates, AtG, StoreTypeOK, GatewayTyped,
       GatewayTypeOK
  <2> QED
    BY <1>7, <2>1, ReturnTyped DEF MarkProcessing, StoreTypeOK, GatewayTyped, GatewayTypeOK
<1>8. CASE Reread(t)
  BY <1>8 DEF Reread, AtG, GotoG, storeVars, StoreTypeOK, GatewayTyped, GatewayTypeOK, GatewayPcs
<1>9. ASSUME NEW old \in BOOLEAN, Existing(t, old)
      PROVE  StoreTypeOK' /\ GatewayTyped'
  <2>1. StoreTypeOK' /\ submitted' = submitted /\ accepted' = accepted /\ granted' = granted
    BY <1>9 DEF Existing, storeVars, StoreTypeOK
  <2>2. CASE Return(t)
    BY <2>1, <2>2, ReturnTyped DEF GatewayTyped, GatewayTypeOK
  <2>3. CASE \E pc \in {"ask", "giveBack"} : GotoG(t, pc) /\ UNCHANGED <<gcall, gatt, grec>>
    BY <1>9, <2>1, <2>3 DEF Existing, AtG, GotoG, GatewayTyped, GatewayTypeOK, GatewayPcs
  <2> QED
    BY <1>9, <2>2, <2>3 DEF Existing
<1>10. CASE GiveBackAndResubmit(t)
  <2>1. idem' \in IdemRecords
    BY <1>1, <1>10 DEF GiveBackAndResubmit, ReleaseClaim, StoreTypeOK
  <2>2. StoreTypeOK'
    BY <1>10, <2>1 DEF GiveBackAndResubmit, StoreTypeOK
  <2>3. CASE Return(t)
    BY <1>10, <2>2, <2>3, ReturnTyped DEF GiveBackAndResubmit, GatewayTyped, GatewayTypeOK
  <2>4. CASE idem.st = "PROCESSING"
    BY <1>1, <1>2, <1>10, <2>2, <2>4 DEF GiveBackAndResubmit, AtG, GotoG, GatewayTyped,
       GatewayTypeOK, GatewayPcs
  <2> QED
    BY <1>10, <2>3, <2>4 DEF GiveBackAndResubmit
<1>11. CASE Ask(t)
  BY <1>11 DEF Ask, ApprovalStates, AtG, GotoG, StoreTypeOK, GatewayTyped, GatewayTypeOK,
     GatewayPcs
<1>12. CASE Park(t)
  <2>1. db' \in [Calls -> Rows]
    BY <1>2, <1>12 DEF Park, Upsert, Rows, RowStates, AtG, StoreTypeOK
  <2> QED
    BY <1>12, <2>1, ReturnTyped DEF Park, StoreTypeOK, GatewayTyped, GatewayTypeOK
<1>13. CASE CancelReadRow(t)
  <2>1. CASE Return(t)
    BY <1>13, <2>1, ReturnTyped DEF CancelReadRow, storeVars, StoreTypeOK, GatewayTyped,
       GatewayTypeOK
  <2>2. CASE GotoG(t, "cancelling") /\ UNCHANGED <<gcall, gatt, grec>>
    BY <1>13, <2>2 DEF CancelReadRow, AtG, GotoG, storeVars, StoreTypeOK, GatewayTyped,
       GatewayTypeOK, GatewayPcs
  <2> QED
    BY <1>13, <2>1, <2>2 DEF CancelReadRow
<1>14. CASE CancelMark(t)
  BY <1>2, <1>14, ZenonT(60) DEF CancelMark, SetStatus, Rows, RowStates, AtG, GotoG, StoreTypeOK,
     GatewayTyped,
     GatewayTypeOK, GatewayPcs
<1>15. CASE CancelSignal(t)
  <2>1. cancelled' \subseteq Calls /\ wcancel' \in [Workers -> SUBSET Calls]
    BY <1>2, <1>15 DEF CancelSignal, AtG, StoreTypeOK
  <2> QED
    BY <1>15, <2>1 DEF CancelSignal, AtG, GotoG, StoreTypeOK, GatewayTyped, GatewayTypeOK,
       GatewayPcs
<1>16. CASE SetCancelled(t)
  <2>1. db' \in [Calls -> Rows]
    BY <1>2, <1>16 DEF SetCancelled, SetStatus, Rows, RowStates, StoreTypeOK
  <2> QED
    BY <1>16, <2>1, ReturnTyped DEF SetCancelled, StoreTypeOK, GatewayTyped, GatewayTypeOK
<1> QED
  BY <1>3, <1>4, <1>5, <1>6, <1>7, <1>8, <1>9, <1>10, <1>11, <1>12, <1>13, <1>14, <1>15, <1>16
     DEF GatewayStep

LEMMA GatewayOpTyped ==
    ASSUME StoreTypeOK, GatewayTyped, NEW t \in Threads, GatewayOp(t)
    PROVE  StoreTypeOK' /\ GatewayTyped'
<1>1. ASSUME NEW c \in Calls, Submit(t, c)
      PROVE  StoreTypeOK' /\ GatewayTyped'
  BY <1>1 DEF Submit, Enter, AtG, GotoG, storeVars, StoreTypeOK, GatewayTyped, GatewayTypeOK,
     GatewayPcs
<1>2. ASSUME NEW c \in Calls, Approve(t, c)
      PROVE  StoreTypeOK' /\ GatewayTyped'
  BY <1>2 DEF Approve, Enter, ApprovalStates, AtG, GotoG, StoreTypeOK, GatewayTyped,
     GatewayTypeOK, GatewayPcs
<1>3. ASSUME NEW c \in Calls, Reject(t, c)
      PROVE  StoreTypeOK' /\ GatewayTyped'
  BY <1>3 DEF Reject, Enter, ApprovalStates, AtG, GotoG, StoreTypeOK, GatewayTyped,
     GatewayTypeOK, GatewayPcs
<1>4. ASSUME NEW c \in Calls, Cancel(t, c)
      PROVE  StoreTypeOK' /\ GatewayTyped'
  BY <1>4 DEF Cancel, Enter, AtG, GotoG, storeVars, StoreTypeOK, GatewayTyped, GatewayTypeOK,
     GatewayPcs
<1> QED
  BY <1>1, <1>2, <1>3, <1>4 DEF GatewayOp

(***************************************************************************)
(* The steps of a reaper.                                                  *)
(***************************************************************************)
LEMMA ForgetTyped ==
    ASSUME ReaperTyped, NEW r \in Reapers, Forget(r)
    PROVE  /\ rpc' \in [Reapers -> ReaperPcs]
           /\ rcall' \in [Reapers -> Calls \cup {NoCall}]
           /\ rrow' \in [Reapers -> Rows]
           /\ \A s \in Reapers : rpc'[s] # "idle" => rcall'[s] \in Calls
BY DEF Forget, NoRow, Rows, RowStates, ReaperTyped, ReaperTypeOK, ReaperPcs

LEMMA ScanTyped ==
    ASSUME StoreTypeOK, ReaperTyped, NEW r \in Reapers, NEW c \in Calls, Scan(r, c)
    PROVE  StoreTypeOK' /\ ReaperTyped'
BY DEF Scan, AtR, GotoR, storeVars, StoreTypeOK, ReaperTyped, ReaperTypeOK, ReaperPcs

LEMMA ReaperStepTyped ==
    ASSUME StoreTypeOK, ReaperTyped, NEW r \in Reapers, ReaperStep(r)
    PROVE  StoreTypeOK' /\ ReaperTyped'
<1>1. rpc[r] # "idle" => rcall[r] \in Calls
  BY DEF ReaperTyped
<1>2. CASE ReadRow(r)
  BY <1>1, <1>2 DEF ReadRow, AtR, GotoR, storeVars, StoreTypeOK, ReaperTyped, ReaperTypeOK,
     ReaperPcs
<1>3. CASE ForceReleaseKey(r)
  BY <1>1, <1>3 DEF ForceReleaseKey, NoLease, AtR, GotoR, StoreTypeOK, ReaperTyped, ReaperTypeOK,
     ReaperPcs, LockedPcs
<1>4. CASE ForceReleaseIndex(r)
  <2>1. StoreTypeOK' /\ lock' = lock
    BY <1>4 DEF ForceReleaseIndex, StoreTypeOK
  <2>2. CASE Forget(r)
    BY <2>1, <2>2, ForgetTyped DEF ReaperTyped, ReaperTypeOK
  <2>3. CASE ~AtR(r, "dropIndex")
    BY <1>1, <1>4, <2>1, <2>3 DEF ForceReleaseIndex, AtR, GotoR, ReaperTyped, ReaperTypeOK,
       ReaperPcs, LockedPcs
  <2> QED
    BY <1>4, <2>2, <2>3 DEF ForceReleaseIndex
<1>5. CASE TryLock(r)
  <2>1. StoreTypeOK'
    BY <1>5 DEF TryLock, storeVars, StoreTypeOK
  <2>2. CASE Forget(r) /\ UNCHANGED lock
    BY <2>1, <2>2, ForgetTyped DEF ReaperTyped, ReaperTypeOK
  <2>3. CASE lock[rcall[r]] = NoReaper
    BY <1>1, <1>5, <2>1, <2>3 DEF TryLock, AtR, GotoR, ReaperTyped, ReaperTypeOK, ReaperPcs,
       LockedPcs
  <2> QED
    BY <1>5, <2>2, <2>3 DEF TryLock
<1>6. CASE Recheck(r)
  BY <1>6 DEF Recheck, AtR, GotoR, storeVars, StoreTypeOK, ReaperTyped, ReaperTypeOK, ReaperPcs,
     LockedPcs
<1>7. CASE RetryClaim(r)
  BY <1>7 DEF RetryClaim, ReleaseClaim, Absent, IdemRecords, Errors, AtR, GotoR, StoreTypeOK,
     ReaperTyped, ReaperTypeOK, ReaperPcs, LockedPcs
<1>8. CASE RetryRow(r)
  <2>1. rrow[r].att \in Nat
    BY DEF ReaperTyped, ReaperTypeOK, Rows
  <2>2. db' \in [Calls -> Rows]
    BY <1>1, <1>8, <2>1 DEF RetryRow, Upsert, Rows, RowStates, AtR, StoreTypeOK
  <2> QED
    BY <1>8, <2>2 DEF RetryRow, AtR, GotoR, StoreTypeOK, ReaperTyped, ReaperTypeOK, ReaperPcs,
       LockedPcs
<1>9. CASE RetryRequeue(r)
  <2>1. delayed' \subseteq Payloads
    BY <1>1, <1>9 DEF RetryRequeue, RetryLater, Payloads, Rows, AtR, StoreTypeOK
  <2> QED
    BY <1>9, <2>1 DEF RetryRequeue, AtR, GotoR, StoreTypeOK, ReaperTyped, ReaperTypeOK,
       ReaperPcs, LockedPcs
<1>10. CASE HumanRow(r)
  BY <1>1, <1>10, ZenonT(60) DEF HumanRow, SetStatus, Rows, RowStates, AtR, GotoR, StoreTypeOK, ReaperTyped,
     ReaperTypeOK, ReaperPcs, LockedPcs
<1>11. CASE Unlock(r)
  BY <1>11, ForgetTyped DEF Unlock, storeVars, StoreTypeOK, ReaperTyped, ReaperTypeOK
<1> QED
  BY <1>2, <1>3, <1>4, <1>5, <1>6, <1>7, <1>8, <1>9, <1>10, <1>11 DEF ReaperStep

(***************************************************************************)
(* The whole system.                                                       *)
(***************************************************************************)
LEMMA SpendTyped ==
    ASSUME BudgetTypeOK, NEW stall \in BOOLEAN, Spend(stall)
    PROVE  stalls' \in 0..MaxStalls /\ (stalls' = 0 => ~stall /\ stalls = 0)
BY BoundAssumption DEF Spend, BudgetTypeOK

LEMMA TypedNext == Typed /\ [Next]_vars => Typed'
<1> SUFFICES ASSUME Typed, [Next]_vars
             PROVE  Typed'
  OBVIOUS
<1> USE DEF Typed
<1>1. ASSUME NEW w \in Workers, WorkerProcess(w) \/ WorkerQueue(w)
      PROVE  Typed'
  BY <1>1, ProcessTyped, QueueTyped, OthersTyped DEF WorkerProcess, WorkerQueue
<1>2. ASSUME NEW w \in Workers, ReclaimIdle(w)
      PROVE  Typed'
  <2>1. PICK taken \in SUBSET {e \in pel : e.owner # w} :
              /\ Autoclaim(w, taken)
              /\ Spend(\E e \in taken : Handled(e))
              /\ UNCHANGED <<gatewayVars, reaperVars, ops, crashes>>
    BY <1>2 DEF ReclaimIdle
  <2>2. StoreTypeOK' /\ WorkerTyped'
    BY <2>1, AutoclaimTyped
  <2>3. BudgetTypeOK'
    BY <2>1, SpendTyped DEF BudgetTypeOK
  <2> QED
    BY <2>1, <2>2, <2>3 DEF gatewayVars, reaperVars, GatewayTyped, GatewayTypeOK, ReaperTyped,
       ReaperTypeOK
<1>3. ASSUME NEW t \in Threads, GatewayMove(t) \/ GatewayBegin(t)
      PROVE  Typed'
  <2>1. StoreTypeOK' /\ GatewayTyped'
    BY <1>3, GatewayStepTyped, GatewayOpTyped DEF GatewayMove, GatewayBegin
  <2>2. BudgetTypeOK'
    BY <1>3, BoundAssumption DEF GatewayMove, GatewayBegin, budgetVars, BudgetTypeOK
  <2> QED
    BY <1>3, <2>1, <2>2 DEF GatewayMove, GatewayBegin, workerVars, reaperVars, WorkerTyped,
       WorkerTypeOK, ReaperTyped, ReaperTypeOK
<1>4. ASSUME NEW r \in Reapers, ReaperMove(r) \/ ReaperScan(r)
      PROVE  Typed'
  <2>1. StoreTypeOK' /\ ReaperTyped'
    BY <1>4, ReaperStepTyped, ScanTyped DEF ReaperMove, ReaperScan
  <2> QED
    BY <1>4, <2>1 DEF ReaperMove, ReaperScan, workerVars, gatewayVars, budgetVars, WorkerTyped,
       WorkerTypeOK, GatewayTyped, GatewayTypeOK, BudgetTypeOK
<1>5. ASSUME NEW c \in Calls, LeaseExpires(c)
      PROVE  Typed'
  <2>1. BudgetTypeOK'
    BY <1>5, SpendTyped DEF LeaseExpires, HolderLives, BudgetTypeOK
  <2> QED
    BY <1>5, <2>1 DEF LeaseExpires, NoLease, StoreTypeOK, workerVars, gatewayVars, reaperVars,
       WorkerTyped, WorkerTypeOK, GatewayTyped, GatewayTypeOK, ReaperTyped, ReaperTypeOK
<1>6. ASSUME NEW c \in Calls, LockExpires(c)
      PROVE  Typed'
  <2>1. BudgetTypeOK'
    BY <1>6, SpendTyped DEF LockExpires, BudgetTypeOK
  <2> QED
    BY <1>6, <2>1 DEF LockExpires, storeVars, StoreTypeOK, workerVars, gatewayVars, WorkerTyped,
       WorkerTypeOK, GatewayTyped, GatewayTypeOK, ReaperTyped, ReaperTypeOK
<1>7. CASE Crash
  <2>1. BudgetTypeOK'
    BY <1>7, BoundAssumption DEF Crash, BudgetTypeOK
  <2>2. ASSUME NEW w \in Workers, WorkerCrash(w), UNCHANGED <<gatewayVars, reaperVars>>
        PROVE  Typed'
    BY <2>1, <2>2, WorkerCrashTyped DEF gatewayVars, reaperVars, GatewayTyped, GatewayTypeOK,
       ReaperTyped, ReaperTypeOK
  <2>3. ASSUME NEW t \in Threads, GatewayCrash(t), UNCHANGED <<workerVars, reaperVars>>
        PROVE  Typed'
    <3>1. StoreTypeOK' /\ GatewayTyped'
      BY <2>3, ReturnTyped DEF GatewayCrash, storeVars, StoreTypeOK, GatewayTyped, GatewayTypeOK
    <3> QED
      BY <2>1, <2>3, <3>1 DEF workerVars, reaperVars, WorkerTyped, WorkerTypeOK, ReaperTyped,
         ReaperTypeOK
  <2>4. ASSUME NEW r \in Reapers, Forget(r), UNCHANGED <<storeVars, workerVars, gatewayVars, lock>>
        PROVE  Typed'
    <3>1. ReaperTyped'
      BY <2>4, ForgetTyped DEF ReaperTyped, ReaperTypeOK
    <3> QED
      BY <2>1, <2>4, <3>1 DEF storeVars, workerVars, gatewayVars, StoreTypeOK, WorkerTyped,
         WorkerTypeOK, GatewayTyped, GatewayTypeOK
  <2> QED
    BY <1>7, <2>2, <2>3, <2>4 DEF Crash
<1>8. CASE UNCHANGED vars
  BY <1>8 DEF vars, storeVars, workerVars, gatewayVars, reaperVars, budgetVars, StoreTypeOK,
     WorkerTyped, WorkerTypeOK, GatewayTyped, GatewayTypeOK, ReaperTyped, ReaperTypeOK, BudgetTypeOK
<1> QED
  BY <1>1, <1>2, <1>3, <1>4, <1>5, <1>6, <1>7, <1>8 DEF Next

LEMMA AlwaysTyped == Spec => []Typed
BY TypedInit, TypedNext, PTL DEF Spec

\* Every variable keeps its type, whatever the calls, workers, threads and
\* reapers, and whoever crashes, stalls or races.
THEOREM TypeCorrect == Spec => []TypeOK
<1>1. Typed => TypeOK
  BY DEF Typed, WorkerTyped, GatewayTyped, ReaperTyped, BudgetTypeOK, TypeOK
<1> QED
  BY <1>1, AlwaysTyped, PTL

(***************************************************************************)
(* Footprints: what the steps of each kind of process leave alone.         *)
(***************************************************************************)
Others(w) == {v \in Workers : v # w}

LEMMA WorkerFootprint ==
    ASSUME Typed, NEW w \in Workers, ProcessStep(w) \/ QueueStep(w)
    PROVE  /\ \A v \in Others(w) : wpc'[v] = wpc[v] /\ wmsg'[v] = wmsg[v] /\ wbatch'[v] = wbatch[v]
           /\ result \subseteq result'
<1> USE DEF Typed, WorkerTyped, WorkerTypeOK, Others
<1>1. CASE QueueStep(w)
  BY <1>1 DEF QueueStep, PromoteTake, PromoteAdd, StaleCheck, RequeueStale, AckStale, Read,
     ReadNothing, Goto, storeVars
<1>2. CASE ProcessStep(w)
  BY <1>2 DEF ProcessStep, SkipCancelled, AcquireLease, LeaseRejected, IndexLease, EnsureOwned,
     ReplaceFailed, ClaimKey, SkipOwned, StartTool, StartCancelled, ToolSucceeds, FinalizeSuccess,
     ToolFails, ReleaseLease, CompleteSuccess, PersistFailure, CompleteFailure, GiveClaimBack,
     ScheduleRetry, EscalateToHuman, Acknowledge, Goto, storeVars
<1> QED
  BY <1>1, <1>2

LEMMA QueueFootprint ==
    ASSUME Typed, NEW w \in Workers, QueueStep(w)
    PROVE  /\ UNCHANGED <<idem, lease, result, approval, unsettled>>
           /\ wpc[w] \in {"top", "batch", "read", "promote", "requeueStale", "ackStale"}
           /\ wpc'[w] \in {"top", "batch", "read", "promote", "requeueStale", "ackStale", "got"}
BY DEF Typed, WorkerTyped, WorkerTypeOK, QueueStep, PromoteTake, PromoteAdd, StaleCheck,
   RequeueStale,
       AckStale, Read, ReadNothing, At, Goto, storeVars

LEMMA GatewayFootprint ==
    ASSUME NEW t \in Threads, GatewayMove(t) \/ GatewayBegin(t)
    PROVE  /\ UNCHANGED <<workerVars, reaperVars, lease, leaseIdx, result, pel, delayed>>
           /\ idem' = idem \/ idem'.st # "SUCCESS"
           /\ UNCHANGED <<crashes, stalls>>
<1>1. CASE GatewayMove(t)
  BY <1>1 DEF GatewayMove, GatewayStep, Gate, Begin, Claim, InsertRow, Dispatch, MarkProcessing,
     Reread,
     Existing, GiveBackAndResubmit, ReleaseClaim, Absent, Ask, Park, CancelReadRow, CancelMark,
     CancelSignal, SetCancelled, storeVars, workerVars, budgetVars
<1>2. CASE GatewayBegin(t)
  BY <1>2 DEF GatewayBegin, GatewayOp, Submit, Approve, Reject, Cancel, storeVars
<1> QED
  BY <1>1, <1>2

LEMMA ReaperFootprint ==
    ASSUME NEW r \in Reapers, ReaperMove(r) \/ ReaperScan(r)
    PROVE  /\ UNCHANGED <<workerVars, gatewayVars, budgetVars, result, stream, pel, approval>>
           /\ idem' = idem \/ idem'.st # "SUCCESS"
BY DEF ReaperMove, ReaperScan, ReaperStep, Scan, ReadRow, ForceReleaseKey, ForceReleaseIndex,
   TryLock,
       Recheck, RetryClaim, ReleaseClaim, Absent, RetryRow, RetryRequeue, HumanRow, Unlock, storeVars

\* A crash changes no store but the dead worker's cancel requests.
LEMMA CrashFootprint ==
    ASSUME Typed, Crash
    PROVE  /\ UNCHANGED <<lock, idem, lease, result, stream, pel, delayed, approval, granted, stalls>>
           /\ \A v \in Workers : wpc'[v] = "top" \/ (wpc'[v] = wpc[v] /\ wmsg'[v] = wmsg[v])
           /\ \A v \in Workers : wbatch'[v] \subseteq wbatch[v]
           /\ \A t \in Threads : gpc'[t] = "idle" \/ (gpc'[t] = gpc[t] /\ gcall'[t] = gcall[t])
           /\ \A r \in Reapers : rpc'[r] = "idle" \/ (rpc'[r] = rpc[r] /\ rcall'[r] = rcall[r])
<1> USE DEF Typed, WorkerTyped, WorkerTypeOK, GatewayTyped, GatewayTypeOK, ReaperTyped, ReaperTypeOK
<1>1. ASSUME NEW w \in Workers, WorkerCrash(w), UNCHANGED <<gatewayVars, reaperVars>>
      PROVE  /\ UNCHANGED <<lock, idem, lease, result, stream, pel, delayed, approval, granted>>
             /\ UNCHANGED <<gpc, gcall, rpc, rcall>>
             /\ \A v \in Workers : wpc'[v] = "top" \/ (wpc'[v] = wpc[v] /\ wmsg'[v] = wmsg[v])
             /\ \A v \in Workers : wbatch'[v] \subseteq wbatch[v]
  BY <1>1 DEF WorkerCrash, gatewayVars, reaperVars
<1>2. ASSUME NEW u \in Threads, GatewayCrash(u), UNCHANGED <<workerVars, reaperVars>>
      PROVE  /\ UNCHANGED <<lock, idem, lease, result, stream, pel, delayed, approval, granted>>
             /\ UNCHANGED <<wpc, wmsg, wbatch, rpc, rcall>>
             /\ \A t \in Threads : gpc'[t] = "idle" \/ (gpc'[t] = gpc[t] /\ gcall'[t] = gcall[t])
  BY <1>2 DEF GatewayCrash, Return, storeVars, workerVars, reaperVars
<1>3. ASSUME NEW q \in Reapers, Forget(q), UNCHANGED <<storeVars, workerVars, gatewayVars, lock>>
      PROVE  /\ UNCHANGED <<lock, idem, lease, result, stream, pel, delayed, approval, granted>>
             /\ UNCHANGED <<wpc, wmsg, wbatch, gpc, gcall>>
             /\ \A r \in Reapers : rpc'[r] = "idle" \/ (rpc'[r] = rpc[r] /\ rcall'[r] = rcall[r])
  BY <1>3 DEF Forget, storeVars, workerVars, gatewayVars
<1> QED
  BY <1>1, <1>2, <1>3 DEF Crash

(***************************************************************************)
(* SuccessHasResult needs to follow the result from the transaction that   *)
(* stores it to complete_success, across the release of the lease.         *)
(***************************************************************************)
ResultStored ==
    /\ SuccessHasResult
    /\ \A w \in Workers : wpc[w] \in {"releaseOk", "complete"} => Call(w) \in result

LEMMA ResultStoredProcess ==
    ASSUME Typed, ResultStored, NEW w \in Workers, ProcessStep(w)
    PROVE  ResultStored'
<1>1. /\ \A v \in Workers : v # w => wpc'[v] = wpc[v] /\ wmsg'[v] = wmsg[v]
      /\ result \subseteq result'
  BY WorkerFootprint DEF Others
<1>2. wpc'[w] \in {"releaseOk", "complete"} => wmsg'[w].call \in result'
  <2> USE DEF Typed, WorkerTyped, WorkerTypeOK
  <2>1. CASE ToolSucceeds(w)
    BY <2>1 DEF ToolSucceeds, FinalizeSuccess, Call
  <2>2. CASE ReleaseLease(w)
    BY <2>2 DEF ReleaseLease, ResultStored, At, Goto, Call
  <2>3. CASE ~ToolSucceeds(w) /\ ~ReleaseLease(w)
    <3>1. CASE PersistFailure(w)
      BY <3>1 DEF PersistFailure, Recovery, Goto
    <3>2. CASE EnsureOwned(w)
      BY <3>2 DEF EnsureOwned, StoreTypeOK, IdemRecords, Goto
    <3> QED
      BY <2>3, <3>1, <3>2 DEF ProcessStep, SkipCancelled, AcquireLease, LeaseRejected, IndexLease,
         ReplaceFailed, ClaimKey, SkipOwned, StartTool, StartCancelled, ToolFails, CompleteSuccess,
         CompleteFailure, GiveClaimBack, ScheduleRetry, EscalateToHuman, Acknowledge, Goto
  <2> QED
    BY <2>1, <2>2, <2>3
<1>3. SuccessHasResult'
  <2>1. CASE CompleteSuccess(w)
    BY <1>1, <2>1 DEF CompleteSuccess, MarkSuccess, Transition, At, Call, ResultStored,
       SuccessHasResult
  <2>2. CASE ~CompleteSuccess(w)
    <3>1. idem' = idem \/ idem'.st # "SUCCESS"
      BY <2>2 DEF ProcessStep, SkipCancelled, AcquireLease, LeaseRejected, IndexLease,
         EnsureOwned,
         ReplaceFailed, DeleteRecord, ClaimKey, Claim, SkipOwned, StartTool, StartCancelled, ToolSucceeds,
         ToolFails, ReleaseLease, PersistFailure, CompleteFailure, MarkFailed, Transition,
         GiveClaimBack, ReleaseClaim, Absent, ScheduleRetry, EscalateToHuman, Acknowledge, storeVars
    <3> QED
      BY <1>1, <3>1 DEF ResultStored, SuccessHasResult
  <2> QED
    BY <2>1, <2>2
<1> QED
  BY <1>1, <1>2, <1>3 DEF ResultStored, Call

LEMMA ResultStoredNext == Typed /\ ResultStored /\ [Next]_vars => ResultStored'
<1> SUFFICES ASSUME Typed, ResultStored, [Next]_vars
             PROVE  ResultStored'
  OBVIOUS
<1>1. ASSUME NEW w \in Workers, WorkerProcess(w)
      PROVE  ResultStored'
  BY <1>1, ResultStoredProcess DEF WorkerProcess
<1>2. ASSUME NEW w \in Workers, WorkerQueue(w)
      PROVE  ResultStored'
  BY <1>2, QueueFootprint, WorkerFootprint DEF WorkerQueue, Others, ResultStored,
     SuccessHasResult, Call
<1>3. ASSUME NEW w \in Workers, ReclaimIdle(w)
      PROVE  ResultStored'
  BY <1>3 DEF ReclaimIdle, Autoclaim, Goto, Typed, WorkerTyped, WorkerTypeOK, ResultStored,
     SuccessHasResult, Call
<1>4. ASSUME NEW t \in Threads, GatewayMove(t) \/ GatewayBegin(t)
      PROVE  ResultStored'
  BY <1>4, GatewayFootprint DEF workerVars, ResultStored, SuccessHasResult, Call
<1>5. ASSUME NEW r \in Reapers, ReaperMove(r) \/ ReaperScan(r)
      PROVE  ResultStored'
  BY <1>5, ReaperFootprint DEF workerVars, ResultStored, SuccessHasResult, Call
<1>6. ASSUME NEW c \in Calls, LeaseExpires(c) \/ LockExpires(c)
      PROVE  ResultStored'
  BY <1>6 DEF LeaseExpires, LockExpires, storeVars, workerVars, ResultStored, SuccessHasResult,
     Call
<1>7. CASE Crash
  <2>1. idem' = idem /\ result' = result
    BY <1>7 DEF Crash, WorkerCrash, GatewayCrash, storeVars
  <2>2. ASSUME NEW v \in Workers, wpc'[v] \in {"releaseOk", "complete"}
        PROVE  wpc'[v] = wpc[v] /\ wmsg'[v] = wmsg[v]
    BY <1>7, <2>2, CrashFootprint
  <2> QED
    BY <2>1, <2>2 DEF ResultStored, SuccessHasResult, Call
<1>8. CASE UNCHANGED vars
  BY <1>8 DEF vars, storeVars, workerVars, ResultStored, SuccessHasResult, Call
<1> QED
  BY <1>1, <1>2, <1>3, <1>4, <1>5, <1>6, <1>7, <1>8 DEF Next

\* Whoever reads SUCCESS in the record finds the result row, under any number
\* of crashes, stalls, expired leases and repeated runs.
THEOREM SuccessIsBacked == Spec => []SuccessHasResult
<1>1. Init => ResultStored
  BY DEF Init, StoreInit, WorkerInit, Absent, ResultStored, SuccessHasResult
<1>2. ResultStored => SuccessHasResult
  BY DEF ResultStored
<1> QED
  BY <1>1, <1>2, AlwaysTyped, ResultStoredNext, PTL DEF Spec

(***************************************************************************)
(* OneReaperActs: whoever is inside recovery_lock.hold owns the lock, until *)
(* somebody stalls.                                                        *)
(***************************************************************************)
LockHeld ==
    stalls = 0 => \A r \in Reapers : rpc[r] \in LockedPcs => lock[rcall[r]] = r

LEMMA LockHeldReaper ==
    ASSUME Typed, LockHeld, NEW r \in Reapers, ReaperStep(r), UNCHANGED stalls
    PROVE  LockHeld'
<1> USE DEF Typed, ReaperTyped, ReaperTypeOK
<1>1. CASE TryLock(r)
  <2>1. CASE lock[rcall[r]] = NoReaper
    BY <1>1, <2>1, ReaperAssumption DEF TryLock, AtR, GotoR, LockHeld, LockedPcs
  <2>2. CASE lock[rcall[r]] # NoReaper
    BY <1>1, <2>2 DEF TryLock, Forget, LockHeld, LockedPcs
  <2> QED
    BY <2>1, <2>2
<1>2. CASE Unlock(r)
  BY <1>2 DEF Unlock, Forget, AtR, LockHeld, LockedPcs
<1>3. CASE ~TryLock(r) /\ ~Unlock(r)
  <2>1. /\ lock' = lock
        /\ \A s \in Reapers : s # r => rpc'[s] = rpc[s] /\ rcall'[s] = rcall[s]
        /\ rpc'[r] \in LockedPcs => rpc[r] \in LockedPcs /\ rcall'[r] = rcall[r]
    BY <1>3 DEF ReaperStep, ReadRow, ForceReleaseKey, ForceReleaseIndex, Recheck, RetryClaim,
       RetryRow,
       RetryRequeue, HumanRow, Forget, AtR, GotoR, LockedPcs
  <2> QED
    BY <2>1 DEF LockHeld
<1> QED
  BY <1>1, <1>2, <1>3

LEMMA LockHeldNext == Typed /\ LockHeld /\ [Next]_vars => LockHeld'
<1> SUFFICES ASSUME Typed, LockHeld, [Next]_vars
             PROVE  LockHeld'
  OBVIOUS
<1>1. ASSUME NEW w \in Workers, WorkerProcess(w) \/ WorkerQueue(w)
      PROVE  LockHeld'
  BY <1>1 DEF WorkerProcess, WorkerQueue, reaperVars, budgetVars, LockHeld
<1>2. ASSUME NEW w \in Workers, ReclaimIdle(w)
      PROVE  LockHeld'
  BY <1>2, SpendTyped DEF ReclaimIdle, reaperVars, Typed, LockHeld
<1>3. ASSUME NEW t \in Threads, GatewayMove(t) \/ GatewayBegin(t)
      PROVE  LockHeld'
  BY <1>3 DEF GatewayMove, GatewayBegin, reaperVars, budgetVars, LockHeld
<1>4. ASSUME NEW r \in Reapers, ReaperMove(r)
      PROVE  LockHeld'
  BY <1>4, LockHeldReaper DEF ReaperMove, budgetVars
<1>5. ASSUME NEW r \in Reapers, ReaperScan(r)
      PROVE  LockHeld'
  BY <1>5 DEF ReaperScan, Scan, GotoR, budgetVars, Typed, ReaperTyped, ReaperTypeOK, LockHeld,
     LockedPcs
<1>6. ASSUME NEW c \in Calls, LeaseExpires(c)
      PROVE  LockHeld'
  BY <1>6, SpendTyped DEF LeaseExpires, HolderLives, reaperVars, Typed, LockHeld
<1>7. ASSUME NEW c \in Calls, LockExpires(c)
      PROVE  LockHeld'
  <2>1. stalls' = 0 => ~(rcall[lock[c]] = c /\ rpc[lock[c]] \in LockedPcs) /\ stalls = 0
    BY <1>7, SpendTyped DEF LockExpires, Typed
  <2> QED
    BY <1>7, <2>1 DEF LockExpires, Typed, ReaperTyped, ReaperTypeOK, LockHeld
<1>8. CASE Crash
  <2>1. "idle" \notin LockedPcs
    BY DEF LockedPcs
  <2> QED
    BY <1>8, <2>1, CrashFootprint DEF LockHeld
<1>9. CASE UNCHANGED vars
  BY <1>9 DEF vars, reaperVars, budgetVars, LockHeld
<1> QED
  BY <1>1, <1>2, <1>3, <1>4, <1>5, <1>6, <1>7, <1>8, <1>9 DEF Next

\* Any number of reapers scan the same index: as long as none of them is
\* silent for longer than the lock's TTL, one at a time decides on a call.
THEOREM ReapersExclude == Spec => []OneReaperActs
<1>1. Init => LockHeld
  BY DEF Init, ReaperInit, LockHeld, LockedPcs
<1>2. Typed /\ LockHeld => OneReaperActs
  BY DEF LockHeld, OneReaperActs
<1> QED
  BY <1>1, <1>2, AlwaysTyped, LockHeldNext, PTL DEF Spec

(***************************************************************************)
(* ApprovedOnly: every place a job can be, and every step on the way to    *)
(* the queue, knows the approval.                                          *)
(***************************************************************************)
QueueGranted ==
    /\ \A i \in DOMAIN stream : stream[i].call \in granted
    /\ \A e \in pel : e.msg.call \in granted
    /\ \A p \in delayed : p.call \in granted

HandsGranted ==
    /\ \A w \in Workers : wpc[w] \notin {"top", "batch", "read"} => Call(w) \in granted
    /\ \A w \in Workers : \A m \in wbatch[w] : m.call \in granted

RequestsGranted ==
    /\ \A c \in Calls : approval[c] = "APPROVED" => c \in granted
    /\ \A t \in Threads : gpc[t] \in {"begin", "upsert", "dispatch"} => gcall[t] \in granted

ReapersAskHumans ==
    \A r \in Reapers :
       rpc[r] \notin {"retryForce", "retryIndex", "retryClaim", "retryRow", "retryRequeue"}

Approved == HighRisk => QueueGranted /\ HandsGranted /\ RequestsGranted /\ ReapersAskHumans

LEMMA ApprovedProcess ==
    ASSUME Typed, Approved, HighRisk, NEW w \in Workers, WorkerProcess(w)
    PROVE  Approved'
<1> USE DEF WorkerProcess, gatewayVars, reaperVars
<1> USE DEF Typed, WorkerTyped, WorkerTypeOK, Goto, At
<1>1. wpc[w] \notin {"top", "batch", "read"}
  BY DEF ProcessStep, SkipCancelled, AcquireLease, LeaseRejected, IndexLease, EnsureOwned,
     ReplaceFailed,
     ClaimKey, SkipOwned, StartTool, StartCancelled, ToolSucceeds, ToolFails, ReleaseLease,
     CompleteSuccess, PersistFailure, CompleteFailure, GiveClaimBack, ScheduleRetry, EscalateToHuman,
     Acknowledge
<1>2. Call(w) \in granted
  BY <1>1 DEF Approved, HandsGranted
<1>3. CASE ScheduleRetry(w)
  BY <1>1, <1>2, <1>3 DEF ScheduleRetry, RetryLater, Call, Approved, QueueGranted, HandsGranted,
     RequestsGranted, ReapersAskHumans
<1>4. CASE Acknowledge(w)
  BY <1>4 DEF Acknowledge, Xack, Call, Approved, QueueGranted, HandsGranted, RequestsGranted,
     ReapersAskHumans
<1>5. CASE EscalateToHuman(w)
  BY <1>1, <1>5 DEF EscalateToHuman, StoreTypeOK, Call, Approved, QueueGranted, HandsGranted,
     RequestsGranted, ReapersAskHumans
<1>6. CASE ~ScheduleRetry(w) /\ ~Acknowledge(w) /\ ~EscalateToHuman(w)
  <2>1. UNCHANGED <<stream, pel, delayed, approval, wmsg, wbatch>>
    BY <1>6 DEF ProcessStep, SkipCancelled, AcquireLease, LeaseRejected, IndexLease, EnsureOwned,
       ReplaceFailed, ClaimKey, SkipOwned, StartTool, StartCancelled, ToolSucceeds, ToolFails,
       ReleaseLease, CompleteSuccess, PersistFailure, CompleteFailure, GiveClaimBack, storeVars
  <2>2. \A v \in Workers : v # w => wpc'[v] = wpc[v]
    BY WorkerFootprint DEF Others
  <2>3. HandsGranted'
    BY <1>2, <2>1, <2>2 DEF HandsGranted, Approved, Call
  <2> QED
    BY <2>1, <2>3 DEF Approved, QueueGranted, RequestsGranted, ReapersAskHumans
<1> QED
  BY <1>3, <1>4, <1>5, <1>6

LEMMA ApprovedQueue ==
    ASSUME Typed, Approved, HighRisk, NEW w \in Workers, WorkerQueue(w)
    PROVE  Approved'
<1> USE DEF Typed, WorkerTyped, WorkerTypeOK, Goto, At, Call, Approved, QueueGranted, HandsGranted
<1>1. /\ \A v \in Workers : v # w => wpc'[v] = wpc[v] /\ wmsg'[v] = wmsg[v] /\ wbatch'[v] = wbatch[v]
      /\ approval' = approval
  BY WorkerFootprint, QueueFootprint DEF Others, WorkerQueue
<1>2. RequestsGranted' /\ ReapersAskHumans'
  BY <1>1 DEF WorkerQueue, gatewayVars, reaperVars, RequestsGranted, ReapersAskHumans
<1>3. granted' = granted
  BY DEF WorkerQueue, gatewayVars
<1>4. CASE PromoteTake(w)
  BY <1>1, <1>2, <1>3, <1>4 DEF PromoteTake, Message
<1>5. CASE PromoteAdd(w)
  <2>1. Call(w) \in granted /\ wmsg[w] \in Messages
    BY <1>5 DEF PromoteAdd
  <2>2. \A i \in DOMAIN stream' : stream'[i].call \in granted
    BY <1>5, <2>1 DEF PromoteAdd, Xadd, Message, Payload, StoreTypeOK
  <2> QED
    BY <1>1, <1>2, <1>3, <1>5, <2>2 DEF PromoteAdd
<1>6. CASE StaleCheck(w)
  BY <1>1, <1>2, <1>3, <1>6 DEF StaleCheck, storeVars
<1>7. CASE RequeueStale(w)
  BY <1>1, <1>2, <1>3, <1>7 DEF RequeueStale, RetryLater
<1>8. CASE AckStale(w)
  BY <1>1, <1>2, <1>3, <1>8 DEF AckStale, Xack
<1>9. CASE Read(w)
  <2>1. Head(stream).call \in granted
    BY <1>9 DEF Read, StoreTypeOK
  <2>2. \A i \in DOMAIN stream' : stream'[i].call \in granted
    BY <1>9 DEF Read, StoreTypeOK
  <2> QED
    BY <1>1, <1>2, <1>3, <1>9, <2>1, <2>2 DEF Read
<1>10. CASE ReadNothing(w)
  BY <1>1, <1>2, <1>3, <1>10 DEF ReadNothing, storeVars
<1> QED
  BY <1>4, <1>5, <1>6, <1>7, <1>8, <1>9, <1>10 DEF WorkerQueue, QueueStep

LEMMA ApprovedReclaim ==
    ASSUME Typed, Approved, HighRisk, NEW w \in Workers, ReclaimIdle(w)
    PROVE  Approved'
<1>1. PICK taken \in SUBSET {e \in pel : e.owner # w} :
            /\ Autoclaim(w, taken)
            /\ UNCHANGED <<gatewayVars, reaperVars>>
  BY DEF ReclaimIdle
<1>2. \A e \in taken : e.msg.call \in granted /\ [e EXCEPT !.owner = w].msg = e.msg
  BY DEF Approved, QueueGranted, Typed, StoreTypeOK, Deliveries
<1>3. QueueGranted'
  BY <1>1, <1>2 DEF Autoclaim, Approved, QueueGranted, gatewayVars
<1>4. HandsGranted'
  BY <1>1, <1>2 DEF Autoclaim, Goto, Approved, HandsGranted, Call, gatewayVars, Typed,
     WorkerTyped,
     WorkerTypeOK
<1> QED
  BY <1>1, <1>3, <1>4 DEF Autoclaim, Approved, RequestsGranted, ReapersAskHumans, gatewayVars,
     reaperVars

LEMMA ApprovedGatewayMove ==
    ASSUME Typed, Approved, HighRisk, NEW t \in Threads, GatewayMove(t)
    PROVE  Approved'
<1>1. UNCHANGED <<workerVars, reaperVars, pel, delayed>>
  BY GatewayFootprint
<1>2. granted' = granted
  BY DEF GatewayMove, GatewayStep, Gate, Begin, InsertRow, Dispatch, MarkProcessing, Reread,
     Existing,
     GiveBackAndResubmit, Ask, Park, CancelReadRow, CancelMark, CancelSignal, SetCancelled
<1>3. HandsGranted' /\ ReapersAskHumans'
  BY <1>1, <1>2 DEF Approved, HandsGranted, ReapersAskHumans, Call, workerVars, reaperVars
<1>4. QueueGranted'
  <2>1. CASE Dispatch(t)
    BY <1>1, <1>2, <2>1 DEF Dispatch, AtG, Xadd, Message, Typed, StoreTypeOK, Approved,
       QueueGranted,
       RequestsGranted
  <2>2. CASE ~Dispatch(t)
    <3>1. stream' = stream
      BY <2>2 DEF GatewayMove, GatewayStep, Gate, Begin, InsertRow, MarkProcessing, Reread,
         Existing,
         GiveBackAndResubmit, Ask, Park, CancelReadRow, CancelMark, CancelSignal, SetCancelled, storeVars
    <3> QED
      BY <1>1, <1>2, <3>1 DEF Approved, QueueGranted
  <2> QED
    BY <2>1, <2>2
<1>5. RequestsGranted'
  <2> USE DEF Typed, StoreTypeOK, GatewayTyped, GatewayTypeOK, Approved, RequestsGranted, AtG, GotoG
  <2>1. CASE Gate(t)
    BY <1>2, <2>1 DEF Gate, storeVars
  <2>2. CASE Ask(t)
    BY <1>2, <2>2 DEF Ask
  <2>3. CASE Begin(t) \/ InsertRow(t) \/ Dispatch(t)
    BY <1>2, <2>3 DEF Begin, InsertRow, Dispatch
  <2>4. CASE Reread(t) \/ CancelMark(t) \/ CancelSignal(t)
    BY <1>2, <2>4 DEF Reread, CancelMark, CancelSignal, storeVars
  <2>5. CASE MarkProcessing(t) \/ Park(t) \/ SetCancelled(t)
    BY <1>2, <2>5 DEF MarkProcessing, Park, SetCancelled, Return
  <2>6. CASE CancelReadRow(t) \/ GiveBackAndResubmit(t) \/ \E old \in BOOLEAN : Existing(t, old)
    BY <1>2, <2>6 DEF CancelReadRow, GiveBackAndResubmit, Existing, Return, storeVars
  <2> QED
    BY <2>1, <2>2, <2>3, <2>4, <2>5, <2>6 DEF GatewayMove, GatewayStep
<1> QED
  BY <1>3, <1>4, <1>5 DEF Approved

LEMMA ApprovedGatewayBegin ==
    ASSUME Typed, Approved, HighRisk, NEW t \in Threads, GatewayBegin(t)
    PROVE  Approved'
<1> USE DEF Typed, StoreTypeOK, GatewayTyped, GatewayTypeOK
<1>1. UNCHANGED <<workerVars, reaperVars, pel, delayed>>
  BY GatewayFootprint
<1>2. stream' = stream /\ granted \subseteq granted'
  BY DEF GatewayBegin, GatewayOp, Submit, Approve, Reject, Cancel, storeVars
<1>3. RequestsGranted'
  BY ZenonT(60) DEF GatewayBegin, GatewayOp, Submit, Approve, Reject, Cancel, Enter, AtG, GotoG, storeVars,
     Approved,
     RequestsGranted
<1> QED
  BY <1>1, <1>2, <1>3 DEF Approved, QueueGranted, HandsGranted, ReapersAskHumans, Call,
     workerVars, reaperVars

LEMMA ApprovedReaper ==
    ASSUME Typed, Approved, HighRisk, NEW r \in Reapers, ReaperMove(r) \/ ReaperScan(r)
    PROVE  Approved'
<1>1. UNCHANGED <<workerVars, gatewayVars, stream, pel, approval>>
  BY ReaperFootprint
<1>2. ReapersAskHumans'
  BY DEF ReaperMove, ReaperScan, ReaperStep, Scan, ReadRow, ForceReleaseKey, ForceReleaseIndex,
     TryLock,
     Recheck, RetryClaim, RetryRow, RetryRequeue, HumanRow, Unlock, Forget, AtR, GotoR, Typed, ReaperTyped,
     ReaperTypeOK, Approved, ReapersAskHumans
<1>3. delayed' = delayed
  <2>1. ~RetryRequeue(r)
    BY DEF RetryRequeue, AtR, Approved, ReapersAskHumans
  <2> QED
    BY <2>1 DEF ReaperMove, ReaperScan, ReaperStep, Scan, ReadRow, ForceReleaseKey,
       ForceReleaseIndex,
       TryLock, Recheck, RetryClaim, RetryRow, HumanRow, Unlock, storeVars
<1> QED
  BY <1>1, <1>2, <1>3 DEF Approved, QueueGranted, HandsGranted, RequestsGranted, Call,
     workerVars, gatewayVars

LEMMA ApprovedNext == Typed /\ Approved /\ [Next]_vars => Approved'
<1> SUFFICES ASSUME Typed, Approved, HighRisk, [Next]_vars
             PROVE  Approved'
  BY DEF Approved
<1>1. ASSUME NEW c \in Calls, LeaseExpires(c) \/ LockExpires(c)
      PROVE  Approved'
  BY <1>1 DEF LeaseExpires, LockExpires, storeVars, workerVars, gatewayVars, reaperVars, Approved,
     QueueGranted, HandsGranted, RequestsGranted, ReapersAskHumans, Call
<1>2. CASE Crash
  BY <1>2, CrashFootprint DEF Approved, QueueGranted, HandsGranted, RequestsGranted,
     ReapersAskHumans, Call
<1>3. CASE UNCHANGED vars
  BY <1>3 DEF vars, storeVars, workerVars, gatewayVars, reaperVars, Approved, QueueGranted,
     HandsGranted,
     RequestsGranted, ReapersAskHumans, Call
<1> QED
  BY <1>1, <1>2, <1>3, ApprovedProcess, ApprovedQueue, ApprovedReclaim, ApprovedGatewayMove,
     ApprovedGatewayBegin, ApprovedReaper DEF Next

\* No path leads a high-risk call that no reviewer approved into the queue or
\* to a worker: not dispatch, not a retry, a reclaim, a reaper or a crash.
THEOREM RiskApproved == Spec => []ApprovedOnly
<1>1. Init => Approved
  BY DEF Init, StoreInit, WorkerInit, GatewayInit, ReaperInit, Approved, QueueGranted,
     HandsGranted,
     RequestsGranted, ReapersAskHumans
<1>2. Approved => ApprovedOnly
  BY DEF Approved, QueueGranted, HandsGranted, ApprovedOnly, Queued, InHand
<1> QED
  BY <1>1, <1>2, AlwaysTyped, ApprovedNext, PTL DEF Spec

(***************************************************************************)
(* ReleaseOnlyOwn.                                                         *)
(***************************************************************************)
Releasing(w) == wpc[w] \in {"releaseOk", "releaseFailed", "releaseSkip"}

OwnReleased(w) ==
    Releasing(w) /\ wpc'[w] # wpc[w]
       => \A c \in Calls : lease'[c] # lease[c] => lease[c] = wmsg[w].id

LEMMA OwnReleasedNext ==
    ASSUME Typed, [Next]_vars, NEW w \in Workers
    PROVE  OwnReleased(w)
<1> SUFFICES ASSUME Releasing(w), wpc'[w] # wpc[w], NEW c \in Calls, lease'[c] # lease[c]
             PROVE  lease[c] = wmsg[w].id
  BY DEF OwnReleased
<1>1. ASSUME NEW v \in Workers, WorkerProcess(v)
      PROVE  lease[c] = wmsg[w].id
  <2>1. v = w
    BY <1>1, WorkerFootprint DEF WorkerProcess, Others
  <2>2. ReleaseLease(w) \/ SkipOwned(w)
    BY <1>1, <2>1 DEF WorkerProcess, ProcessStep, Releasing, SkipCancelled, AcquireLease,
       LeaseRejected,
       IndexLease, EnsureOwned, ReplaceFailed, ClaimKey, StartTool, StartCancelled, ToolSucceeds,
       ToolFails, CompleteSuccess, PersistFailure, CompleteFailure, GiveClaimBack, ScheduleRetry,
       EscalateToHuman, Acknowledge, At
  <2> QED
    BY <2>2 DEF ReleaseLease, SkipOwned, LeaseRelease, Typed, StoreTypeOK
<1>2. ASSUME NEW v \in Workers, WorkerQueue(v)
      PROVE  lease[c] = wmsg[w].id
  BY <1>2, QueueFootprint DEF WorkerQueue
<1>3. ASSUME NEW v \in Workers, ReclaimIdle(v)
      PROVE  lease[c] = wmsg[w].id
  BY <1>3 DEF ReclaimIdle, Autoclaim
<1>4. ASSUME NEW t \in Threads, GatewayMove(t) \/ GatewayBegin(t)
      PROVE  lease[c] = wmsg[w].id
  BY <1>4, GatewayFootprint
<1>5. ASSUME NEW r \in Reapers, ReaperMove(r) \/ ReaperScan(r)
      PROVE  lease[c] = wmsg[w].id
  BY <1>5, ReaperFootprint DEF workerVars
<1>6. ASSUME NEW d \in Calls, LeaseExpires(d) \/ LockExpires(d)
      PROVE  lease[c] = wmsg[w].id
  BY <1>6 DEF LeaseExpires, LockExpires, workerVars
<1>7. CASE Crash
  BY <1>7, CrashFootprint
<1>8. CASE UNCHANGED vars
  BY <1>8 DEF vars, storeVars
<1> QED
  BY <1>1, <1>2, <1>3, <1>4, <1>5, <1>6, <1>7, <1>8 DEF Next

\* A worker that was silent for so long that its lease expired, and whose call
\* somebody else leased meanwhile, does not free that lease when it wakes up.
THEOREM ReleasesOwn == Spec => ReleaseOnlyOwn
<1>1. Typed /\ [Next]_vars => [\A w \in Workers : OwnReleased(w)]_vars
  BY OwnReleasedNext
<1>2. (\A w \in Workers : OwnReleased(w)) <=>
         \A w \in Workers :
            wpc[w] \in {"releaseOk", "releaseFailed", "releaseSkip"} /\ wpc'[w] # wpc[w]
               => \A c \in Calls : lease'[c] # lease[c] => lease[c] = wmsg[w].id
  BY DEF OwnReleased, Releasing
<1> QED
  BY <1>1, <1>2, AlwaysTyped, PTL DEF Spec, ReleaseOnlyOwn

(***************************************************************************)
(* One dispatch.  If nothing fails, a key has one claim, one message and   *)
(* one run for good: a claim in progress is not given back for a tool that *)
(* is of high risk or not crash-safe, a failed one is not claimed again    *)
(* unless a retry is scheduled, and a reaper finds nothing to do.          *)
(***************************************************************************)
\* No path of the code dispatches such a tool a second time by itself.
DispatchedOnce == HighRisk \/ (~CrashSafe /\ MaxAttempts <= 1)

Sending == {"upsert", "dispatch"}

OncePcs ==
    {"top", "got", "index", "own", "start", "running", "releaseOk", "releaseFailed", "complete",
     "persistFailed", "escalate", "fail", "ack"}

Settling(w) == wpc[w] \notin {"top", "ack"}

\* Live leases are the ones in the index, or about to be; their holders live.
NothingDue ==
    /\ delayed = {}
    /\ \A w \in Workers : wpc[w] \in OncePcs /\ wbatch[w] = {} /\ wcancel[w] \subseteq cancelled
    /\ \A r \in Reapers : rpc[r] = "idle"
    /\ \A c \in leaseIdx : IsAlive(c)
    /\ \A c \in Calls : IsAlive(c) => HolderLives(c)
    /\ \A w \in Workers : wpc[w] = "index" => IsAlive(Call(w))
    /\ \A e \in pel : \E w \in Workers : Processes(w, e.msg.id)

OneJob ==
    /\ lastId \in {0, 1} /\ unsettled \subseteq {1}
    /\ lastId = 0 => stream = <<>> /\ \A w \in Workers : wpc[w] = "top"
    /\ lastId = 1 => \A t \in Threads : gpc[t] \notin Sending
    /\ \A s, t \in Threads : gpc[s] \in Sending /\ gpc[t] \in Sending => s = t
    /\ stream # <<>> => \A w \in Workers : wpc[w] = "top"
    /\ \A v, w \in Workers : wpc[v] # "top" /\ wpc[w] # "top" => v = w
    /\ \A w \in Workers : wpc[w] # "top" => wmsg[w].id = 1

\* While the job is on its way the record is its claim.
OneClaim ==
    /\ idem.st = "ABSENT" => lastId = 0 /\ \A t \in Threads : gpc[t] \notin Sending
    /\ \A t \in Threads : gpc[t] \in Sending => idem.st = "PROCESSING" /\ idem.call = gcall[t]
    /\ stream # <<>> => /\ idem.st = "PROCESSING"
                        /\ \E m \in Messages : stream = <<m>> /\ m.id = 1 /\ idem.call = m.call
    /\ \A w \in Workers : Settling(w) => idem.st = "PROCESSING" /\ idem.call = Call(w)
    /\ \A t \in Threads : grec[t].st = "FAILED" \/ gpc[t] = "giveBack" => idem.st = "FAILED"
    /\ idem.st = "PROCESSING" => \/ \E t \in Threads : gpc[t] \in Sending
                                 \/ stream # <<>>
                                 \/ \E w \in Workers : Settling(w)
                                 \/ idem.call \in cancelled

Sole == NothingDue /\ OneJob /\ OneClaim

LEMMA SoleInit == Init => Sole
BY DEF Init, StoreInit, WorkerInit, GatewayInit, ReaperInit, Absent, NoLease, Sole, NothingDue,
       OneJob, OneClaim, Sending, OncePcs, Settling, IsAlive

\* A worker that has the job goes on with it.
LEMMA JobGoesOn ==
    ASSUME Typed, Sole, NEW w \in Workers, wpc[w] # "top", NEW pc \in OncePcs \ {"top", "ack"},
           wpc[w] # "ack", wpc' = [wpc EXCEPT ![w] = pc], unsettled' \subseteq unsettled \cup {1},
           UNCHANGED <<idem, stream, lastId, cancelled, gpc, gcall, grec, wmsg>>
    PROVE  OneJob' /\ OneClaim'
<1>1. /\ wpc'[w] = pc /\ pc \notin {"top", "ack"}
      /\ \A v \in Workers : v # w => wpc'[v] = wpc[v]
  BY DEF Typed, WorkerTyped, WorkerTypeOK
<1>2. OneJob'
  BY <1>1 DEF Sole, OneJob
<1>3. \A v \in Workers : Settling(v)' <=> Settling(v)
  BY <1>1 DEF Settling
<1>4. \A v \in Workers : Call(v)' = Call(v)
  BY DEF Call
<1> QED
  BY <1>2, <1>3, <1>4 DEF Sole, OneClaim

\* It leaves nothing behind for a reaper, a reclaim or a promotion.
LEMMA NothingLeftDue ==
    ASSUME Typed, Sole, NEW w \in Workers, wpc[w] # "top", NEW pc \in OncePcs \ {"top", "index"},
           wpc[w] \in Leased => pc \in Leased,
           wpc' = [wpc EXCEPT ![w] = pc], \A v \in Workers : wcancel'[v] \subseteq wcancel[v],
           UNCHANGED <<lease, delayed, pel, cancelled, wbatch, wmsg, rpc>>,
           \A c \in leaseIdx' : IsAlive(c)
    PROVE  NothingDue'
<1>1. /\ wpc'[w] = pc /\ pc # "top" /\ pc \in Processing
      /\ \A v \in Workers : v # w => wpc'[v] = wpc[v]
  BY DEF Typed, WorkerTyped, WorkerTypeOK, OncePcs, Processing, Leased
<1>2. \A c \in Calls : IsAlive(c)' => HolderLives(c)'
  <2> SUFFICES ASSUME NEW c \in Calls, IsAlive(c)' PROVE HolderLives(c)'
    OBVIOUS
  <2>1. PICK v \in Workers : wpc[v] \in Leased /\ Call(v) = c /\ wmsg[v].id = lease[c]
    BY DEF IsAlive, Sole, NothingDue, HolderLives
  <2>2. wpc'[v] \in Leased /\ Call(v)' = c /\ wmsg'[v].id = lease'[c]
    BY <1>1, <2>1 DEF Call
  <2> QED
    BY <2>2 DEF HolderLives
<1>3. \A e \in pel' : \E v \in Workers : Processes(v, e.msg.id)'
  <2> SUFFICES ASSUME NEW e \in pel PROVE \E v \in Workers : Processes(v, e.msg.id)'
    OBVIOUS
  <2>1. PICK v \in Workers : Processes(v, e.msg.id)
    BY DEF Sole, NothingDue
  <2>2. Processes(v, e.msg.id)'
    BY <1>1, <2>1 DEF Processes
  <2> QED
    BY <2>2
<1>4. \A c \in leaseIdx' : IsAlive(c)'
  BY DEF IsAlive
<1>5. \A v \in Workers : wpc'[v] = "index" => IsAlive(Call(v))'
  BY <1>1 DEF Sole, NothingDue, IsAlive, Call
<1> QED
  BY <1>1, <1>2, <1>3, <1>4, <1>5 DEF Sole, NothingDue

LEMMA StepsWithJob ==
    ASSUME Typed, Sole, DispatchedOnce, NEW w \in Workers,
           NEW pc \in OncePcs \ {"top", "ack", "index"}, wpc[w] \notin {"top", "ack"}, wpc' = [wpc EXCEPT ![w] = pc],
           wpc[w] \in Leased => pc \in Leased,
           unsettled' \subseteq unsettled \cup {1}, \A v \in Workers : wcancel'[v] \subseteq wcancel[v],
           UNCHANGED <<idem, lease, stream, pel, delayed, lastId, cancelled, gpc, gcall, grec, wmsg,
                       wbatch, rpc>>,
           \A c \in leaseIdx' : IsAlive(c)
    PROVE  Sole'
BY JobGoesOn, NothingLeftDue DEF Sole

\* The one worker with the job holds the only live lease, if any.
LEMMA OneHolder ==
    ASSUME Sole, NEW w \in Workers, wpc[w] # "top", NEW c \in Calls, IsAlive(c)
    PROVE  wpc[w] \in Leased /\ Call(w) = c /\ wmsg[w].id = lease[c]
<1>1. PICK v \in Workers : wpc[v] \in Leased /\ Call(v) = c /\ wmsg[v].id = lease[c]
  BY DEF Sole, NothingDue, HolderLives
<1>2. v = w
  BY <1>1 DEF Sole, OneJob, Leased
<1> QED
  BY <1>1, <1>2

LEMMA SoleReleases ==
    ASSUME Typed, Sole, NEW w \in Workers, ReleaseLease(w),
           UNCHANGED <<gatewayVars, reaperVars>>
    PROVE  Sole'
<1> DEFINE pc == IF At(w, "releaseOk") THEN "complete" ELSE "persistFailed"
<1>1. /\ wpc[w] # "top" /\ wpc[w] # "ack" /\ pc \in OncePcs \ {"top", "ack"}
      /\ wpc' = [wpc EXCEPT ![w] = pc]
      /\ UNCHANGED <<idem, stream, pel, delayed, lastId, cancelled, wcancel, wmsg, wbatch, unsettled>>
      /\ UNCHANGED <<gpc, gcall, grec, rpc>>
      /\ Call(w) \in Calls
  BY DEF ReleaseLease, Goto, OncePcs, At, gatewayVars, reaperVars, Typed, WorkerTyped, Messages, Call
<1>2. OneJob' /\ OneClaim'
  BY <1>1, JobGoesOn
<1>3. \A c \in Calls : ~IsAlive(c)'
  <2> SUFFICES ASSUME NEW c \in Calls PROVE lease'[c] = NoLease
    BY DEF IsAlive
  <2>1. CASE IsAlive(c)
    BY <1>1, <2>1, OneHolder DEF ReleaseLease, LeaseRelease, Typed, StoreTypeOK
  <2>2. CASE ~IsAlive(c)
    BY <2>2 DEF ReleaseLease, LeaseRelease, IsAlive, Typed, StoreTypeOK
  <2> QED
    BY <2>1, <2>2
<1>4. leaseIdx' = {}
  <2>1. \A c \in leaseIdx : c \in Calls /\ IsAlive(c)
    BY DEF Typed, StoreTypeOK, Sole, NothingDue
  <2>2. \A c \in leaseIdx : c = Call(w) /\ lease[c] = wmsg[w].id
    BY <1>1, <2>1, OneHolder
  <2> QED
    BY <2>2 DEF ReleaseLease, LeaseRelease
<1>5. \A e \in pel' : \E v \in Workers : Processes(v, e.msg.id)'
  <2> SUFFICES ASSUME NEW e \in pel PROVE \E v \in Workers : Processes(v, e.msg.id)'
    BY <1>1
  <2>1. PICK v \in Workers : Processes(v, e.msg.id)
    BY DEF Sole, NothingDue
  <2>2. Processes(v, e.msg.id)'
    BY <1>1, <2>1 DEF Processes, Processing, Typed, WorkerTyped, WorkerTypeOK
  <2> QED
    BY <2>2
<1>6. NothingDue'
  <2>1. \A v \in Workers : wpc'[v] # "index"
    BY <1>1 DEF Sole, OneJob, ReleaseLease, Typed, WorkerTyped, WorkerTypeOK
  <2> QED
    BY <1>1, <1>3, <1>4, <1>5, <2>1 DEF Sole, NothingDue, Typed, WorkerTyped, WorkerTypeOK
<1> QED
  BY <1>2, <1>6 DEF Sole

LEMMA SoleTakesLease ==
    ASSUME Typed, Sole, NEW w \in Workers, AcquireLease(w), UNCHANGED <<gatewayVars, reaperVars>>
    PROVE  Sole'
<1>1. /\ wpc[w] = "got" /\ "index" \in OncePcs /\ "index" \in Leased /\ "index" \in Processing
      /\ wpc' = [wpc EXCEPT ![w] = "index"] /\ lease' = [lease EXCEPT ![Call(w)] = wmsg[w].id]
      /\ UNCHANGED <<idem, stream, pel, delayed, lastId, cancelled, wcancel, wmsg, wbatch, unsettled,
                     leaseIdx, gpc, gcall, grec, rpc>>
      /\ Call(w) \in Calls
  BY DEF AcquireLease, LeaseTake, Goto, OncePcs, Leased, Processing, At, gatewayVars, reaperVars,
     Typed, WorkerTyped, Messages, Call
<1>2. OneJob' /\ OneClaim'
  BY <1>1, JobGoesOn
<1>3. /\ wpc'[w] = "index" /\ lease'[Call(w)] = wmsg[w].id
      /\ \A v \in Workers : v # w => wpc'[v] = wpc[v]
      /\ \A c \in Calls : c # Call(w) => lease'[c] = lease[c]
      /\ wmsg[w].id # NoLease
  BY <1>1 DEF Typed, WorkerTyped, WorkerTypeOK, StoreTypeOK, Sole, OneJob, NoLease
<1>4. \A c \in Calls : IsAlive(c)' => c = Call(w)
  <2> SUFFICES ASSUME NEW c \in Calls, IsAlive(c)', c # Call(w) PROVE FALSE
    OBVIOUS
  <2>1. IsAlive(c)
    BY <1>3 DEF IsAlive
  <2> QED
    BY <1>1, <2>1, OneHolder DEF Leased
<1>5. IsAlive(Call(w))' /\ HolderLives(Call(w))' /\ Call(w)' = Call(w)
  BY <1>1, <1>3 DEF IsAlive, HolderLives, Call
<1>6. \A c \in leaseIdx' : IsAlive(c)'
  BY <1>1, <1>3 DEF Sole, NothingDue, IsAlive, NoLease, Typed, StoreTypeOK
<1>7. \A e \in pel' : \E v \in Workers : Processes(v, e.msg.id)'
  <2> SUFFICES ASSUME NEW e \in pel PROVE \E v \in Workers : Processes(v, e.msg.id)'
    BY <1>1
  <2>1. PICK v \in Workers : Processes(v, e.msg.id)
    BY DEF Sole, NothingDue
  <2>2. Processes(v, e.msg.id)'
    BY <1>1, <1>3, <2>1 DEF Processes
  <2> QED
    BY <2>2
<1>8. \A v \in Workers : wpc'[v] = "index" => v = w
  BY <1>1, <1>3 DEF Sole, OneJob
<1>9. NothingDue'
  <2>1. \A c \in Calls : IsAlive(c)' => HolderLives(c)'
    BY <1>4, <1>5
  <2>2. \A v \in Workers : wpc'[v] = "index" => IsAlive(Call(v))'
    BY <1>5, <1>8 DEF IsAlive, Call
  <2> QED
    BY <1>1, <1>3, <1>6, <1>7, <2>1, <2>2 DEF Sole, NothingDue
<1> QED
  BY <1>2, <1>9 DEF Sole

\* The job is over: the record is settled, or the call is cancelled.
LEMMA SoleSettles ==
    ASSUME Typed, Sole, NEW w \in Workers, SkipCancelled(w) \/ CompleteSuccess(w) \/ CompleteFailure(w),
           UNCHANGED <<gatewayVars, reaperVars>>
    PROVE  Sole'
<1>1. /\ wpc[w] \in {"got", "complete", "fail"} /\ wpc[w] \notin Leased
      /\ wpc' = [wpc EXCEPT ![w] = "ack"]
      /\ UNCHANGED <<lease, leaseIdx, stream, pel, delayed, lastId, cancelled, wmsg, wbatch, unsettled,
                     gpc, gcall, grec, rpc>>
      /\ \A v \in Workers : wcancel'[v] \subseteq wcancel[v]
      /\ Settling(w)
  BY DEF SkipCancelled, CompleteSuccess, CompleteFailure, ClearCancel, At, Goto, gatewayVars, reaperVars,
     Leased, Settling, Sole, NothingDue, OncePcs, Typed, StoreTypeOK
<1>2. /\ wpc'[w] = "ack"
      /\ \A v \in Workers : v # w => wpc'[v] = wpc[v] /\ wpc[v] = "top"
  BY <1>1 DEF Sole, OneJob, Typed, WorkerTyped, WorkerTypeOK
<1>3. /\ idem.st = "PROCESSING" /\ idem.call = Call(w) /\ lastId = 1 /\ stream = <<>>
      /\ \A t \in Threads : gpc[t] \notin Sending /\ grec[t].st # "FAILED" /\ gpc[t] # "giveBack"
  BY <1>1 DEF Sole, OneJob, OneClaim
<1>4. idem'.st # "ABSENT" /\ (idem'.st = "PROCESSING" => idem'.call \in cancelled)
  BY <1>1, <1>3 DEF SkipCancelled, CompleteSuccess, CompleteFailure, MarkSuccess, MarkFailed, Transition,
     Sole, NothingDue
<1>5. OneJob'
  BY <1>1, <1>2 DEF Sole, OneJob
<1>6. OneClaim'
  BY <1>1, <1>2, <1>3, <1>4 DEF OneClaim, Settling
<1>7. NothingDue'
  BY <1>1, NothingLeftDue DEF OncePcs, Sole, NothingDue
<1> QED
  BY <1>5, <1>6, <1>7 DEF Sole

LEMMA SoleAcknowledges ==
    ASSUME Typed, Sole, NEW w \in Workers, Acknowledge(w), UNCHANGED <<gatewayVars, reaperVars>>
    PROVE  Sole'
<1>1. /\ wpc[w] = "ack" /\ wpc' = [wpc EXCEPT ![w] = "top"]
      /\ UNCHANGED <<idem, lease, leaseIdx, stream, delayed, lastId, cancelled, wcancel, wbatch,
                     unsettled, gpc, gcall, grec, rpc>>
      /\ pel' = {e \in pel : e.msg.id # wmsg[w].id}
  BY DEF Acknowledge, Xack, At, Goto, gatewayVars, reaperVars
<1>2. \A v \in Workers : wpc'[v] = "top" /\ ~Settling(v)
  BY <1>1 DEF Sole, OneJob, Settling, Typed, WorkerTyped, WorkerTypeOK
<1>3. pel' = {}
  <2>1. \A e \in pel : e.msg.id = wmsg[w].id
    BY <1>1 DEF Sole, NothingDue, OneJob, Processes, Processing, Leased
  <2> QED
    BY <1>1, <2>1
<1>4. \A c \in Calls : ~IsAlive(c)
  BY <1>1, OneHolder DEF Leased
<1>5. NothingDue'
  BY <1>1, <1>2, <1>3, <1>4 DEF Sole, NothingDue, IsAlive, OncePcs, Typed, StoreTypeOK
<1>6. OneJob' /\ OneClaim'
  BY <1>1, <1>2 DEF Sole, OneJob, OneClaim, Settling
<1> QED
  BY <1>5, <1>6 DEF Sole

\* The steps between the lease and the record.
LEMMA SoleProcess ==
    ASSUME Typed, Sole, DispatchedOnce, NEW w \in Workers, ProcessStep(w),
           UNCHANGED <<gatewayVars, reaperVars>>
    PROVE  Sole'
<1> USE DEF At, Goto, storeVars, gatewayVars, reaperVars
<1>1. /\ wpc[w] \in OncePcs /\ wpc[w] # "top"
      /\ \A c \in leaseIdx : IsAlive(c)
      /\ Call(w) \in Calls /\ wmsg[w].id = 1
  <2>1. wpc[w] # "top" /\ wpc[w] \in OncePcs
    BY DEF ProcessStep, SkipCancelled, AcquireLease, LeaseRejected, IndexLease, EnsureOwned,
       ReplaceFailed, ClaimKey, SkipOwned, StartTool, StartCancelled, ToolSucceeds, ToolFails,
       ReleaseLease, CompleteSuccess, PersistFailure, CompleteFailure, GiveClaimBack, ScheduleRetry,
       EscalateToHuman, Acknowledge, Sole, NothingDue
  <2> QED
    BY <2>1 DEF Sole, NothingDue, OneJob, OncePcs, Typed, WorkerTyped, Messages, Call
<1>2. ~LeaseRejected(w)
  BY <1>1, OneHolder DEF LeaseRejected, Leased
<1>3. CASE IndexLease(w)
  <2>1. \A c \in leaseIdx' : IsAlive(c)
    BY <1>1, <1>3 DEF IndexLease, Sole, NothingDue
  <2> QED
    BY <1>3, <2>1, StepsWithJob DEF IndexLease, OncePcs, Leased
<1>4. CASE EnsureOwned(w)
  <2>1. idem.st = "PROCESSING"
    BY <1>4 DEF EnsureOwned, Sole, OneClaim, Settling
  <2> QED
    BY <1>1, <1>4, <2>1, StepsWithJob DEF EnsureOwned, OncePcs, Leased
<1>5. CASE StartTool(w) \/ StartCancelled(w)
  <2>1. \E pc \in {"running", "releaseFailed"} : wpc' = [wpc EXCEPT ![w] = pc]
    BY <1>5 DEF StartTool, StartCancelled
  <2> QED
    BY <1>1, <1>5, <2>1, StepsWithJob DEF StartTool, StartCancelled, OncePcs, Leased
<1>6. CASE ToolSucceeds(w)
  BY <1>1, <1>6, StepsWithJob DEF ToolSucceeds, OncePcs, Leased
<1>7. CASE \E err \in {"transient", "permanent"} : ToolFails(w, err)
  BY <1>1, <1>7, StepsWithJob DEF ToolFails, OncePcs, Leased
<1>8. CASE PersistFailure(w)
  <2>1. Recovery(wout[w], wmsg[w].att) \in {"escalate", "fail"}
    BY <1>1, <1>8, StoreAssumption DEF Recovery, DispatchedOnce, Typed, WorkerTyped, Messages,
       PersistFailure
  <2>2. \A v \in Workers : wcancel'[v] \subseteq wcancel[v]
    BY <1>8 DEF PersistFailure, ClearCancel, Typed, StoreTypeOK
  <2> QED
    BY <1>1, <1>8, <2>1, <2>2, StepsWithJob DEF PersistFailure, OncePcs, Leased
<1>9. CASE EscalateToHuman(w)
  BY <1>1, <1>9, StepsWithJob DEF EscalateToHuman, OncePcs, Leased
<1>10. CASE SkipCancelled(w) \/ CompleteSuccess(w) \/ CompleteFailure(w)
  BY <1>10, SoleSettles
<1>11. CASE AcquireLease(w) \/ ReleaseLease(w) \/ Acknowledge(w)
  BY <1>11, SoleTakesLease, SoleReleases, SoleAcknowledges
<1>12. ~ReplaceFailed(w) /\ ~ClaimKey(w) /\ ~SkipOwned(w) /\ ~GiveClaimBack(w) /\ ~ScheduleRetry(w)
  BY <1>1 DEF ReplaceFailed, ClaimKey, SkipOwned, GiveClaimBack, ScheduleRetry, OncePcs
<1> QED
  BY <1>2, <1>3, <1>4, <1>5, <1>6, <1>7, <1>8, <1>9, <1>10, <1>11, <1>12 DEF ProcessStep

\* The only step of a queue is the delivery of the one message.
LEMMA SoleQueue ==
    ASSUME Typed, Sole, NEW w \in Workers, QueueStep(w), UNCHANGED <<gatewayVars, reaperVars>>
    PROVE  Sole'
<1>1. /\ Read(w) /\ wpc[w] = "top"
  <2>1. ~PromoteTake(w) /\ wpc[w] \in OncePcs
    BY DEF PromoteTake, Sole, NothingDue
  <2> QED
    BY <2>1 DEF QueueStep, PromoteAdd, StaleCheck, RequeueStale, AckStale, Read, ReadNothing, At,
       OncePcs
<1>2. PICK m \in Messages : stream = <<m>> /\ m.id = 1 /\ idem.call = m.call
  BY <1>1 DEF Read, Sole, OneClaim
<1>3. /\ stream # <<>> /\ stream' = <<>> /\ pel' = pel \cup {[msg |-> m, owner |-> w]}
      /\ wmsg' = [wmsg EXCEPT ![w] = m] /\ wpc' = [wpc EXCEPT ![w] = "got"]
      /\ UNCHANGED <<idem, lease, leaseIdx, delayed, lastId, cancelled, wcancel, wbatch, unsettled,
                     gpc, gcall, grec, rpc>>
  BY <1>1, <1>2 DEF Read, Goto, gatewayVars, reaperVars
<1>4. /\ wpc'[w] = "got" /\ wmsg'[w] = m
      /\ \A v \in Workers : v # w => wpc'[v] = "top"
      /\ \A v \in Workers : wpc[v] = "top"
  BY <1>3 DEF Sole, OneJob, Typed, WorkerTyped, WorkerTypeOK
<1>5. /\ \A c \in Calls : ~IsAlive(c)
      /\ pel = {}
  BY <1>4 DEF Sole, NothingDue, HolderLives, Leased, Processes, Processing
<1>6. OneJob'
  BY <1>2, <1>3, <1>4 DEF Sole, OneJob
<1>7. OneClaim'
  <2>1. \A v \in Workers : Settling(v)' => v = w
    BY <1>4 DEF Settling
  <2>2. Settling(w)' /\ Call(w)' = idem.call /\ idem.st = "PROCESSING"
    BY <1>2, <1>3, <1>4 DEF Settling, Call, Sole, OneClaim
  <2> QED
    BY <1>3, <2>1, <2>2 DEF Sole, OneClaim
<1>8. NothingDue'
  <2>1. \A e \in pel' : Processes(w, e.msg.id)'
    BY <1>3, <1>4, <1>5 DEF Processes, Processing
  <2>2. \A v \in Workers : wpc'[v] \in OncePcs /\ wpc'[v] # "index"
    BY <1>4 DEF OncePcs
  <2> QED
    BY <1>3, <1>5, <2>1, <2>2 DEF Sole, NothingDue, IsAlive, Typed, StoreTypeOK
<1> QED
  BY <1>6, <1>7, <1>8 DEF Sole

(***************************************************************************)
(* The steps of a thread.                                                  *)
(***************************************************************************)
\* A step that leaves the record and the stream alone only moves its thread.
LEMMA SoleThreadMoves ==
    ASSUME Typed, Sole, NEW t \in Threads,
           UNCHANGED <<idem, lease, leaseIdx, stream, pel, delayed, lastId, workerVars, reaperVars>>,
           \A s \in Threads : s # t => gpc'[s] = gpc[s] /\ gcall'[s] = gcall[s] /\ grec'[s] = grec[s],
           gpc'[t] \in Sending <=> gpc[t] \in Sending,
           gpc'[t] \in Sending => gcall'[t] = gcall[t],
           grec'[t].st = "FAILED" \/ gpc'[t] = "giveBack" => idem.st = "FAILED",
           cancelled \subseteq cancelled', \A w \in Workers : wcancel'[w] \subseteq cancelled'
    PROVE  Sole'
<1>1. \A c \in Calls : (IsAlive(c)' <=> IsAlive(c)) /\ (HolderLives(c)' <=> HolderLives(c))
  BY DEF IsAlive, HolderLives, Call, workerVars
<1>2. \A w \in Workers : /\ Call(w)' = Call(w)
                         /\ Settling(w)' <=> Settling(w)
                         /\ wpc[w] = "index" => Call(w) \in Calls
                         /\ \A i : Processes(w, i)' <=> Processes(w, i)
  BY DEF Call, Settling, Processes, workerVars, Typed, WorkerTyped, Messages
<1>3. NothingDue'
  BY <1>1, <1>2 DEF Sole, NothingDue, workerVars, reaperVars, Typed, StoreTypeOK
<1>4. OneJob'
  BY <1>2 DEF Sole, OneJob, workerVars
<1>5. OneClaim'
  <2>1. \A s \in Threads : gpc'[s] \in Sending <=> gpc[s] \in Sending
    OBVIOUS
  <2> QED
    BY <1>2, <2>1 DEF Sole, OneClaim, workerVars
<1> QED
  BY <1>3, <1>4, <1>5 DEF Sole

\* SET NX finds no record: nobody has the key, and t has it from now on.
LEMMA SoleBegins ==
    ASSUME Typed, Sole, NEW t \in Threads, Begin(t), UNCHANGED <<workerVars, reaperVars>>
    PROVE  Sole'
<1> USE DEF Begin, AtG, GotoG, Claim
<1>1. t \in Threads /\ gpc \in [Threads -> GatewayPcs]
  BY DEF Typed, GatewayTyped, GatewayTypeOK
<1>2. CASE idem.st # "ABSENT"
  <2>1. gpc'[t] = "reread" /\ \A s \in Threads : s # t => gpc'[s] = gpc[s]
    BY <1>1, <1>2
  <2>2. grec[t].st = "FAILED" => idem.st = "FAILED"
    BY DEF Sole, OneClaim
  <2>3. \A w \in Workers : wcancel'[w] \subseteq cancelled'
    BY DEF Sole, NothingDue
  <2> QED
    BY <1>2, <2>1, <2>2, <2>3, SoleThreadMoves DEF Sending
<1>3. CASE idem.st = "ABSENT"
  <2>1. /\ lastId = 0 /\ stream = <<>> /\ \A w \in Workers : wpc[w] = "top"
        /\ \A s \in Threads : gpc[s] \notin Sending /\ grec[s].st # "FAILED" /\ gpc[s] # "giveBack"
    BY <1>3 DEF Sole, OneJob, OneClaim
  <2>2. /\ gpc'[t] = "upsert" /\ \A s \in Threads : s # t => gpc'[s] = gpc[s]
        /\ idem'.st = "PROCESSING" /\ idem'.call = gcall[t]
    BY <1>1, <1>3
  <2>3. OneJob' /\ OneClaim'
    BY <2>1, <2>2 DEF Sole, OneJob, OneClaim, Settling, Sending, workerVars
  <2>4. NothingDue'
    BY DEF Sole, NothingDue, workerVars, reaperVars, IsAlive, HolderLives, Call, Processes
  <2> QED
    BY <2>3, <2>4 DEF Sole
<1> QED
  BY <1>2, <1>3

\* The one thread that sends the job has the claim; the stream is empty.
LEMMA SoleDispatches ==
    ASSUME Typed, Sole, NEW t \in Threads, Dispatch(t), UNCHANGED <<workerVars, reaperVars>>
    PROVE  Sole'
<1> DEFINE m == [id |-> 1, call |-> gcall[t], att |-> gatt[t]]
<1>1. /\ gpc[t] = "dispatch" /\ gpc[t] \in Sending
      /\ lastId = 0 /\ stream = <<>> /\ \A w \in Workers : wpc[w] = "top"
      /\ idem.st = "PROCESSING" /\ idem.call = gcall[t]
      /\ \A s \in Threads : gpc[s] \in Sending => s = t
  BY DEF Dispatch, AtG, Sole, OneJob, OneClaim, Sending
<1>2. /\ lastId' = 1 /\ stream' = <<m>> /\ m \in Messages
      /\ UNCHANGED <<idem, lease, leaseIdx, pel, delayed, cancelled, wcancel, gcall, grec>>
  <2>1. m \in Messages
    BY <1>1 DEF Messages, Typed, GatewayTyped, GatewayTypeOK
  <2>2. lastId' = 1 /\ stream' = Append(<<>>, m)
    BY <1>1 DEF Dispatch, Xadd, Message
  <2> QED
    BY <2>1, <2>2 DEF Dispatch
<1>3. \A s \in Threads : gpc'[s] \notin Sending /\ (gpc'[s] = "giveBack" => gpc[s] = "giveBack")
  BY <1>1 DEF Dispatch, GotoG, Sending, Typed, GatewayTyped, GatewayTypeOK
<1>4. OneJob' /\ OneClaim'
  BY <1>1, <1>2, <1>3 DEF Sole, OneJob, OneClaim, Settling, workerVars
<1>5. NothingDue'
  BY <1>2 DEF Sole, NothingDue, workerVars, reaperVars, IsAlive, HolderLives, Call, Processes
<1> QED
  BY <1>4, <1>5 DEF Sole

LEMMA SoleGatewayStep ==
    ASSUME Typed, Sole, DispatchedOnce, NEW t \in Threads, GatewayStep(t),
           UNCHANGED <<workerVars, reaperVars>>
    PROVE  Sole'
<1> USE DEF AtG, GotoG, Return, Absent, Sending
<1>1. /\ gpc \in [Threads -> GatewayPcs] /\ gcall \in [Threads -> Calls \cup {NoCall}]
      /\ grec \in [Threads -> IdemRecords]
  BY DEF Typed, GatewayTyped, GatewayTypeOK
<1>2. /\ grec[t].st = "FAILED" \/ gpc[t] = "giveBack" => idem.st = "FAILED"
      /\ \A w \in Workers : wcancel[w] \subseteq cancelled
  BY DEF Sole, NothingDue, OneClaim
<1>3. CASE Gate(t) \/ Ask(t) \/ Park(t) \/ InsertRow(t) \/ MarkProcessing(t)
  BY <1>1, <1>2, <1>3, SoleThreadMoves DEF Gate, Ask, Park, InsertRow, MarkProcessing, storeVars
<1>4. CASE Begin(t) \/ Dispatch(t)
  BY <1>4, SoleBegins, SoleDispatches
<1>5. CASE Reread(t)
  BY <1>1, <1>2, <1>5, SoleThreadMoves DEF Reread, storeVars
<1>6. ASSUME NEW old \in BOOLEAN, Existing(t, old)
      PROVE  Sole'
  <2>1. Verdict(t, old) = "retry" => grec[t].st = "FAILED"
    BY DEF Verdict, DispatchedOnce
  <2>2. /\ gpc[t] = "existing"
        /\ \/ /\ gpc' = [gpc EXCEPT ![t] = "ask"]
              /\ UNCHANGED <<gcall, grec>>
           \/ /\ gpc' = [gpc EXCEPT ![t] = "giveBack"]
              /\ UNCHANGED <<gcall, grec>>
              /\ grec[t].st = "FAILED"
           \/ Return(t)
    BY <1>6, <2>1 DEF Existing
  <2>3. UNCHANGED <<idem, lease, leaseIdx, stream, pel, delayed, lastId, cancelled, wcancel>>
    BY <1>6 DEF Existing, storeVars
  <2> QED
    BY <1>1, <1>2, <2>2, <2>3, SoleThreadMoves
<1>7. CASE GiveBackAndResubmit(t)
  <2>1. gpc[t] = "giveBack" /\ idem.st = "FAILED"
    BY <1>2, <1>7 DEF GiveBackAndResubmit
  <2>2. Return(t) /\ idem' = idem
    BY <1>7, <2>1 DEF GiveBackAndResubmit, ReleaseClaim
  <2> QED
    BY <1>1, <1>2, <1>7, <2>1, <2>2, SoleThreadMoves DEF GiveBackAndResubmit
<1>8. CASE CancelReadRow(t) \/ CancelMark(t) \/ SetCancelled(t)
  BY <1>1, <1>2, <1>8, SoleThreadMoves DEF CancelReadRow, CancelMark, SetCancelled, storeVars
<1>9. CASE CancelSignal(t)
  BY <1>1, <1>2, <1>9, SoleThreadMoves DEF CancelSignal
<1> QED
  BY <1>3, <1>4, <1>5, <1>6, <1>7, <1>8, <1>9 DEF GatewayStep

LEMMA SoleGatewayOp ==
    ASSUME Typed, Sole, NEW t \in Threads, GatewayOp(t), UNCHANGED <<workerVars, reaperVars>>
    PROVE  Sole'
<1>1. PICK c \in Calls : Submit(t, c) \/ Approve(t, c) \/ Reject(t, c) \/ Cancel(t, c)
  BY DEF GatewayOp
<1>2. /\ \A w \in Workers : wcancel[w] \subseteq cancelled
      /\ grec[t].st = "FAILED" => idem.st = "FAILED"
  BY DEF Sole, NothingDue, OneClaim
<1>3. /\ gpc[t] = "idle" /\ \E pc \in {"gate", "setRejected", "readRow"} : gpc' = [gpc EXCEPT ![t] = pc]
      /\ gcall' = [gcall EXCEPT ![t] = c]
      /\ UNCHANGED <<idem, lease, leaseIdx, stream, pel, delayed, lastId, cancelled, wcancel, grec>>
  BY <1>1 DEF Submit, Approve, Reject, Cancel, Enter, AtG, GotoG, storeVars
<1>4. /\ gpc'[t] \in {"gate", "setRejected", "readRow"}
      /\ \A s \in Threads : s # t => gpc'[s] = gpc[s] /\ gcall'[s] = gcall[s]
  BY <1>3 DEF Typed, GatewayTyped, GatewayTypeOK
<1> QED
  BY <1>2, <1>3, <1>4, SoleThreadMoves DEF Sending

(***************************************************************************)
(* As long as nothing fails, the steps of the environment are not enabled: *)
(* every delivery is being handled, every live lease has its holder, and   *)
(* a reaper finds no lease that has expired.                               *)
(***************************************************************************)
Undisturbed == DispatchedOnce /\ ~LongTool /\ crashes = 0 /\ stalls = 0

DoneOnce == Undisturbed => Sole

LEMMA DoneOnceNext == Typed /\ DoneOnce /\ [Next]_vars => DoneOnce'
<1> SUFFICES ASSUME Typed, DoneOnce, [Next]_vars, Undisturbed'
             PROVE  Sole'
  BY DEF DoneOnce
<1>1. DispatchedOnce /\ ~LongTool
  BY DEF Undisturbed
<1>2. ASSUME crashes' = crashes, \/ stalls' = stalls
                                 \/ \E stall \in BOOLEAN : Spend(stall)
      PROVE  Sole
  BY <1>1, <1>2, SpendTyped DEF Undisturbed, DoneOnce, Typed
<1>3. ASSUME NEW w \in Workers, WorkerProcess(w) \/ WorkerQueue(w)
      PROVE  Sole'
  BY <1>1, <1>2, <1>3, SoleProcess, SoleQueue DEF WorkerProcess, WorkerQueue, budgetVars
<1>4. ASSUME NEW w \in Workers, ReclaimIdle(w)
      PROVE  FALSE
  <2>1. PICK taken \in SUBSET {e \in pel : e.owner # w} :
           /\ taken # {}
           /\ Spend(\E e \in taken : Handled(e))
           /\ crashes' = crashes
    BY <1>4 DEF ReclaimIdle, Autoclaim
  <2>2. ~(\E e \in taken : Handled(e)) /\ Sole
    BY <1>2, <2>1, SpendTyped DEF Undisturbed, Typed
  <2> QED
    BY <1>1, <2>1, <2>2 DEF Sole, NothingDue, Handled
<1>5. ASSUME NEW t \in Threads, GatewayMove(t) \/ GatewayBegin(t)
      PROVE  Sole'
  BY <1>1, <1>2, <1>5, SoleGatewayStep, SoleGatewayOp DEF GatewayMove, GatewayBegin, budgetVars
<1>6. ASSUME NEW r \in Reapers, ReaperMove(r) \/ ReaperScan(r)
      PROVE  FALSE
  <2>1. Sole
    BY <1>2, <1>6 DEF ReaperMove, ReaperScan, budgetVars
  <2>2. rpc[r] = "idle" /\ \A c \in leaseIdx : IsAlive(c)
    BY <2>1 DEF Sole, NothingDue
  <2> QED
    BY <1>6, <2>2 DEF ReaperMove, ReaperStep, ReadRow, ForceReleaseKey, ForceReleaseIndex, TryLock,
       Recheck, RetryClaim, RetryRow, RetryRequeue, HumanRow, Unlock, AtR, ReaperScan, Scan
<1>7. ASSUME NEW c \in Calls, LeaseExpires(c)
      PROVE  FALSE
  <2>1. Spend(HolderLives(c)) /\ HolderLives(c) \in BOOLEAN /\ crashes' = crashes /\ IsAlive(c)
    BY <1>7 DEF LeaseExpires, HolderLives
  <2>2. ~HolderLives(c)
    BY <2>1, SpendTyped DEF Undisturbed, Typed
  <2>3. Sole
    BY <1>2, <2>1
  <2> QED
    BY <2>1, <2>2, <2>3 DEF Sole, NothingDue
<1>8. ASSUME (\E c \in Calls : LockExpires(c)) \/ UNCHANGED vars
      PROVE  Sole'
  <2>1. /\ UNCHANGED <<idem, lease, leaseIdx, stream, pel, delayed, lastId, cancelled, wcancel,
                       workerVars, gpc, gcall, grec, rpc>>
        /\ Sole
    BY <1>2, <1>8 DEF LockExpires, vars, storeVars, gatewayVars, reaperVars, budgetVars
  <2> QED
    BY <2>1 DEF Sole, NothingDue, OneJob, OneClaim, workerVars, IsAlive, HolderLives, Call, Processes,
       Settling
<1>9. ~Crash
  BY DEF Crash, Undisturbed, Typed, BudgetTypeOK
<1> QED
  BY <1>3, <1>4, <1>5, <1>6, <1>7, <1>8, <1>9 DEF Next

LEMMA AlwaysDoneOnce == Spec => []DoneOnce
<1>1. Init => DoneOnce
  BY SoleInit DEF DoneOnce
<1> QED
  BY <1>1, AlwaysTyped, DoneOnceNext, PTL DEF Spec

\* Nothing fails: a tool that is not safe to run again is not run again beside
\* a run that is open or good, by whatever callers, approvals, repeated
\* submissions and workers meet on the key, provided that it is of high risk or
\* not retried.
THEOREM NothingRerunsBlindly == Spec => [](Undisturbed => NoBlindRerun)
<1>1. DoneOnce => (Undisturbed => NoBlindRerun)
  <2> SUFFICES ASSUME Sole
               PROVE  Cardinality(unsettled) <= 1
    BY DEF DoneOnce, NoBlindRerun
  <2>1. unsettled = {} \/ unsettled = {1}
    BY DEF Sole, OneJob
  <2>2. Cardinality({}) = 0 /\ Cardinality({1}) = 1
    BY FS_EmptySet, FS_Singleton
  <2> QED
    BY <2>1, <2>2
<1> QED
  BY <1>1, AlwaysDoneOnce, PTL

\* Nothing fails: the claim of an accepted call is never left with nobody to
\* settle it, unless the call was cancelled, provided that the tool is of high
\* risk or neither crash-safe nor retried.
THEOREM NothingIsOrphaned == Spec => [](Undisturbed => NoOrphanClaim)
<1>1. Typed /\ DoneOnce => (Undisturbed => NoOrphanClaim)
  <2> SUFFICES ASSUME Typed, Sole, idem.st = "PROCESSING", idem.call \notin cancelled
               PROVE  \/ idem.call \in Queued \cup InHand
                      \/ \E t \in Threads : gcall[t] = idem.call
    BY DEF DoneOnce, NoOrphanClaim
  <2>1. CASE \E t \in Threads : gpc[t] \in Sending
    BY <2>1 DEF Sole, OneClaim
  <2>2. CASE stream # <<>>
    <3>1. PICK m \in Messages : stream = <<m>> /\ idem.call = m.call
      BY <2>2 DEF Sole, OneClaim
    <3>2. 1 \in DOMAIN stream /\ stream[1].call = idem.call
      BY <3>1
    <3> QED
      BY <3>2 DEF Queued
  <2>3. CASE \E w \in Workers : Settling(w)
    <3>1. PICK w \in Workers : Settling(w) /\ idem.call = Call(w)
      BY <2>3 DEF Sole, OneClaim
    <3>2. wpc[w] \notin {"top", "batch", "read"}
      BY <3>1 DEF Settling, Sole, NothingDue, OncePcs
    <3> QED
      BY <3>1, <3>2 DEF InHand
  <2> QED
    BY <2>1, <2>2, <2>3 DEF Sole, OneClaim
<1> QED
  BY <1>1, AlwaysTyped, AlwaysDoneOnce, PTL

=============================================================================
