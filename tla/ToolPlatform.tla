---------------------------- MODULE ToolPlatform ----------------------------
(***************************************************************************)
(* The asynchronous path of agent-tool-execution-platform as one system:   *)
(* callers' threads, workers and reapers over the shared store, with the   *)
(* time-outs, crashes and stalls of their environment.                     *)
(***************************************************************************)
EXTENDS ToolWorker, ToolGateway, ToolReaper

CONSTANTS
    LongTool,    \* a run may last longer than the 30 idle seconds of XAUTOCLAIM
    MaxOps,      \* bound: gateway operations begun
    MaxCrashes,  \* bound: processes that die
    MaxStalls    \* bound: a live process is silent for longer than a time-out

ASSUME BoundAssumption ==
    /\ LongTool \in BOOLEAN
    /\ {MaxOps, MaxCrashes, MaxStalls} \subseteq Nat

VARIABLES ops, crashes, stalls

budgetVars == <<ops, crashes, stalls>>

vars == <<storeVars, workerVars, gatewayVars, reaperVars, budgetVars>>

Init ==
    /\ StoreInit
    /\ WorkerInit
    /\ GatewayInit
    /\ ReaperInit
    /\ ops = 0
    /\ crashes = 0
    /\ stalls = 0

(***************************************************************************)
(* Time.  What only takes time is free; what needs a live process to miss  *)
(* its time-out costs a stall.                                             *)
(***************************************************************************)
\* The holder of c's lease is alive, so its heartbeat renews the lease.
HolderLives(c) ==
    \E w \in Workers : wpc[w] \in Leased /\ Call(w) = c /\ wmsg[w].id = lease[c]

\* A live worker handles this delivery and is not inside a long tool run.
Handled(e) ==
    \/ \E w \in Workers : Processes(w, e.msg.id) /\ ~(LongTool /\ At(w, "running"))
    \/ \E w \in Workers : e.msg \in wbatch[w]
    \/ \E w \in Workers : wpc[w] \in {"requeueStale", "ackStale"} /\ wmsg[w] = e.msg

Spend(stall) ==
    /\ stall => stalls < MaxStalls
    /\ stalls' = IF stall THEN stalls + 1 ELSE stalls

LeaseExpires(c) ==
    /\ IsAlive(c)
    /\ Spend(HolderLives(c))
    /\ lease' = [lease EXCEPT ![c] = NoLease]
    /\ UNCHANGED <<idem, leaseIdx, db, result, stream, pel, delayed, lastId, approval,
                   cancelled, wcancel, workerVars, gatewayVars, reaperVars, ops, crashes>>

\* XAUTOCLAIM of the deliveries that are idle for 30 seconds.
ReclaimIdle(w) ==
    \E taken \in SUBSET {e \in pel : e.owner # w} :
        /\ Autoclaim(w, taken)
        /\ Spend(\E e \in taken : Handled(e))
        /\ UNCHANGED <<gatewayVars, reaperVars, ops, crashes>>

\* The recovery lock outlives its TTL.
LockExpires(c) ==
    /\ lock[c] # NoReaper
    /\ Spend(rcall[lock[c]] = c /\ rpc[lock[c]] \in LockedPcs)
    /\ lock' = [lock EXCEPT ![c] = NoReaper]
    /\ UNCHANGED <<storeVars, workerVars, gatewayVars, rpc, rcall, rrow, ops, crashes>>

Crash ==
    /\ crashes < MaxCrashes
    /\ crashes' = crashes + 1
    /\ \/ \E w \in Workers : /\ wpc[w] # "top"
                             /\ WorkerCrash(w)
                             /\ UNCHANGED <<gatewayVars, reaperVars>>
       \/ \E t \in Threads : /\ GatewayCrash(t)
                             /\ UNCHANGED <<workerVars, reaperVars>>
       \/ \E r \in Reapers : /\ ~AtR(r, "idle")
                             /\ Forget(r)
                             /\ UNCHANGED <<storeVars, workerVars, gatewayVars, lock>>
    /\ UNCHANGED <<ops, stalls>>

WorkerProcess(w) ==
    /\ ProcessStep(w)
    /\ UNCHANGED <<gatewayVars, reaperVars, budgetVars>>

WorkerQueue(w) ==
    /\ QueueStep(w)
    /\ UNCHANGED <<gatewayVars, reaperVars, budgetVars>>

GatewayMove(t) ==
    /\ GatewayStep(t)
    /\ UNCHANGED <<workerVars, reaperVars, budgetVars>>

GatewayBegin(t) ==
    /\ ops < MaxOps
    /\ ops' = ops + 1
    /\ GatewayOp(t)
    /\ UNCHANGED <<workerVars, reaperVars, crashes, stalls>>

ReaperMove(r) ==
    /\ ReaperStep(r)
    /\ UNCHANGED <<workerVars, gatewayVars, budgetVars>>

ReaperScan(r) ==
    /\ \E c \in Calls : Scan(r, c)
    /\ UNCHANGED <<workerVars, gatewayVars, budgetVars>>

Next ==
    \/ \E w \in Workers : WorkerProcess(w) \/ WorkerQueue(w) \/ ReclaimIdle(w)
    \/ \E t \in Threads : GatewayMove(t) \/ GatewayBegin(t)
    \/ \E r \in Reapers : ReaperMove(r) \/ ReaperScan(r)
    \/ \E c \in Calls : LeaseExpires(c) \/ LockExpires(c)
    \/ Crash

Spec == Init /\ [][Next]_vars

(***************************************************************************)
(* Fairness.  Every thread runs and every tool run ends.  run_once         *)
(* promotes and reclaims before it reads, so a worker that keeps passing   *)
(* the top of its loop takes what is due (SF).  Nobody has to begin a      *)
(* gateway operation, nothing has to crash, stall or be scanned.           *)
(***************************************************************************)
PromoteDue(w) ==
    /\ PromoteTake(w)
    /\ UNCHANGED <<gatewayVars, reaperVars, budgetVars>>

ReclaimAbandoned(w) ==
    \E taken \in SUBSET {e \in pel : e.owner # w} :
        /\ \A e \in taken : ~Handled(e)
        /\ Autoclaim(w, taken)
        /\ UNCHANGED <<gatewayVars, reaperVars, budgetVars>>

ExpireAbandoned(c) == ~HolderLives(c) /\ LeaseExpires(c)

Fairness ==
    /\ \A w \in Workers : /\ WF_vars(WorkerProcess(w))
                          /\ WF_vars(WorkerQueue(w))
                          /\ SF_vars(PromoteDue(w))
                          /\ SF_vars(ReclaimAbandoned(w))
    /\ \A t \in Threads : WF_vars(GatewayMove(t))
    /\ \A r \in Reapers : WF_vars(ReaperMove(r))
    /\ \A c \in Calls : WF_vars(ExpireAbandoned(c))

FairSpec == Spec /\ Fairness

(***************************************************************************)
(* Properties.                                                             *)
(***************************************************************************)
\* Every variable of the platform has its type.
TypeOK ==
    /\ StoreTypeOK
    /\ WorkerTypeOK
    /\ GatewayTypeOK
    /\ ReaperTypeOK
    /\ ops \in 0..MaxOps
    /\ crashes \in 0..MaxCrashes
    /\ stalls \in 0..MaxStalls

\* A SUCCESS record in Redis points to a call whose result row the database
\* has: whoever is told "deduplicated" can load the result, whatever crashed,
\* ran twice or reported late.
SuccessHasResult == idem.st = "SUCCESS" => idem.call \in result

\* A tool that is not safe to run again is run at most once without having
\* reported a failure: a second caller, an approval and a reclaim never start
\* a run beside one whose outcome is open or good.
NoBlindRerun == ~CrashSafe => Cardinality(unsettled) <= 1

\* Calls with a message in the stream, pending or delayed.
Queued ==
    {stream[i].call : i \in DOMAIN stream} \cup {e.msg.call : e \in pel}
    \cup {p.call : p \in delayed}

\* Calls whose message a worker holds.
InHand ==
    {Call(w) : w \in {w \in Workers : wpc[w] \notin {"top", "batch", "read"}}}
    \cup UNION {{m.call : m \in wbatch[w]} : w \in Workers}

\* A call of a high-risk tool reaches the queue or a worker only after a
\* reviewer approved it, by whatever path it got there: dispatch, retry,
\* reclaim or reaper.
ApprovedOnly == HighRisk => Queued \cup InHand \subseteq granted

\* A claim of an accepted call that is still PROCESSING has somebody left who
\* will settle it: a message, a thread, a reaper or a human; or the call was
\* cancelled.
NoOrphanClaim ==
    idem.st = "PROCESSING" /\ idem.call \in accepted =>
       \/ idem.call \in Queued \cup InHand \cup cancelled \cup leaseIdx
       \/ \E t \in Threads : gcall[t] = idem.call
       \/ \E r \in Reapers : rcall[r] = idem.call
       \/ db[idem.call].st = "WAITING_HUMAN"

\* A worker's release frees its own lease or none, even when it was silent for
\* so long that somebody else holds the lease by now.
ReleaseOnlyOwn ==
    [][\A w \in Workers :
          wpc[w] \in {"releaseOk", "releaseFailed", "releaseSkip"} /\ wpc'[w] # wpc[w]
             => \A c \in Calls : lease'[c] # lease[c] => lease[c] = wmsg[w].id]_vars

\* Two reapers never decide on one call at a time, unless one of them was
\* silent for longer than the lock's TTL.
OneReaperActs ==
    stalls = 0 =>
       \A r, s \in Reapers :
          r # s /\ rpc[r] \in LockedPcs /\ rpc[s] \in LockedPcs => rcall[r] # rcall[s]

\* Without a crash, an accepted call that nobody cancels is settled for good:
\* its record leaves PROCESSING and no message of it is left.
JobSettles ==
    [](crashes = 0) =>
       \A c \in Calls :
          c \in accepted ~> [](idem.st # "PROCESSING" /\ c \notin Queued \cup InHand)

=============================================================================
