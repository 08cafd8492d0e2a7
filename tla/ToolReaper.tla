----------------------------- MODULE ToolReaper -----------------------------
(***************************************************************************)
(* LeaseReaper: for every call the lease index lists and whose lease is    *)
(* gone, read the row, take the recovery lock, look at the lease once more *)
(* and either requeue the call or hand it to a human.                      *)
(***************************************************************************)
EXTENDS ToolStore

CONSTANTS
    Reapers,
    NoReaper

ASSUME ReaperAssumption == NoReaper \notin Reapers

VARIABLES
    rpc,    \* where a reaper is in _reap_one
    rcall,  \* the call it looks at
    rrow,   \* the row it read, used until the end
    lock    \* the recovery lock of a call: its owner

reaperVars == <<rpc, rcall, rrow, lock>>

\* Inside recovery_lock.hold.
LockedPcs == {"recheck", "retryForce", "retryIndex", "retryClaim", "retryRow",
              "retryRequeue", "humanForce", "humanIndex", "humanRow", "unlock"}

ReaperPcs == LockedPcs \cup {"idle", "row", "dropForce", "dropIndex", "tryLock"}

ReaperTypeOK ==
    /\ rpc \in [Reapers -> ReaperPcs]
    /\ rcall \in [Reapers -> Calls \cup {NoCall}]
    /\ rrow \in [Reapers -> Rows]
    /\ lock \in [Calls -> Reapers \cup {NoReaper}]

ReaperInit ==
    /\ rpc = [r \in Reapers |-> "idle"]
    /\ rcall = [r \in Reapers |-> NoCall]
    /\ rrow = [r \in Reapers |-> NoRow]
    /\ lock = [c \in Calls |-> NoReaper]

AtR(r, pc) == rpc[r] = pc

GotoR(r, pc) == rpc' = [rpc EXCEPT ![r] = pc]

\* On to the next candidate.
Forget(r) ==
    /\ rpc' = [rpc EXCEPT ![r] = "idle"]
    /\ rcall' = [rcall EXCEPT ![r] = NoCall]
    /\ rrow' = [rrow EXCEPT ![r] = NoRow]

\* LeaseManager.expired: listed in the index, and the lease is gone.
Scan(r, c) ==
    /\ AtR(r, "idle")
    /\ c \in leaseIdx
    /\ ~IsAlive(c)
    /\ rcall' = [rcall EXCEPT ![r] = c]
    /\ GotoR(r, "row")
    /\ UNCHANGED <<storeVars, rrow, lock>>

ReadRow(r) ==
    /\ AtR(r, "row")
    /\ rrow' = [rrow EXCEPT ![r] = db[rcall[r]]]
    /\ GotoR(r, IF db[rcall[r]].st = "PROCESSING" THEN "tryLock" ELSE "dropForce")
    /\ UNCHANGED <<storeVars, rcall, lock>>

\* force_release: DEL of the lease without looking at its owner, then ZREM.
ForceReleaseKey(r) ==
    /\ rpc[r] \in {"dropForce", "retryForce", "humanForce"}
    /\ lease' = [lease EXCEPT ![rcall[r]] = NoLease]
    /\ GotoR(r, CASE AtR(r, "dropForce") -> "dropIndex"
                  [] AtR(r, "retryForce") -> "retryIndex"
                  [] AtR(r, "humanForce") -> "humanIndex")
    /\ UNCHANGED <<idem, leaseIdx, db, result, stream, pel, delayed, lastId, approval,
                   cancelled, wcancel, rcall, rrow, lock>>

ForceReleaseIndex(r) ==
    /\ rpc[r] \in {"dropIndex", "retryIndex", "humanIndex"}
    /\ leaseIdx' = leaseIdx \ {rcall[r]}
    /\ IF AtR(r, "dropIndex")
       THEN Forget(r)
       ELSE /\ GotoR(r, IF AtR(r, "retryIndex") THEN "retryClaim" ELSE "humanRow")
            /\ UNCHANGED <<rcall, rrow>>
    /\ UNCHANGED <<idem, lease, db, result, stream, pel, delayed, lastId, approval,
                   cancelled, wcancel, lock>>

\* Mutant of TryLock: SET without NX.
TryLockOverwrites(r) ==
    /\ AtR(r, "tryLock")
    /\ lock' = [lock EXCEPT ![rcall[r]] = r]
    /\ GotoR(r, "recheck")
    /\ UNCHANGED <<storeVars, rcall, rrow>>

TryLock(r) ==
    /\ AtR(r, "tryLock")
    /\ IF lock[rcall[r]] = NoReaper
       THEN /\ lock' = [lock EXCEPT ![rcall[r]] = r]
            /\ GotoR(r, "recheck")
            /\ UNCHANGED <<rcall, rrow>>
       ELSE /\ Forget(r)
            /\ UNCHANGED lock
    /\ UNCHANGED storeVars

\* _decide_and_apply looks at the lease again, not at the row.
Recheck(r) ==
    /\ AtR(r, "recheck")
    /\ GotoR(r, IF IsAlive(rcall[r]) THEN "unlock"
                ELSE IF CrashSafe /\ ~HighRisk THEN "retryForce" ELSE "humanForce")
    /\ UNCHANGED <<storeVars, rcall, rrow, lock>>

RetryClaim(r) ==
    /\ AtR(r, "retryClaim")
    /\ ReleaseClaim
    /\ GotoR(r, "retryRow")
    /\ UNCHANGED <<lease, leaseIdx, db, result, stream, pel, delayed, lastId, approval,
                   cancelled, wcancel, rcall, rrow, lock>>

\* The row, which is never deleted, is requeued with the attempt read before the lock.
RetryRow(r) ==
    /\ AtR(r, "retryRow")
    /\ Upsert(rcall[r], "QUEUED", rrow[r].att + 1)
    /\ GotoR(r, "retryRequeue")
    /\ UNCHANGED <<idem, lease, leaseIdx, result, stream, pel, delayed, lastId, approval,
                   cancelled, wcancel, rcall, rrow, lock>>

\* _requeue adds one to the row's attempt and retry_later one more.
RetryRequeue(r) ==
    /\ AtR(r, "retryRequeue")
    /\ RetryLater(rcall[r], db[rcall[r]].att + 1)
    /\ GotoR(r, "unlock")
    /\ UNCHANGED <<idem, lease, leaseIdx, db, result, stream, pel, lastId, approval,
                   cancelled, wcancel, rcall, rrow, lock>>

\* The row waits for a human; no approval record is made and the claim stays.
HumanRow(r) ==
    /\ AtR(r, "humanRow")
    /\ SetStatus(rcall[r], "WAITING_HUMAN")
    /\ GotoR(r, "unlock")
    /\ UNCHANGED <<idem, lease, leaseIdx, result, stream, pel, delayed, lastId, approval,
                   cancelled, wcancel, rcall, rrow, lock>>

\* The lock's release compares the owner.
Unlock(r) ==
    /\ AtR(r, "unlock")
    /\ lock' = [lock EXCEPT ![rcall[r]] = IF @ = r THEN NoReaper ELSE @]
    /\ Forget(r)
    /\ UNCHANGED storeVars

ReaperStep(r) ==
    \/ ReadRow(r) \/ ForceReleaseKey(r) \/ ForceReleaseIndex(r)
    \/ TryLock(r) \/ Recheck(r) \/ RetryClaim(r) \/ RetryRow(r) \/ RetryRequeue(r)
    \/ HumanRow(r) \/ Unlock(r)

=============================================================================
