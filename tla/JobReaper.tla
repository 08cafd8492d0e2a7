------------------------------ MODULE JobReaper ------------------------------
(***************************************************************************)
(* Reaper.reap_once: a snapshot of the rows whose lease is over, then one  *)
(* after the other a look at the cancel flag, a transition from the status *)
(* the SNAPSHOT has, and a message.                                        *)
(***************************************************************************)
EXTENDS JobStore

VARIABLES
    rpc,    \* where the reaper is
    rtodo,  \* what is left of the snapshot
    rseen   \* the entry it is at

reaperVars == <<rpc, rtodo, rseen>>

Entries == [job : Jobs \cup {NoJob}, status : Statuses]

NoEntry == [job |-> NoJob, status |-> "ABSENT"]

JobReaperTypeOK ==
    /\ rpc \in {"idle", "cancel", "requeue", "publish"}
    /\ rtodo \subseteq Entries
    /\ rseen \in Entries

JobReaperInit ==
    /\ rpc = "idle"
    /\ rtodo = {}
    /\ rseen = NoEntry

ReaperRests ==
    /\ rpc' = "idle"
    /\ rseen' = NoEntry
    /\ UNCHANGED rtodo

\* find_recoverable.
Scan ==
    /\ rpc = "idle"
    /\ rtodo = {}
    /\ \E j \in Jobs : Recoverable(j)
    /\ rtodo' = {[job |-> j, status |-> Status(j)] : j \in {j \in Jobs : Recoverable(j)}}
    /\ UNCHANGED <<jobStoreVars, rpc, rseen>>

CheckCancel(e) ==
    /\ rpc = "idle"
    /\ e \in rtodo
    /\ rtodo' = rtodo \ {e}
    /\ rseen' = e
    /\ rpc' = IF row[e.job].cancel THEN "cancel" ELSE "requeue"
    /\ UNCHANGED jobStoreVars

ReaperCancels ==
    /\ rpc = "cancel"
    /\ \E ok \in BOOLEAN :
          Transition(rseen.job, rseen.status, Settled(row[rseen.job], "CANCELLED"), ok)
    /\ ReaperRests
    /\ UNCHANGED <<queue, cp, completed>>

\* Mutant of ReaperRequeues: a message is published although the transition
\* did not hit.
ReaperRequeuesAnyway ==
    /\ rpc = "requeue"
    /\ \E ok \in BOOLEAN :
          Transition(rseen.job, rseen.status, Settled(row[rseen.job], "QUEUED"), ok)
    /\ rpc' = "publish"
    /\ UNCHANGED <<rtodo, rseen, queue, cp, completed>>

ReaperRequeues ==
    /\ rpc = "requeue"
    /\ \E ok \in BOOLEAN :
          /\ Transition(rseen.job, rseen.status, Settled(row[rseen.job], "QUEUED"), ok)
          /\ IF ok THEN rpc' = "publish" /\ UNCHANGED <<rtodo, rseen>> ELSE ReaperRests
    /\ UNCHANGED <<queue, cp, completed>>

ReaperPublishes ==
    /\ rpc = "publish"
    /\ Publish(rseen.job)
    /\ ReaperRests
    /\ UNCHANGED <<row, cp, completed>>

ReaperStep ==
    \/ Scan
    \/ \E e \in rtodo : CheckCancel(e)
    \/ ReaperCancels \/ ReaperRequeues \/ ReaperPublishes

ReaperStops ==
    /\ rpc' = "idle"
    /\ rtodo' = {}
    /\ rseen' = NoEntry

=============================================================================
