------------------------------- MODULE JobQueue -------------------------------
(***************************************************************************)
(* async-agent-job-queue in its default deployment: one process with       *)
(* workers, delayed requeues, one reaper and the HTTP API, over SQLite and *)
(* the memory queue.  The tasks interleave at every access to the store.   *)
(*                                                                         *)
(* A stall is a lease that runs out although its task is alive: an event   *)
(* loop or a database that hangs for longer than the lease.                *)
(***************************************************************************)
EXTENDS JobWorker, JobReaper, JobClient

CONSTANTS
    MaxCancels,   \* bound: cancel requests
    MaxRequeues,  \* bound: requeues from the dead letters
    MaxFaults,    \* bound: WorkerCrash raised by an agent
    MaxCrashes,   \* bound: crashes of the process
    MaxStalls     \* bound: stalls

ASSUME JobQueueAssumption ==
    {MaxCancels, MaxRequeues, MaxFaults, MaxCrashes, MaxStalls} \subseteq Nat

VARIABLES
    cancels, requeues, faults, crashes, stalls   \* what was used of the bounds

budgetVars == <<cancels, requeues, faults, crashes, stalls>>

vars == <<jobStoreVars, workerVars, timerVars, reaperVars, clientVars, budgetVars>>

Init ==
    /\ JobStoreInit
    /\ JobWorkerInit
    /\ JobReaperInit
    /\ JobClientInit
    /\ cancels = 0 /\ requeues = 0 /\ faults = 0 /\ crashes = 0 /\ stalls = 0

(***************************************************************************)
(* Time.                                                                   *)
(***************************************************************************)
\* The heartbeat of a running worker, or the backoff of a delayed requeue,
\* keeps the lease of j.
Kept(j) ==
    \/ \E w \in Workers : wpc[w] \in BeatPcs /\ wjob[w] = j /\ row[j].worker = w
    \/ Status(j) = "RETRYING" /\ \E t \in Timers : tpc[t] # "off" /\ tjob[t] = j

LeaseExpires(j) ==
    /\ row[j].lease = "live"
    /\ IF Kept(j) THEN stalls < MaxStalls /\ stalls' = stalls + 1 ELSE UNCHANGED stalls
    /\ row' = [row EXCEPT ![j].lease = "expired"]
    /\ UNCHANGED <<queue, cp, completed, workerVars, timerVars, reaperVars, clientVars,
                   cancels, requeues, faults, crashes>>

\* The process dies and starts again: the store is what is left.
ProcessCrash ==
    /\ crashes < MaxCrashes
    /\ crashes' = crashes + 1
    /\ queue' = [j \in Jobs |-> 0]
    /\ WorkersStop
    /\ ReaperStops
    /\ ClientsStop
    /\ UNCHANGED <<row, cp, completed, cancels, requeues, faults, stalls>>

(***************************************************************************)
(* The specification.                                                      *)
(***************************************************************************)
WorkerMove(w) ==
    /\ \/ PickupStep(w) \/ AgentStep(w) \/ EndStep(w)
       \/ \E error \in {"retry", "fatal"} : StepRaises(w, error)
    /\ UNCHANGED <<reaperVars, clientVars, budgetVars>>

AgentCrash(w) ==
    /\ faults < MaxFaults
    /\ faults' = faults + 1
    /\ StepRaises(w, "crash")
    /\ UNCHANGED <<reaperVars, clientVars, cancels, requeues, crashes, stalls>>

BesideMove(w) ==
    /\ BesideStep(w)
    /\ UNCHANGED <<reaperVars, clientVars, budgetVars>>

TimerMove(t) ==
    /\ TimerStep(t)
    /\ UNCHANGED <<reaperVars, clientVars, budgetVars>>

ReaperMove ==
    /\ ReaperStep
    /\ UNCHANGED <<workerVars, timerVars, clientVars, budgetVars>>

ClientMove(c) ==
    /\ ClientStep(c)
    /\ UNCHANGED <<workerVars, timerVars, reaperVars, budgetVars>>

ClientCreates(c) ==
    /\ \E j \in Jobs : Create(c, j)
    /\ UNCHANGED <<workerVars, timerVars, reaperVars, budgetVars>>

ClientCancels(c) ==
    /\ cancels < MaxCancels
    /\ cancels' = cancels + 1
    /\ \E j \in Jobs : ReadForCancel(c, j)
    /\ UNCHANGED <<workerVars, timerVars, reaperVars, requeues, faults, crashes, stalls>>

ClientRequeues(c) ==
    /\ requeues < MaxRequeues
    /\ requeues' = requeues + 1
    /\ \E j \in Jobs : ReadForRequeue(c, j)
    /\ UNCHANGED <<workerVars, timerVars, reaperVars, cancels, faults, crashes, stalls>>

Next ==
    \/ \E w \in Workers : WorkerMove(w) \/ AgentCrash(w) \/ BesideMove(w)
    \/ \E t \in Timers : TimerMove(t)
    \/ ReaperMove
    \/ \E c \in Clients : ClientMove(c) \/ ClientCreates(c) \/ ClientCancels(c)
                          \/ ClientRequeues(c)
    \/ \E j \in Jobs : LeaseExpires(j)
    \/ ProcessCrash

Spec == Init /\ [][Next]_vars

\* Every task of the event loop gets its turn, agents return, and a lease
\* nobody keeps runs out.  Nobody has to create, cancel or requeue a job, and
\* nothing has to fail.
Fairness ==
    /\ \A w \in Workers : WF_vars(WorkerMove(w)) /\ WF_vars(BesideMove(w))
    /\ \A t \in Timers : WF_vars(TimerMove(t))
    /\ WF_vars(ReaperMove)
    /\ \A c \in Clients : WF_vars(ClientMove(c))
    /\ \A j \in Jobs : WF_vars(~Kept(j) /\ LeaseExpires(j))

FairSpec == Spec /\ Fairness

(***************************************************************************)
(* Properties.                                                             *)
(***************************************************************************)
\* Every variable of the job queue has its type.
TypeOK ==
    /\ JobStoreTypeOK
    /\ JobWorkerTypeOK
    /\ JobReaperTypeOK
    /\ JobClientTypeOK
    /\ {cancels, requeues, faults, crashes, stalls} \subseteq Nat

\* Who holds the dispatch of job j: has moved it to QUEUED and not published it
\* yet, or has taken its message and not yet moved it to RUNNING.
Holders(j) ==
    {<<"worker", w>> : w \in {w \in Workers : wpc[w] \in PickupPcs /\ wjob[w] = j}}
    \cup {<<"timer", t>> : t \in {t \in Timers : tpc[t] = "publish" /\ tjob[t] = j}}
    \cup {<<"client", c>> : c \in {c \in Clients : cpc[c] \in {"create", "publish"}
                                                    /\ cjob[c] = j}}
    \cup {<<"reaper", r>> : r \in {r \in {"reaper"} : rpc = "publish" /\ rseen.job = j}}

\* A job is never dispatched twice at a time, and not at all while it runs,
\* waits for its backoff or has ended: retries, the reaper and requeues from
\* the dead letters do not multiply its messages, whatever crashes or stalls.
SingleDispatch ==
    \A j \in Jobs :
       /\ queue[j] <= 1
       /\ queue[j] = 1 => Holders(j) = {}
       /\ \A x, y \in Holders(j) : x = y
       /\ Status(j) \notin {"QUEUED", "CANCELLED"} => queue[j] = 0 /\ Holders(j) = {}

\* While the process lives, a QUEUED job has a message or somebody about to
\* publish one or to run it: no order of the tasks strands a job.
NoLostMessage ==
    crashes = 0 =>
       \A j \in Jobs : Status(j) = "QUEUED" => queue[j] > 0 \/ Holders(j) # {}

\* Unless a lease ran out under a live worker, a worker in the middle of a run
\* is the one its job's row names, and the row says RUNNING: so at most one
\* worker runs a job, and every ending it writes hits its own run.
RunnerOwnsJob ==
    stalls = 0 =>
       \A w \in Workers :
          wpc[w] \in RunPcs => /\ Status(wjob[w]) = "RUNNING"
                               /\ row[wjob[w]].worker = w

\* Unless there was a stall, a tool call whose success a checkpoint recorded is
\* never made again, over retries, recoveries and process crashes.
ToolNotRepeated ==
    [][stalls = 0 =>
          \A w \in Workers :
             wpc[w] # "tool" /\ wpc'[w] = "tool"
                => CurrentStep(w) \notin cp[wjob[w]].tools]_vars

\* Without cancel requests and stalls the job queue implements the life cycle.
Lifecycle == INSTANCE JobLifecycle WITH
    status <- [j \in Jobs |-> row[j].status],
    retries <- [j \in Jobs |-> row[j].retries]

FollowsLifecycle == Lifecycle!LifeSpec

\* While the process lives, every job comes to an end, however often its steps
\* fail, its worker dies and it is reaped.
JobEnds ==
    \A j \in Jobs : Status(j) # "ABSENT"
                       ~> Status(j) \in {"SUCCESS", "FAILED", "CANCELLED", "DEAD"}

=============================================================================
