---------------------------- MODULE JobQueueProofs ----------------------------
(***************************************************************************)
(* Proofs about JobQueue for every set of jobs, workers, delayed requeues  *)
(* and requests, every agent and every bound.                              *)
(***************************************************************************)
EXTENDS JobQueue, TLAPS

(***************************************************************************)
(* Types.  What a task holds is a job, and an agent in the middle of a     *)
(* step has a step left.                                                   *)
(***************************************************************************)
InStepPcs == {"work", "call", "tool", "record"}

WorkerTyped ==
    /\ wpc \in [Workers -> WorkerPcs]
    /\ wjob \in [Workers -> Jobs \cup {NoJob}]
    /\ wseen \in [Workers -> Statuses]
    /\ wretry \in [Workers -> Nat]
    /\ wstate \in [Workers -> AgentStates]
    /\ gate \in [Workers -> SUBSET {"cancel", "lost"}]
    /\ \A w \in Workers : wpc[w] # "idle" => wjob[w] \in Jobs
    /\ \A w \in Workers : wpc[w] \in InStepPcs => wstate[w].done < Steps
    /\ \A w \in Workers : wpc[w] \in {"tool", "record"} => CurrentStep(w) \in ToolSteps

TimerTyped ==
    /\ tpc \in [Timers -> TimerPcs]
    /\ tjob \in [Timers -> Jobs \cup {NoJob}]
    /\ \A t \in Timers : tpc[t] # "off" => tjob[t] \in Jobs

Snapshots == [job : Jobs, status : {"RUNNING", "RETRYING"}]

ReaperTyped ==
    /\ JobReaperTypeOK
    /\ rtodo \subseteq Snapshots
    /\ rpc # "idle" => rseen \in Snapshots

ClientTyped ==
    /\ JobClientTypeOK
    /\ \A c \in Clients : cpc[c] # "idle" => cjob[c] \in Jobs

BudgetTyped ==
    /\ cancels \in Nat
    /\ requeues \in Nat
    /\ faults \in Nat
    /\ crashes \in Nat
    /\ stalls \in Nat

Typed ==
    JobStoreTypeOK /\ WorkerTyped /\ TimerTyped /\ ReaperTyped /\ ClientTyped /\ BudgetTyped

LEMMA TypedInit == Init => Typed
BY JobStoreAssumption
   DEF Init, Typed, JobStoreInit, JobStoreTypeOK, Rows, NoRow, Statuses, AgentStates, Fresh,
       JobWorkerInit, WorkerTyped, WorkerPcs, PickupPcs, RunPcs, AgentPcs, DeadPcs, InStepPcs,
       TimerTyped, TimerPcs, JobReaperInit, ReaperTyped, JobReaperTypeOK, Entries, NoEntry,
       JobClientInit, ClientTyped, JobClientTypeOK, ClientPcs, BudgetTyped

LEMMA TransitionTyped ==
    ASSUME JobStoreTypeOK, NEW j \in Jobs, NEW from, NEW r \in Rows, NEW ok,
           Transition(j, from, r, ok)
    PROVE  row' \in [Jobs -> Rows]
BY DEF Transition, JobStoreTypeOK

LEMMA RowsTyped ==
    ASSUME JobStoreTypeOK, NEW j \in Jobs, NEW s \in Statuses
    PROVE  /\ row[j] \in Rows
           /\ Released(row[j], s) \in Rows
           /\ Settled(row[j], s) \in Rows
           /\ [row[j] EXCEPT !.status = s] \in Rows
BY DEF JobStoreTypeOK, Rows, Released, Settled

LEMMA RetriesTyped ==
    ASSUME NEW r \in Rows, NEW n \in Nat
    PROVE  /\ [r EXCEPT !.retries = n] \in Rows
           /\ [r EXCEPT !.status = "RETRYING", !.retries = n,
                        !.worker = NoWorker, !.lease = "live"] \in Rows
BY DEF Rows, Statuses

LEMMA DoneTyped ==
    ASSUME WorkerTyped, NEW w \in Workers, Done(w)
    PROVE  WorkerTyped'
BY JobStoreAssumption
   DEF Done, To, WorkerTyped, WorkerPcs, Statuses, AgentStates, Fresh, InStepPcs, CurrentStep

LEMMA GoesTyped ==
    ASSUME WorkerTyped, NEW w \in Workers, NEW pc \in WorkerPcs \ InStepPcs,
           wpc[w] # "idle", Goes(w, pc)
    PROVE  WorkerTyped'
BY DEF Goes, To, WorkerTyped, InStepPcs, CurrentStep

LEMMA PickupTyped ==
    ASSUME JobStoreTypeOK, WorkerTyped, TimerTyped, NEW w \in Workers, PickupStep(w)
    PROVE  JobStoreTypeOK' /\ WorkerTyped' /\ TimerTyped'
<1> USE DEF WorkerPcs, PickupPcs, RunPcs, AgentPcs, DeadPcs, InStepPcs
<1>1. CASE \E j \in Jobs : GetJob(w, j)
  BY <1>1 DEF GetJob, Get, At, To, timerVars, JobStoreTypeOK, WorkerTyped, TimerTyped, CurrentStep
<1>2. CASE LoadJob(w)
  <2>1. WorkerTyped'
    BY <1>2, DoneTyped, GoesTyped DEF LoadJob, At
  <2> QED
    BY <1>2, <2>1 DEF LoadJob, jobStoreVars, timerVars, JobStoreTypeOK, TimerTyped
<1>3. CASE Acquire(w)
  <2>1. WorkerTyped'
    BY <1>3, DoneTyped, GoesTyped DEF Acquire, At
  <2>2. wjob[w] \in Jobs
    BY <1>3 DEF Acquire, At, WorkerTyped
  <2>3. row' \in [Jobs -> Rows]
    <3>1. [row[wjob[w]] EXCEPT !.worker = w, !.lease = "live"] \in Rows
      BY <2>2, ZenonT(60) DEF Rows, JobStoreTypeOK
    <3> QED
      BY <1>3, <2>2, <3>1 DEF Acquire, AcquireLease, JobStoreTypeOK
  <2> QED
    BY <1>3, <2>1, <2>3 DEF Acquire, timerVars, JobStoreTypeOK, TimerTyped
<1>4. CASE ReadJob(w)
  BY <1>4 DEF ReadJob, At, To, Status, Rows, jobStoreVars, timerVars, JobStoreTypeOK,
     WorkerTyped, TimerTyped, CurrentStep
<1>5. CASE StartJob(w)
  <2>1. wjob[w] \in Jobs
    BY <1>5 DEF StartJob, At, WorkerTyped
  <2>2. [row[wjob[w]] EXCEPT !.status = "RUNNING", !.worker = w] \in Rows
    BY <2>1, ZenonT(60) DEF JobStoreTypeOK, Rows, Statuses
  <2>3. PICK ok \in BOOLEAN :
          /\ Transition(wjob[w], wseen[w],
                        [row[wjob[w]] EXCEPT !.status = "RUNNING", !.worker = w], ok)
          /\ Goes(w, IF ok THEN "resume" ELSE "expire")
    BY <1>5 DEF StartJob
  <2>4. WorkerTyped'
    BY <1>5, <2>3, GoesTyped DEF StartJob, At
  <2> QED
    BY <1>5, <2>1, <2>2, <2>3, <2>4, TransitionTyped
       DEF StartJob, timerVars, JobStoreTypeOK, TimerTyped
<1>6. CASE GiveUp(w)
  <2>1. WorkerTyped'
    BY <1>6, GoesTyped DEF GiveUp
  <2>2. wjob[w] \in Jobs
    BY <1>6 DEF GiveUp, WorkerTyped
  <2>3. row' \in [Jobs -> Rows]
    BY <1>6, <2>2 DEF GiveUp, ExpireLease, Rows, JobStoreTypeOK
  <2> QED
    BY <1>6, <2>1, <2>3 DEF GiveUp, timerVars, JobStoreTypeOK, TimerTyped
<1>7. CASE Leave(w)
  BY <1>7, DoneTyped DEF Leave, jobStoreVars, timerVars, JobStoreTypeOK, TimerTyped
<1> QED
  BY <1>1, <1>2, <1>3, <1>4, <1>5, <1>6, <1>7 DEF PickupStep

LEMMA AgentTyped ==
    ASSUME JobStoreTypeOK, WorkerTyped, NEW w \in Workers, AgentStep(w)
    PROVE  JobStoreTypeOK' /\ WorkerTyped' /\ UNCHANGED timerVars
<1> USE JobStoreAssumption DEF WorkerPcs, PickupPcs, RunPcs, AgentPcs, DeadPcs, InStepPcs
<1>0. \A pc \in WorkerPcs : wpc[w] = pc /\ pc # "idle" => wjob[w] \in Jobs
  BY DEF WorkerTyped
<1>1. CASE ResumeJob(w)
  BY <1>0, <1>1 DEF ResumeJob, At, To, jobStoreVars, JobStoreTypeOK, WorkerTyped, CurrentStep
<1>2. CASE Abort(w)
  BY <1>2, GoesTyped DEF Abort, jobStoreVars, JobStoreTypeOK
<1>3. CASE NextStep(w)
  BY <1>3 DEF NextStep, At, Goes, To, jobStoreVars, JobStoreTypeOK, WorkerTyped, CurrentStep
<1>4. CASE CallCached(w)
  BY <1>4 DEF CallCached, At, Goes, To, jobStoreVars, JobStoreTypeOK, WorkerTyped, CurrentStep
<1>5. CASE CallTool(w)
  BY <1>0, <1>5 DEF CallTool, SaveCheckpoint, At, Goes, To, JobStoreTypeOK, WorkerTyped, CurrentStep
<1>6. CASE ToolReturns(w)
  <2>1. CurrentStep(w) \in ToolSteps /\ wstate[w] \in AgentStates
    BY <1>6 DEF ToolReturns, At, WorkerTyped
  <2>2. [wstate[w] EXCEPT !.tools = @ \cup {CurrentStep(w)}] \in AgentStates
    BY <2>1 DEF AgentStates
  <2> QED
    BY <1>6, <2>1, <2>2 DEF ToolReturns, At, To, jobStoreVars, JobStoreTypeOK, WorkerTyped, CurrentStep
<1>7. CASE RecordTool(w)
  BY <1>0, <1>7 DEF RecordTool, SaveCheckpoint, At, Goes, To, JobStoreTypeOK, WorkerTyped, CurrentStep
<1>8. CASE StepReturns(w)
  <2>1. wstate[w].done < Steps /\ wstate[w] \in AgentStates
    BY <1>8 DEF StepReturns, At, WorkerTyped
  <2>2. [wstate[w] EXCEPT !.done = @ + 1] \in AgentStates
    BY <2>1 DEF AgentStates
  <2> QED
    BY <1>8, <2>2 DEF StepReturns, At, To, jobStoreVars, JobStoreTypeOK, WorkerTyped, CurrentStep
<1>9. CASE SaveStep(w)
  BY <1>0, <1>9 DEF SaveStep, SaveCheckpoint, At, Goes, To, JobStoreTypeOK, WorkerTyped, CurrentStep
<1>10. UNCHANGED timerVars
  BY DEF AgentStep, ResumeJob, Abort, NextStep, CallCached, CallTool, ToolReturns, RecordTool,
     StepReturns, SaveStep
<1> QED
  BY <1>1, <1>2, <1>3, <1>4, <1>5, <1>6, <1>7, <1>8, <1>9, <1>10 DEF AgentStep

LEMMA RaiseTyped ==
    ASSUME WorkerTyped, NEW w \in Workers, NEW error \in {"retry", "fatal", "crash"},
           StepRaises(w, error)
    PROVE  WorkerTyped'
BY GoesTyped DEF StepRaises, WorkerPcs, PickupPcs, RunPcs, AgentPcs, DeadPcs, InStepPcs

LEMMA EndTyped ==
    ASSUME JobStoreTypeOK, WorkerTyped, TimerTyped, NEW w \in Workers, EndStep(w)
    PROVE  JobStoreTypeOK' /\ WorkerTyped' /\ TimerTyped'
<1> USE DEF WorkerPcs, PickupPcs, RunPcs, AgentPcs, DeadPcs, InStepPcs
<1> DEFINE j == wjob[w]
<1>0. wpc[w] # "idle" => j \in Jobs
  BY DEF WorkerTyped
<1>1. CASE Finish(w)
  <2>1. WorkerTyped'
    BY <1>1, GoesTyped DEF Finish, At
  <2>2. row' \in [Jobs -> Rows]
    BY <1>0, <1>1, RowsTyped, TransitionTyped DEF Finish, At, Statuses
  <2> QED
    BY <1>0, <1>1, <2>1, <2>2 DEF Finish, At, timerVars, JobStoreTypeOK, TimerTyped
<1>2. CASE Cleanup(w)
  BY <1>0, <1>2, DoneTyped, JobStoreAssumption
     DEF Cleanup, At, DeleteCheckpoint, Fresh, AgentStates, timerVars, JobStoreTypeOK, TimerTyped
<1>3. CASE CancelLoad(w)
  BY <1>0, <1>3 DEF CancelLoad, At, To, jobStoreVars, timerVars, JobStoreTypeOK, WorkerTyped,
     TimerTyped, CurrentStep
<1>4. CASE CancelSave(w)
  <2>1. WorkerTyped'
    BY <1>4, GoesTyped DEF CancelSave, At
  <2> QED
    BY <1>0, <1>4, <2>1 DEF CancelSave, At, SaveCheckpoint, timerVars, JobStoreTypeOK,
       WorkerTyped, TimerTyped
<1>5. CASE FinalizeCancel(w)
  <2>1. row' \in [Jobs -> Rows]
    BY <1>0, <1>5, RowsTyped, TransitionTyped DEF FinalizeCancel, At, Statuses
  <2> QED
    BY <1>5, <2>1, DoneTyped DEF FinalizeCancel, timerVars, JobStoreTypeOK, TimerTyped
<1>6. CASE HandleFailure(w)
  <2>1. row' \in [Jobs -> Rows]
    BY <1>0, <1>6, RowsTyped, TransitionTyped DEF HandleFailure, At, Statuses
  <2> QED
    BY <1>6, <2>1, DoneTyped DEF HandleFailure, timerVars, JobStoreTypeOK, TimerTyped
<1>7. CASE ReadRetries(w)
  BY <1>0, <1>7 DEF ReadRetries, At, To, Rows, jobStoreVars, timerVars, JobStoreTypeOK,
     WorkerTyped, TimerTyped, CurrentStep
<1>8. CASE RetryLater(w)
  <2>1. j \in Jobs /\ wretry[w] + 1 \in Nat
    BY <1>0, <1>8 DEF RetryLater, At, WorkerTyped
  <2>2. [row[j] EXCEPT !.status = "RETRYING", !.retries = wretry[w] + 1,
                       !.worker = NoWorker, !.lease = "live"] \in Rows
    BY <2>1, RetriesTyped DEF JobStoreTypeOK
  <2>3. row' \in [Jobs -> Rows]
    <3>1. \E ok \in BOOLEAN :
            Transition(j, "RUNNING",
                       [row[j] EXCEPT !.status = "RETRYING", !.retries = wretry[w] + 1,
                                      !.worker = NoWorker, !.lease = "live"], ok)
      BY <1>8 DEF RetryLater
    <3> QED
      BY <2>1, <2>2, <3>1, TransitionTyped
  <2>4. TimerTyped'
    BY <1>8, <2>1 DEF RetryLater, timerVars, TimerTyped, TimerPcs
  <2> QED
    BY <1>8, <2>3, <2>4, DoneTyped DEF RetryLater, JobStoreTypeOK
<1>9. CASE RetriesExhausted(w)
  <2>1. j \in Jobs /\ wretry[w] + 1 \in Nat
    BY <1>0, <1>9 DEF RetriesExhausted, At, WorkerTyped
  <2>2. [Released(row[j], "FAILED") EXCEPT !.retries = wretry[w] + 1] \in Rows
    BY <2>1, RowsTyped, RetriesTyped DEF Statuses
  <2>3. row' \in [Jobs -> Rows]
    <3>1. \E ok \in BOOLEAN :
            Transition(j, "RUNNING",
                       [Released(row[j], "FAILED") EXCEPT !.retries = wretry[w] + 1], ok)
      BY <1>9 DEF RetriesExhausted
    <3> QED
      BY <2>1, <2>2, <3>1, TransitionTyped
  <2>4. WorkerTyped'
    BY <1>9, GoesTyped DEF RetriesExhausted, At
  <2> QED
    BY <1>9, <2>3, <2>4 DEF RetriesExhausted, timerVars, JobStoreTypeOK, TimerTyped
<1>10. ASSUME NEW pc \in DeadPcs, NEW from \in Statuses, NEW next \in DeadPcs \cup {"idle"},
              DeadLetter(w, pc, from, next)
       PROVE  JobStoreTypeOK' /\ WorkerTyped' /\ TimerTyped'
  <2>1. row' \in [Jobs -> Rows]
    BY <1>0, <1>10, RowsTyped, TransitionTyped DEF DeadLetter, At, Statuses
  <2>2. WorkerTyped'
    BY <1>10, DoneTyped, GoesTyped DEF DeadLetter, At
  <2> QED
    BY <1>10, <2>1, <2>2 DEF DeadLetter, timerVars, JobStoreTypeOK, TimerTyped
<1>11. CASE SendToDlq(w)
  BY <1>10, <1>11 DEF SendToDlq, Statuses
<1> QED
  BY <1>1, <1>2, <1>3, <1>4, <1>5, <1>6, <1>7, <1>8, <1>9, <1>11 DEF EndStep

LEMMA BesideTyped ==
    ASSUME JobStoreTypeOK, WorkerTyped, NEW w \in Workers, BesideStep(w)
    PROVE  JobStoreTypeOK' /\ WorkerTyped' /\ UNCHANGED timerVars
<1>1. CASE Heartbeat(w)
  BY <1>1 DEF Heartbeat, RenewLease, workerVars, timerVars, JobStoreTypeOK, Rows, WorkerTyped,
     BeatPcs, CurrentStep
<1>2. CASE HeartbeatFails(w) \/ WatchCancel(w)
  BY <1>2 DEF HeartbeatFails, WatchCancel, jobStoreVars, JobStoreTypeOK, WorkerTyped, CurrentStep
<1> QED
  BY <1>1, <1>2 DEF BesideStep

LEMMA TimerStepTyped ==
    ASSUME JobStoreTypeOK, TimerTyped, NEW t \in Timers, TimerStep(t)
    PROVE  JobStoreTypeOK' /\ TimerTyped' /\ UNCHANGED workerVars
<1> DEFINE j == tjob[t]
<1>0. tpc[t] # "off" => j \in Jobs
  BY DEF TimerTyped
<1>1. CASE TimerWakes(t)
  BY <1>1 DEF TimerWakes, TimerTo, jobStoreVars, JobStoreTypeOK, TimerTyped, TimerPcs
<1>2. CASE TimerCancels(t)
  <2>1. row' \in [Jobs -> Rows]
    BY <1>0, <1>2, RowsTyped, TransitionTyped DEF TimerCancels, Statuses
  <2> QED
    BY <1>2, <2>1 DEF TimerCancels, TimerTo, JobStoreTypeOK, TimerTyped, TimerPcs
<1>3. CASE TimerRequeues(t)
  <2>1. row' \in [Jobs -> Rows]
    BY <1>0, <1>3, RowsTyped, TransitionTyped DEF TimerRequeues, Statuses
  <2> QED
    BY <1>3, <2>1 DEF TimerRequeues, TimerTo, JobStoreTypeOK, TimerTyped, TimerPcs
<1>4. CASE TimerPublishes(t)
  BY <1>0, <1>4 DEF TimerPublishes, Publish, TimerTo, JobStoreTypeOK, TimerTyped, TimerPcs
<1>5. UNCHANGED workerVars
  BY DEF TimerStep, TimerWakes, TimerCancels, TimerRequeues, TimerPublishes
<1> QED
  BY <1>1, <1>2, <1>3, <1>4, <1>5 DEF TimerStep

LEMMA ReaperStepTyped ==
    ASSUME JobStoreTypeOK, ReaperTyped, ReaperStep
    PROVE  JobStoreTypeOK' /\ ReaperTyped'
<1> USE DEF ReaperTyped, JobReaperTypeOK, Snapshots, Entries, Statuses
<1>1. CASE Scan
  BY <1>1 DEF Scan, Recoverable, Status, jobStoreVars, JobStoreTypeOK
<1>2. CASE \E e \in rtodo : CheckCancel(e)
  BY <1>2 DEF CheckCancel, jobStoreVars, JobStoreTypeOK
<1>3. CASE ReaperCancels
  <2>1. row' \in [Jobs -> Rows]
    BY <1>3, RowsTyped, TransitionTyped DEF ReaperCancels
  <2> QED
    BY <1>3, <2>1 DEF ReaperCancels, ReaperRests, NoEntry, JobStoreTypeOK
<1>4. CASE ReaperRequeues
  <2>1. row' \in [Jobs -> Rows]
    BY <1>4, RowsTyped, TransitionTyped DEF ReaperRequeues
  <2> QED
    BY <1>4, <2>1 DEF ReaperRequeues, ReaperRests, NoEntry, JobStoreTypeOK
<1>5. CASE ReaperPublishes
  BY <1>5 DEF ReaperPublishes, Publish, ReaperRests, NoEntry, JobStoreTypeOK
<1> QED
  BY <1>1, <1>2, <1>3, <1>4, <1>5 DEF ReaperStep

LEMMA ClientStepTyped ==
    ASSUME JobStoreTypeOK, ClientTyped, NEW c \in Clients, ClientStep(c)
    PROVE  JobStoreTypeOK' /\ ClientTyped'
<1> USE DEF ClientTyped, JobClientTypeOK, ClientPcs
<1> DEFINE j == cjob[c]
<1>0. cpc[c] # "idle" => j \in Jobs
  OBVIOUS
<1>1. CASE ClientPublishes(c)
  BY <1>0, <1>1 DEF ClientPublishes, Publish, Answers, JobStoreTypeOK
<1>2. CASE CancelQueued(c)
  <2>1. row' \in [Jobs -> Rows]
    BY <1>0, <1>2, RowsTyped, TransitionTyped DEF CancelQueued, Statuses
  <2> QED
    BY <1>0, <1>2, <2>1 DEF CancelQueued, Answers, JobStoreTypeOK
<1>3. CASE CancelFlag(c)
  BY <1>0, <1>3, ZenonT(60) DEF CancelFlag, SetCancelRequested, Answers, JobStoreTypeOK, Rows
<1>4. CASE Requeue(c)
  <2>1. [Settled(row[j], "QUEUED") EXCEPT !.retries = 0] \in Rows
    BY <1>0, <1>4, RowsTyped, RetriesTyped DEF Requeue, Statuses
  <2>2. row' \in [Jobs -> Rows]
    BY <1>0, <1>4, <2>1, TransitionTyped DEF Requeue
  <2> QED
    BY <1>4, <2>2 DEF Requeue, Answers, JobStoreTypeOK
<1> QED
  BY <1>1, <1>2, <1>3, <1>4 DEF ClientStep

LEMMA BeginsTyped ==
    ASSUME JobStoreTypeOK, ClientTyped, NEW c \in Clients, NEW j \in Jobs,
           Create(c, j) \/ ReadForCancel(c, j) \/ ReadForRequeue(c, j)
    PROVE  JobStoreTypeOK' /\ ClientTyped'
<1> USE DEF Begins, ClientTyped, JobClientTypeOK, ClientPcs, JobStoreTypeOK
<1>1. CASE Create(c, j)
  <2>1. [NoRow EXCEPT !.status = "QUEUED"] \in Rows
    BY DEF NoRow, Rows, Statuses
  <2> QED
    BY <1>1, <2>1 DEF Create
<1>2. CASE ReadForCancel(c, j) \/ ReadForRequeue(c, j)
  BY <1>2 DEF ReadForCancel, ReadForRequeue, jobStoreVars
<1> QED
  BY <1>1, <1>2

LEMMA CrashTyped ==
    ASSUME Typed, ProcessCrash
    PROVE  Typed'
BY JobStoreAssumption
   DEF Typed, ProcessCrash, WorkersStop, ReaperStops, ClientsStop, JobStoreTypeOK, WorkerTyped,
       WorkerPcs, InStepPcs, Statuses, Fresh, AgentStates, TimerTyped, TimerPcs, ReaperTyped,
       JobReaperTypeOK, Entries, NoEntry, ClientTyped, JobClientTypeOK, ClientPcs, BudgetTyped

LEMMA TypedNext == Typed /\ [Next]_vars => Typed'
<1> SUFFICES ASSUME Typed, [Next]_vars PROVE Typed'
  OBVIOUS
<1>1. ASSUME NEW w \in Workers, WorkerMove(w) PROVE Typed'
  <2>1. JobStoreTypeOK' /\ WorkerTyped' /\ TimerTyped'
    <3>1. CASE PickupStep(w) \/ EndStep(w)
      BY <3>1, PickupTyped, EndTyped DEF Typed
    <3>2. CASE AgentStep(w)
      BY <3>2, AgentTyped DEF Typed, TimerTyped, timerVars
    <3>3. CASE \E error \in {"retry", "fatal"} : StepRaises(w, error)
      BY <3>3, RaiseTyped
         DEF Typed, StepRaises, jobStoreVars, timerVars, JobStoreTypeOK, TimerTyped
    <3> QED
      BY <1>1, <3>1, <3>2, <3>3 DEF WorkerMove
  <2> QED
    BY <1>1, <2>1 DEF WorkerMove, Typed, reaperVars, clientVars, budgetVars, ReaperTyped,
       JobReaperTypeOK, ClientTyped, JobClientTypeOK, BudgetTyped
<1>2. ASSUME NEW w \in Workers, AgentCrash(w) PROVE Typed'
  <2>1. WorkerTyped'
    BY <1>2, RaiseTyped DEF AgentCrash, Typed
  <2> QED
    BY <1>2, <2>1 DEF AgentCrash, StepRaises, Typed, jobStoreVars, timerVars, reaperVars,
       clientVars, JobStoreTypeOK, TimerTyped, ReaperTyped, JobReaperTypeOK, ClientTyped,
       JobClientTypeOK, BudgetTyped
<1>3. ASSUME NEW w \in Workers, BesideMove(w) PROVE Typed'
  BY <1>3, BesideTyped DEF BesideMove, Typed, timerVars, reaperVars, clientVars, budgetVars,
     TimerTyped, ReaperTyped, JobReaperTypeOK, ClientTyped, JobClientTypeOK, BudgetTyped
<1>4. ASSUME NEW t \in Timers, TimerMove(t) PROVE Typed'
  <2>1. JobStoreTypeOK' /\ TimerTyped' /\ UNCHANGED workerVars
    BY <1>4, TimerStepTyped DEF TimerMove, Typed
  <2>2. WorkerTyped'
    BY <2>1 DEF Typed, WorkerTyped, workerVars, CurrentStep
  <2> QED
    BY <1>4, <2>1, <2>2 DEF TimerMove, Typed, reaperVars, clientVars, budgetVars, ReaperTyped,
       JobReaperTypeOK, ClientTyped, JobClientTypeOK, BudgetTyped
<1>5. ASSUME ReaperMove PROVE Typed'
  <2>1. JobStoreTypeOK' /\ ReaperTyped'
    BY <1>5, ReaperStepTyped DEF ReaperMove, Typed
  <2> QED
    BY <1>5, <2>1 DEF ReaperMove, Typed, workerVars, timerVars, clientVars, budgetVars,
       WorkerTyped, CurrentStep, TimerTyped, ClientTyped, JobClientTypeOK, BudgetTyped
<1>6. ASSUME NEW c \in Clients,
             ClientMove(c) \/ ClientCreates(c) \/ ClientCancels(c) \/ ClientRequeues(c)
      PROVE  Typed'
  <2>1. JobStoreTypeOK' /\ ClientTyped'
    BY <1>6, ClientStepTyped, BeginsTyped
       DEF ClientMove, ClientCreates, ClientCancels, ClientRequeues, Typed
  <2>2. UNCHANGED <<workerVars, timerVars, reaperVars>> /\ BudgetTyped'
    BY <1>6 DEF ClientMove, ClientCreates, ClientCancels, ClientRequeues, Typed, BudgetTyped,
       budgetVars
  <2> QED
    BY <2>1, <2>2 DEF Typed, workerVars, timerVars, reaperVars, WorkerTyped, CurrentStep,
       TimerTyped, ReaperTyped, JobReaperTypeOK
<1>7. ASSUME NEW j \in Jobs, LeaseExpires(j) PROVE Typed'
  <2>1. JobStoreTypeOK' /\ BudgetTyped'
    BY <1>7 DEF LeaseExpires, Typed, JobStoreTypeOK, Rows, BudgetTyped
  <2> QED
    BY <1>7, <2>1 DEF LeaseExpires, Typed, workerVars, timerVars, reaperVars, clientVars,
       WorkerTyped, CurrentStep, TimerTyped, ReaperTyped, JobReaperTypeOK, ClientTyped,
       JobClientTypeOK
<1>8. CASE UNCHANGED vars
  BY <1>8 DEF vars, jobStoreVars, workerVars, timerVars, reaperVars, clientVars, budgetVars, Typed,
     JobStoreTypeOK, WorkerTyped, CurrentStep, TimerTyped, ReaperTyped, JobReaperTypeOK,
     ClientTyped, JobClientTypeOK, BudgetTyped
<1> QED
  BY <1>1, <1>2, <1>3, <1>4, <1>5, <1>6, <1>7, <1>8, CrashTyped DEF Next

LEMMA AlwaysTyped == Spec => []Typed
BY TypedInit, TypedNext, PTL DEF Spec

\* The variables of JobQueue always have their types.
THEOREM JobTypeCorrect == Spec => []TypeOK
<1>1. Typed => TypeOK
  BY DEF Typed, TypeOK, WorkerTyped, TimerTyped, ReaperTyped, ClientTyped, BudgetTyped,
     JobWorkerTypeOK
<1> QED
  BY <1>1, AlwaysTyped, PTL

(***************************************************************************)
(* SingleDispatch is inductive.  A job gets a holder only in the step that *)
(* makes it QUEUED, from a status in which it has none; a message only     *)
(* replaces a holder, and a holder a message.                              *)
(***************************************************************************)
Waiting == {"QUEUED", "CANCELLED"}

Solo(j) ==
    /\ queue[j] <= 1
    /\ queue[j] = 1 => Holders(j) = {}
    /\ \A x, y \in Holders(j) : x = y
    /\ Status(j) \notin Waiting => queue[j] = 0 /\ Holders(j) = {}

LEMMA DispatchIsSolo == SingleDispatch <=> \A j \in Jobs : Solo(j)
BY DEF SingleDispatch, Solo, Waiting

\* Every holder after the step was one before it, of the same job.
NoNewHolder ==
    /\ \A w \in Workers : wpc'[w] \in PickupPcs => wpc[w] \in PickupPcs /\ wjob'[w] = wjob[w]
    /\ \A t \in Timers : tpc'[t] = "publish" => tpc[t] = "publish" /\ tjob'[t] = tjob[t]
    /\ \A c \in Clients : cpc'[c] \in {"create", "publish"}
                             => cpc[c] \in {"create", "publish"} /\ cjob'[c] = cjob[c]
    /\ rpc' = "publish" => rpc = "publish" /\ rseen'.job = rseen.job

LEMMA NoneNew ==
    ASSUME NoNewHolder, NEW j \in Jobs
    PROVE  Holders(j)' \subseteq Holders(j)
BY DEF NoNewHolder, Holders

LEMMA SoloKept ==
    ASSUME JobStoreTypeOK, NEW j \in Jobs, Solo(j), queue'[j] = queue[j],
           Holders(j)' \subseteq Holders(j),
           \/ Status(j)' \in Waiting
           \/ Status(j) \notin Waiting
           \/ queue[j] = 0 /\ Holders(j)' = {}
    PROVE  Solo(j)'
BY DEF Solo, JobStoreTypeOK

LEMMA AllKept ==
    ASSUME JobStoreTypeOK, SingleDispatch, NoNewHolder, queue' = queue,
           \A j \in Jobs : Status(j) \in Waiting => Status(j)' \in Waiting
    PROVE  SingleDispatch'
<1>1. \A j \in Jobs : Solo(j)
  BY DispatchIsSolo
<1>2. \A j \in Jobs : Solo(j)'
  BY <1>1, NoneNew, SoloKept
<1> QED
  BY <1>2 DEF SingleDispatch, Solo, Waiting

LEMMA SoloTaken ==
    ASSUME JobStoreTypeOK, NEW j \in Jobs, Solo(j), queue[j] > 0, queue'[j] = queue[j] - 1,
           NEW x, Holders(j)' \subseteq Holders(j) \cup {x}, Status(j)' = Status(j)
    PROVE  Solo(j)'
BY DEF Solo, JobStoreTypeOK

LEMMA SoloPublished ==
    ASSUME JobStoreTypeOK, NEW j \in Jobs, Solo(j), NEW x \in Holders(j),
           queue'[j] = queue[j] + 1, Holders(j)' \subseteq Holders(j) \ {x},
           Status(j)' = Status(j)
    PROVE  Solo(j)'
BY DEF Solo, JobStoreTypeOK

LEMMA SoloQueued ==
    ASSUME JobStoreTypeOK, NEW j \in Jobs, Solo(j), Status(j) \notin Waiting,
           Status(j)' \in Waiting, queue'[j] = queue[j],
           NEW x, Holders(j)' \subseteq Holders(j) \cup {x}
    PROVE  Solo(j)'
BY DEF Solo, JobStoreTypeOK

\* A transition from a status without a dispatch never reaches another one
\* with a waiting status.
LEMMA TransitionKeeps ==
    ASSUME JobStoreTypeOK, NEW j \in Jobs, NEW from, NEW r, NEW ok, Transition(j, from, r, ok),
           from \notin Waiting \/ r.status \in Waiting
    PROVE  \A k \in Jobs : Status(k) \in Waiting => Status(k)' \in Waiting
BY DEF Transition, Status, JobStoreTypeOK

LEMMA TransitionOthers ==
    ASSUME JobStoreTypeOK, NEW j \in Jobs, NEW from, NEW r, NEW ok, Transition(j, from, r, ok)
    PROVE  /\ \A k \in Jobs \ {j} : row'[k] = row[k]
           /\ ok => row'[j] = r /\ Status(j) = from
           /\ ~ok => row' = row /\ Status(j) # from
BY DEF Transition, Status, JobStoreTypeOK

LEMMA StatusOf ==
    ASSUME JobStoreTypeOK, NEW j \in Jobs, NEW s
    PROVE  /\ Released(row[j], s).status = s
           /\ Settled(row[j], s).status = s
BY DEF JobStoreTypeOK, Rows, Released, Settled

(***************************************************************************)
(* The steps that leave the dispatches alone.                              *)
(***************************************************************************)
LEMMA AgentDispatch ==
    ASSUME Typed, SingleDispatch, NEW w \in Workers,
           \/ AgentStep(w) \/ BesideStep(w)
           \/ \E error \in {"retry", "fatal", "crash"} : StepRaises(w, error),
           UNCHANGED <<rpc, rseen, clientVars>>
    PROVE  SingleDispatch'
<1> USE DEF PickupPcs
<1>1. NoNewHolder
  BY DEF Typed, WorkerTyped, TimerTyped, AgentStep, ResumeJob, Abort, NextStep, CallCached,
     CallTool, ToolReturns, RecordTool, StepReturns, SaveStep, BesideStep, Heartbeat,
     HeartbeatFails, WatchCancel, StepRaises, At, Goes, To, workerVars, timerVars, clientVars,
     NoNewHolder
<1>2. queue' = queue /\ \A j \in Jobs : Status(j)' = Status(j)
  BY DEF AgentStep, ResumeJob, Abort, NextStep, CallCached, CallTool, ToolReturns, RecordTool,
     StepReturns, SaveStep, BesideStep, Heartbeat, RenewLease, HeartbeatFails, WatchCancel,
     StepRaises, jobStoreVars, Status, Typed, JobStoreTypeOK, Rows
<1> QED
  BY <1>1, <1>2, AllKept DEF Typed

LEMMA EndDispatch ==
    ASSUME Typed, SingleDispatch, NEW w \in Workers, EndStep(w),
           UNCHANGED <<rpc, rseen, clientVars>>
    PROVE  SingleDispatch'
<1> USE DEF PickupPcs, DeadPcs
<1> DEFINE j == wjob[w]
<1>0. JobStoreTypeOK /\ (wpc[w] # "idle" => j \in Jobs)
  BY DEF Typed, WorkerTyped
<1>1. NoNewHolder
  BY DEF Typed, WorkerTyped, TimerTyped, EndStep, Finish, Cleanup, CancelLoad, CancelSave,
     FinalizeCancel, HandleFailure, ReadRetries, RetryLater, RetriesExhausted, SendToDlq,
     DeadLetter, At, Done, Goes, To, timerVars, clientVars, NoNewHolder
<1>2. queue' = queue
  BY DEF EndStep, Finish, Cleanup, CancelLoad, CancelSave, FinalizeCancel, HandleFailure,
     ReadRetries, RetryLater, RetriesExhausted, SendToDlq, DeadLetter, jobStoreVars
<1>3. \/ row' = row
      \/ /\ j \in Jobs
         /\ \E from \in {"RUNNING", "RETRYING", "FAILED"} : \E r : \E ok \in BOOLEAN :
               Transition(j, from, r, ok)
  BY <1>0 DEF EndStep, Finish, Cleanup, CancelLoad, CancelSave, FinalizeCancel, HandleFailure,
     ReadRetries, RetryLater, RetriesExhausted, SendToDlq, DeadLetter, At, jobStoreVars
<1>4. \A k \in Jobs : Status(k) \in Waiting => Status(k)' \in Waiting
  <2>1. CASE row' = row
    BY <2>1 DEF Status
  <2>2. CASE row' # row
    BY <1>0, <1>3, <2>2, TransitionKeeps DEF Waiting
  <2> QED
    BY <2>1, <2>2
<1> QED
  BY <1>0, <1>1, <1>2, <1>4, AllKept

(***************************************************************************)
(* The steps that move a dispatch from one place to the next.              *)
(***************************************************************************)
LEMMA DispatchInit == Init => SingleDispatch
BY DEF Init, JobStoreInit, NoRow, JobWorkerInit, JobReaperInit, JobClientInit, SingleDispatch,
   Holders, PickupPcs, Status

LEMMA PickupDispatch ==
    ASSUME Typed, SingleDispatch, NEW w \in Workers, PickupStep(w),
           UNCHANGED <<rpc, rseen, clientVars>>
    PROVE  SingleDispatch'
<1> USE DEF PickupPcs
<1> DEFINE me == <<"worker", w>>
<1>0. /\ JobStoreTypeOK
      /\ wpc[w] # "idle" => wjob[w] \in Jobs
      /\ \A j \in Jobs : Solo(j)
  BY DispatchIsSolo DEF Typed, WorkerTyped
<1>1. ASSUME NEW j \in Jobs, GetJob(w, j) PROVE SingleDispatch'
  <2>1. queue[j] > 0 /\ queue'[j] = queue[j] - 1
    BY <1>0, <1>1 DEF GetJob, Get, JobStoreTypeOK
  <2>2. Holders(j)' \subseteq Holders(j) \cup {me}
    BY <1>1 DEF GetJob, At, To, timerVars, clientVars, Typed, WorkerTyped, Holders
  <2>3. Solo(j)'
    BY <1>0, <1>1, <2>1, <2>2, SoloTaken DEF GetJob, Status
  <2>4. ASSUME NEW k \in Jobs \ {j} PROVE Solo(k)'
    <3>1. queue'[k] = queue[k] /\ Status(k)' = Status(k)
      BY <1>0, <1>1 DEF GetJob, Get, JobStoreTypeOK, Status
    <3>2. Holders(k)' \subseteq Holders(k)
      BY <1>1 DEF GetJob, At, To, timerVars, clientVars, Typed, WorkerTyped, Holders
    <3> QED
      BY <1>0, <3>1, <3>2, SoloKept
  <2> QED
    BY <2>3, <2>4 DEF SingleDispatch, Solo, Waiting
<1>2. CASE StartJob(w)
  <2>0. PICK j \in Jobs : j = wjob[w]
    BY <1>0, <1>2 DEF StartJob, At
  <2>1. me \in Holders(j)
    BY <1>2, <2>0 DEF StartJob, At, Holders
  <2>2. queue' = queue /\ queue[j] = 0
    BY <1>0, <1>2, <2>1 DEF StartJob, Solo, JobStoreTypeOK
  <2>3. \A k \in Jobs : Holders(k)' \subseteq Holders(k) \ {me}
    <3>1. wpc'[w] \notin PickupPcs /\ wjob' = wjob /\ \A v \in Workers \ {w} : wpc'[v] = wpc[v]
      BY <1>2 DEF StartJob, Goes, To, Typed, WorkerTyped
    <3> QED
      BY <1>2, <3>1 DEF StartJob, timerVars, clientVars, Holders
  <2>4. Holders(j)' = {}
    BY <1>0, <2>1, <2>3 DEF Solo
  <2>5. \A k \in Jobs \ {j} : row'[k] = row[k]
    BY <1>0, <1>2, <2>0, TransitionOthers DEF StartJob
  <2>6. ASSUME NEW k \in Jobs \ {j} PROVE Solo(k)'
    <3>1. Status(k)' = Status(k)
      BY <2>5 DEF Status
    <3> QED
      BY <1>0, <2>2, <2>3, <3>1, SoloKept
  <2>7. Solo(j)'
    BY <2>2, <2>4 DEF Solo
  <2> QED
    BY <2>6, <2>7 DEF SingleDispatch, Solo, Waiting
<1>3. CASE LoadJob(w) \/ Acquire(w) \/ ReadJob(w) \/ GiveUp(w) \/ Leave(w)
  <2>1. NoNewHolder
    BY <1>3 DEF Typed, WorkerTyped, LoadJob, Acquire, ReadJob, GiveUp, Leave, At, Done, Goes, To,
       timerVars, clientVars, NoNewHolder
  <2>2. queue' = queue
    BY <1>3 DEF LoadJob, Acquire, ReadJob, GiveUp, Leave, jobStoreVars
  <2>3. \A k \in Jobs : Status(k)' = Status(k)
    <3>1. CASE Acquire(w)
      <4>1. PICK j \in Jobs : j = wjob[w]
        BY <1>0, <3>1 DEF Acquire, At
      <4>2. [row[j] EXCEPT !.worker = w, !.lease = "live"].status = row[j].status
        BY <1>0 DEF JobStoreTypeOK, Rows
      <4> QED
        BY <1>0, <3>1, <4>1, <4>2 DEF Acquire, AcquireLease, Status, JobStoreTypeOK
    <3>2. CASE GiveUp(w)
      BY <1>0, <3>2 DEF GiveUp, ExpireLease, Status, JobStoreTypeOK, Rows
    <3>3. CASE LoadJob(w) \/ ReadJob(w) \/ Leave(w)
      BY <3>3 DEF LoadJob, ReadJob, Leave, jobStoreVars, Status
    <3> QED
      BY <1>3, <3>1, <3>2, <3>3
  <2> QED
    BY <1>0, <2>1, <2>2, <2>3, AllKept
<1> QED
  BY <1>1, <1>2, <1>3 DEF PickupStep

\* A transition that makes a job QUEUED, with x its only new holder.
LEMMA AllQueued ==
    ASSUME JobStoreTypeOK, SingleDispatch, NEW j \in Jobs, NEW from, from \notin Waiting,
           NEW r, r.status \in Waiting, NEW ok, Transition(j, from, r, ok), queue' = queue,
           NEW x,
           \A k \in Jobs : Holders(k)' \subseteq Holders(k) \cup (IF ok /\ k = j THEN {x} ELSE {})
    PROVE  SingleDispatch'
<1>1. \A k \in Jobs : Solo(k)
  BY DispatchIsSolo
<1>2. ASSUME NEW k \in Jobs, ~(ok /\ k = j) PROVE Solo(k)'
  <2>1. row'[k] = row[k]
    BY <1>2, TransitionOthers
  <2> QED
    BY <1>1, <1>2, <2>1, SoloKept DEF Status
<1>3. ASSUME ok PROVE Solo(j)'
  <2>1. Status(j) \notin Waiting /\ Status(j)' \in Waiting
    BY <1>3, TransitionOthers DEF Status
  <2>2. Holders(j)' \subseteq Holders(j) \cup {x}
    BY <1>3
  <2> QED
    BY <1>1, <2>1, <2>2, SoloQueued
<1> QED
  BY <1>2, <1>3 DEF SingleDispatch, Solo, Waiting

\* A message of j published by its holder x.
LEMMA AllPublished ==
    ASSUME JobStoreTypeOK, SingleDispatch, NEW j \in Jobs, Publish(j), row' = row,
           NEW x \in Holders(j), Holders(j)' \subseteq Holders(j) \ {x},
           \A k \in Jobs \ {j} : Holders(k)' \subseteq Holders(k)
    PROVE  SingleDispatch'
<1>1. \A k \in Jobs : Solo(k)
  BY DispatchIsSolo
<1>2. queue'[j] = queue[j] + 1 /\ \A k \in Jobs \ {j} : queue'[k] = queue[k]
  BY DEF Publish, JobStoreTypeOK
<1>3. Solo(j)'
  BY <1>1, <1>2, SoloPublished DEF Status
<1>4. \A k \in Jobs \ {j} : Solo(k)'
  BY <1>1, <1>2, SoloKept DEF Status
<1> QED
  BY <1>3, <1>4 DEF SingleDispatch, Solo, Waiting

LEMMA TimerDispatch ==
    ASSUME Typed, SingleDispatch, NEW t \in Timers, TimerStep(t),
           UNCHANGED <<rpc, rseen, clientVars>>
    PROVE  SingleDispatch'
<1> DEFINE j == tjob[t]
<1> DEFINE me == <<"timer", t>>
<1>0. JobStoreTypeOK /\ (tpc[t] # "off" => j \in Jobs)
  BY DEF Typed, TimerTyped
<1>1. CASE TimerWakes(t) \/ TimerCancels(t)
  <2>1. NoNewHolder
    BY <1>1 DEF TimerWakes, TimerCancels, TimerTo, workerVars, clientVars, Typed, TimerTyped,
       NoNewHolder
  <2>2. queue' = queue
    BY <1>1 DEF TimerWakes, TimerCancels, jobStoreVars
  <2>3. \A k \in Jobs : Status(k) \in Waiting => Status(k)' \in Waiting
    BY <1>0, <1>1, TransitionKeeps DEF TimerWakes, TimerCancels, jobStoreVars, Status, Waiting
  <2> QED
    BY <1>0, <2>1, <2>2, <2>3, AllKept
<1>2. CASE TimerRequeues(t)
  <2>0. PICK k \in Jobs : k = tjob[t]
    BY <1>0, <1>2 DEF TimerRequeues
  <2> DEFINE r == Settled(row[k], "QUEUED")
  <2>1. PICK ok \in BOOLEAN :
          Transition(k, "RETRYING", r, ok) /\ TimerTo(t, IF ok THEN "publish" ELSE "off")
    BY <1>2, <2>0 DEF TimerRequeues
  <2>2. \A l \in Jobs : Holders(l)' \subseteq Holders(l) \cup (IF ok /\ l = k THEN {me} ELSE {})
    BY <1>2, <2>0, <2>1 DEF TimerRequeues, TimerTo, workerVars, clientVars, Typed, TimerTyped, Holders
  <2>3. queue' = queue
    BY <1>2 DEF TimerRequeues
  <2>4. r.status \in Waiting /\ "RETRYING" \notin Waiting
    BY <1>0, StatusOf DEF Waiting
  <2> HIDE DEF r, me
  <2> QED
    BY <1>0, <2>1, <2>2, <2>3, <2>4, AllQueued
<1>3. CASE TimerPublishes(t)
  <2>1. j \in Jobs /\ me \in Holders(j) /\ Publish(j) /\ row' = row
    BY <1>0, <1>3 DEF TimerPublishes, Holders
  <2>2. \A k \in Jobs : Holders(k)' \subseteq Holders(k) \ {me}
    BY <1>3 DEF TimerPublishes, TimerTo, workerVars, clientVars, Typed, TimerTyped, Holders
  <2> QED
    BY <1>0, <2>1, <2>2, AllPublished
<1> QED
  BY <1>1, <1>2, <1>3 DEF TimerStep

LEMMA ReaperDispatch ==
    ASSUME Typed, SingleDispatch, ReaperStep, UNCHANGED <<workerVars, timerVars, clientVars>>
    PROVE  SingleDispatch'
<1> DEFINE j == rseen.job
<1> DEFINE me == <<"reaper", "reaper">>
<1>0. /\ JobStoreTypeOK
      /\ rpc # "idle" => j \in Jobs /\ rseen.status \notin Waiting
  BY DEF Typed, ReaperTyped, Snapshots, Waiting
<1>1. CASE Scan \/ (\E e \in rtodo : CheckCancel(e)) \/ ReaperCancels
  <2>1. NoNewHolder
    BY <1>1 DEF Scan, CheckCancel, ReaperCancels, ReaperRests, workerVars, timerVars, clientVars,
       NoNewHolder
  <2>2. queue' = queue
    BY <1>1 DEF Scan, CheckCancel, ReaperCancels, jobStoreVars
  <2>3. \A k \in Jobs : Status(k) \in Waiting => Status(k)' \in Waiting
    BY <1>0, <1>1, TransitionKeeps DEF Scan, CheckCancel, ReaperCancels, jobStoreVars, Status
  <2> QED
    BY <1>0, <2>1, <2>2, <2>3, AllKept
<1>2. CASE ReaperRequeues
  <2>0. PICK k \in Jobs, from \in {"RUNNING", "RETRYING"} : k = rseen.job /\ from = rseen.status
    BY <1>2 DEF ReaperRequeues, Typed, ReaperTyped, Snapshots
  <2> DEFINE r == Settled(row[k], "QUEUED")
  <2>1. PICK ok \in BOOLEAN :
          /\ Transition(k, from, r, ok)
          /\ IF ok THEN rpc' = "publish" /\ UNCHANGED <<rtodo, rseen>> ELSE ReaperRests
    BY <1>2, <2>0 DEF ReaperRequeues
  <2>2. \A l \in Jobs : Holders(l)' \subseteq Holders(l) \cup (IF ok /\ l = k THEN {me} ELSE {})
    BY <1>2, <2>0, <2>1 DEF ReaperRests, workerVars, timerVars, clientVars, Holders
  <2>3. queue' = queue
    BY <1>2 DEF ReaperRequeues
  <2>4. r.status \in Waiting /\ from \notin Waiting
    BY <1>0, StatusOf DEF Waiting
  <2>5. Transition(k, from, r, ok)
    BY <2>1
  <2> HIDE DEF r, me
  <2> QED
    BY <1>0, <2>2, <2>3, <2>4, <2>5, AllQueued
<1>3. CASE ReaperPublishes
  <2>1. j \in Jobs /\ me \in Holders(j) /\ Publish(j) /\ row' = row
    BY <1>0, <1>3 DEF ReaperPublishes, Holders
  <2>2. \A k \in Jobs : Holders(k)' \subseteq Holders(k) \ {me}
    BY <1>3 DEF ReaperPublishes, ReaperRests, workerVars, timerVars, clientVars, Holders
  <2> QED
    BY <1>0, <2>1, <2>2, AllPublished
<1> QED
  BY <1>1, <1>2, <1>3 DEF ReaperStep

LEMMA ClientDispatch ==
    ASSUME Typed, SingleDispatch, NEW c \in Clients, ClientStep(c),
           UNCHANGED <<workerVars, timerVars, rpc, rseen>>
    PROVE  SingleDispatch'
<1> DEFINE j == cjob[c]
<1> DEFINE me == <<"client", c>>
<1>0. JobStoreTypeOK /\ (cpc[c] # "idle" => j \in Jobs)
  BY DEF Typed, ClientTyped
<1>1. CASE ClientPublishes(c)
  <2>1. j \in Jobs /\ me \in Holders(j) /\ Publish(j) /\ row' = row
    BY <1>0, <1>1 DEF ClientPublishes, Holders
  <2>2. \A k \in Jobs : Holders(k)' \subseteq Holders(k) \ {me}
    BY <1>1 DEF ClientPublishes, Answers, workerVars, timerVars, Typed, ClientTyped,
       JobClientTypeOK, Holders
  <2> QED
    BY <1>0, <2>1, <2>2, AllPublished
<1>2. CASE CancelQueued(c) \/ CancelFlag(c)
  <2>1. NoNewHolder
    BY <1>2 DEF CancelQueued, CancelFlag, Answers, workerVars, timerVars, Typed, ClientTyped,
       JobClientTypeOK, NoNewHolder
  <2>2. queue' = queue
    BY <1>2 DEF CancelQueued, CancelFlag
  <2>3. \A k \in Jobs : Status(k) \in Waiting => Status(k)' \in Waiting
    <3>1. CASE CancelQueued(c)
      <4>1. j \in Jobs /\ [row[j] EXCEPT !.status = "CANCELLED"].status \in Waiting
        BY <1>0, <3>1 DEF CancelQueued, JobStoreTypeOK, Rows, Waiting
      <4> QED
        BY <1>0, <3>1, <4>1, TransitionKeeps DEF CancelQueued
    <3>2. CASE CancelFlag(c)
      BY <1>0, <3>2 DEF CancelFlag, SetCancelRequested, Status, JobStoreTypeOK, Rows
    <3> QED
      BY <1>2, <3>1, <3>2
  <2> QED
    BY <1>0, <2>1, <2>2, <2>3, AllKept
<1>3. CASE Requeue(c)
  <2>0. PICK k \in Jobs : k = cjob[c]
    BY <1>0, <1>3 DEF Requeue
  <2> DEFINE r == [Settled(row[k], "QUEUED") EXCEPT !.retries = 0]
  <2>1. PICK ok \in BOOLEAN :
          /\ Transition(k, "DEAD", r, ok)
          /\ IF ok
               THEN /\ cpc' = [cpc EXCEPT ![c] = "publish"]
                    /\ asked' = asked \ {k}
                    /\ UNCHANGED cjob
               ELSE Answers(c) /\ UNCHANGED asked
    BY <1>3, <2>0 DEF Requeue
  <2>2. \A l \in Jobs : Holders(l)' \subseteq Holders(l) \cup (IF ok /\ l = k THEN {me} ELSE {})
    BY <2>0, <2>1 DEF Answers, workerVars, timerVars, Typed, ClientTyped, JobClientTypeOK, Holders
  <2>3. queue' = queue
    BY <1>3 DEF Requeue
  <2>4. r.status \in Waiting /\ "DEAD" \notin Waiting
    <3>1. Settled(row[k], "QUEUED") \in Rows
      BY <1>0, RowsTyped DEF Statuses
    <3> QED
      BY <1>0, <3>1, StatusOf DEF Waiting, Rows
  <2>5. Transition(k, "DEAD", r, ok)
    BY <2>1
  <2> HIDE DEF r, me
  <2> QED
    BY <1>0, <2>2, <2>3, <2>4, <2>5, AllQueued
<1> QED
  BY <1>1, <1>2, <1>3 DEF ClientStep

LEMMA BeginsDispatch ==
    ASSUME Typed, SingleDispatch, NEW c \in Clients, NEW j \in Jobs,
           Create(c, j) \/ ReadForCancel(c, j) \/ ReadForRequeue(c, j),
           UNCHANGED <<workerVars, timerVars, rpc, rseen>>
    PROVE  SingleDispatch'
<1> USE DEF Begins
<1>0. JobStoreTypeOK
  BY DEF Typed
<1>1. CASE Create(c, j)
  <2> DEFINE r == [NoRow EXCEPT !.status = "QUEUED"]
  <2>1. Transition(j, "ABSENT", r, TRUE)
    BY <1>1 DEF Create, Transition
  <2>2. \A k \in Jobs : Holders(k)' \subseteq Holders(k) \cup (IF TRUE /\ k = j THEN {<<"client", c>>} ELSE {})
    BY <1>1 DEF Create, workerVars, timerVars, Typed, ClientTyped, JobClientTypeOK, Holders
  <2>3. r.status \in Waiting /\ "ABSENT" \notin Waiting
    BY DEF NoRow, Waiting
  <2>4. queue' = queue
    BY <1>1 DEF Create
  <2> QED
    BY <1>0, <2>1, <2>2, <2>3, <2>4, AllQueued
<1>2. CASE ReadForCancel(c, j) \/ ReadForRequeue(c, j)
  <2>1. NoNewHolder
    BY <1>2 DEF ReadForCancel, ReadForRequeue, workerVars, timerVars, Typed, ClientTyped,
       JobClientTypeOK, NoNewHolder
  <2> QED
    BY <1>0, <1>2, <2>1, AllKept DEF ReadForCancel, ReadForRequeue, jobStoreVars, Status
<1> QED
  BY <1>1, <1>2

LEMMA DispatchNext == Typed /\ SingleDispatch /\ [Next]_vars => SingleDispatch'
<1> SUFFICES ASSUME Typed, SingleDispatch, [Next]_vars PROVE SingleDispatch'
  OBVIOUS
<1>0. JobStoreTypeOK
  BY DEF Typed
<1>1. ASSUME NEW w \in Workers, WorkerMove(w) \/ AgentCrash(w) \/ BesideMove(w)
      PROVE  SingleDispatch'
  <2>1. UNCHANGED <<rpc, rseen, clientVars>>
    BY <1>1 DEF WorkerMove, AgentCrash, BesideMove, reaperVars
  <2> QED
    BY <1>1, <2>1, PickupDispatch, AgentDispatch, EndDispatch DEF WorkerMove, AgentCrash, BesideMove
<1>2. ASSUME NEW t \in Timers, TimerMove(t) PROVE SingleDispatch'
  BY <1>2, TimerDispatch DEF TimerMove, reaperVars
<1>3. CASE ReaperMove
  BY <1>3, ReaperDispatch DEF ReaperMove
<1>4. ASSUME NEW c \in Clients,
             ClientMove(c) \/ ClientCreates(c) \/ ClientCancels(c) \/ ClientRequeues(c)
      PROVE  SingleDispatch'
  <2>1. UNCHANGED <<workerVars, timerVars, rpc, rseen>>
    BY <1>4 DEF ClientMove, ClientCreates, ClientCancels, ClientRequeues, reaperVars
  <2> QED
    BY <1>4, <2>1, ClientDispatch, BeginsDispatch
       DEF ClientMove, ClientCreates, ClientCancels, ClientRequeues
<1>5. ASSUME NEW j \in Jobs, LeaseExpires(j) PROVE SingleDispatch'
  <2>1. NoNewHolder /\ queue' = queue
    BY <1>5 DEF LeaseExpires, workerVars, timerVars, reaperVars, clientVars, NoNewHolder
  <2>2. \A k \in Jobs : Status(k)' = Status(k)
    BY <1>0, <1>5 DEF LeaseExpires, Status, JobStoreTypeOK, Rows
  <2> QED
    BY <1>0, <2>1, <2>2, AllKept
<1>6. CASE ProcessCrash
  BY <1>6 DEF ProcessCrash, WorkersStop, ReaperStops, ClientsStop, SingleDispatch, Holders,
     PickupPcs
<1>7. CASE UNCHANGED vars
  <2>1. NoNewHolder
    BY <1>7 DEF vars, workerVars, timerVars, reaperVars, clientVars, NoNewHolder
  <2> QED
    BY <1>0, <1>7, <2>1, AllKept DEF vars, jobStoreVars, Status
<1> QED
  BY <1>1, <1>2, <1>3, <1>4, <1>5, <1>6, <1>7 DEF Next

\* A job is never dispatched twice at a time, nor while it runs or has ended:
\* for any number of workers, delayed requeues and requests, and any sequence
\* of crashes and stalls.
THEOREM DispatchesSingly == Spec => []SingleDispatch
BY DispatchInit, DispatchNext, AlwaysTyped, PTL DEF Spec

(***************************************************************************)
(* No order of the tasks strands a job.  A job becomes QUEUED together     *)
(* with a holder of its dispatch; a holder only gives it up for a message, *)
(* or when the job is QUEUED no more.                                      *)
(***************************************************************************)
Dispatched(j) == queue[j] > 0 \/ Holders(j) # {}

\* The status _run read is still the one it will ask for, unless the job was
\* cancelled since: then the transition misses a CANCELLED job.
SeenIsWaiting ==
    \A w \in Workers :
       wpc[w] = "start" => /\ wseen[w] \in Waiting
                           /\ wseen[w] = "CANCELLED" => Status(wjob[w]) = "CANCELLED"

Served == NoLostMessage /\ SeenIsWaiting

LEMMA ServedInit == Init => Served
BY DEF Init, JobStoreInit, NoRow, JobWorkerInit, Served, NoLostMessage, SeenIsWaiting, Status

\* Every holder before the step is one after it, of the same job.
KeepsHolders ==
    /\ \A w \in Workers : wpc[w] \in PickupPcs => wpc'[w] \in PickupPcs /\ wjob'[w] = wjob[w]
    /\ \A t \in Timers : tpc[t] = "publish" => tpc'[t] = "publish" /\ tjob'[t] = tjob[t]
    /\ \A c \in Clients : cpc[c] \in {"create", "publish"}
                             => cpc'[c] \in {"create", "publish"} /\ cjob'[c] = cjob[c]
    /\ rpc = "publish" => rpc' = "publish" /\ rseen'.job = rseen.job

LEMMA AllStay ==
    ASSUME KeepsHolders, NEW j \in Jobs
    PROVE  Holders(j) \subseteq Holders(j)'
BY DEF KeepsHolders, Holders

\* Nobody has read the status of a job anew.
NoNewReader ==
    \A w \in Workers : wpc'[w] = "start" => /\ wpc[w] = "start"
                                            /\ wseen'[w] = wseen[w] /\ wjob'[w] = wjob[w]

\* No job becomes QUEUED, none is CANCELLED no more.
StatusQuiet ==
    \A j \in Jobs : /\ Status(j)' = "QUEUED" => Status(j) = "QUEUED"
                    /\ Status(j) = "CANCELLED" => Status(j)' = "CANCELLED"

LEMMA QuietTransition ==
    ASSUME JobStoreTypeOK, NEW j \in Jobs, NEW from, NEW r, NEW ok, Transition(j, from, r, ok),
           from # "CANCELLED", r.status # "QUEUED"
    PROVE  StatusQuiet
BY DEF Transition, Status, JobStoreTypeOK, StatusQuiet

LEMMA SeenKept ==
    ASSUME Typed, SeenIsWaiting, NoNewReader,
           \A w \in Workers : wpc'[w] = "start" /\ row[wjob[w]].status = "CANCELLED"
                                 => row'[wjob[w]].status = "CANCELLED"
    PROVE  SeenIsWaiting'
<1> SUFFICES ASSUME NEW w \in Workers, wpc'[w] = "start"
             PROVE  /\ wseen'[w] \in Waiting
                    /\ wseen'[w] = "CANCELLED" => Status(wjob[w])' = "CANCELLED"
  BY DEF SeenIsWaiting
<1>1. wpc[w] = "start" /\ wseen'[w] = wseen[w] /\ wjob'[w] = wjob[w]
  BY DEF NoNewReader
<1> QED
  BY <1>1 DEF SeenIsWaiting, Status

\* The steps that touch no dispatch.
LEMMA QuietServed ==
    ASSUME Typed, Served, KeepsHolders, NoNewReader, StatusQuiet, queue' = queue,
           crashes' = crashes
    PROVE  Served'
<1>1. NoLostMessage'
  BY AllStay DEF Served, NoLostMessage, StatusQuiet
<1>2. \A w \in Workers : wpc'[w] = "start" => wjob[w] \in Jobs
  BY DEF NoNewReader, Typed, WorkerTyped
<1> QED
  BY <1>1, <1>2, SeenKept DEF Served, StatusQuiet, Status

\* A transition that makes job j QUEUED leaves a holder.
LEMMA QueuedServed ==
    ASSUME Typed, Served, KeepsHolders, NoNewReader, queue' = queue, crashes' = crashes,
           NEW j \in Jobs, NEW from, from # "CANCELLED", NEW r, NEW ok,
           Transition(j, from, r, ok), ok => Holders(j)' # {}
    PROVE  Served'
<1>0. JobStoreTypeOK
  BY DEF Typed
<1>1. \A k \in Jobs : Status(k)' = "QUEUED" => Status(k) = "QUEUED" \/ Holders(k)' # {}
  BY <1>0, TransitionOthers DEF Status
<1>2. \A k \in Jobs : Status(k) = "CANCELLED" => Status(k)' = "CANCELLED"
  BY <1>0, TransitionOthers DEF Status
<1>3. NoLostMessage'
  BY <1>1, AllStay DEF Served, NoLostMessage
<1>4. \A w \in Workers : wpc'[w] = "start" => wjob[w] \in Jobs
  BY DEF NoNewReader, Typed, WorkerTyped
<1> QED
  BY <1>2, <1>3, <1>4, SeenKept DEF Served, Status

\* A holder of job j that publishes.
LEMMA PublishedServed ==
    ASSUME Typed, Served, NoNewReader, NEW j \in Jobs, Publish(j), row' = row,
           crashes' = crashes, \A k \in Jobs \ {j} : Holders(k) \subseteq Holders(k)'
    PROVE  Served'
<1>0. JobStoreTypeOK
  BY DEF Typed
<1>1. queue'[j] > 0 /\ \A k \in Jobs \ {j} : queue'[k] = queue[k]
  BY <1>0 DEF Publish, JobStoreTypeOK
<1>2. NoLostMessage'
  BY <1>1 DEF Served, NoLostMessage, Status
<1>3. \A w \in Workers : row'[wjob[w]].status = row[wjob[w]].status
  OBVIOUS
<1> QED
  BY <1>2, <1>3, SeenKept DEF Served

\* A worker's step can only lose a dispatch of its own job.
LEMMA OthersStay ==
    ASSUME NEW w \in Workers,
           \A v \in Workers \ {w} : wpc'[v] = wpc[v] /\ wjob'[v] = wjob[v],
           UNCHANGED <<timerVars, clientVars, rpc, rseen>>,
           NEW k \in Jobs, wpc[w] \notin PickupPcs \/ wjob[w] # k
    PROVE  Holders(k) \subseteq Holders(k)'
BY DEF timerVars, clientVars, Holders

\* A worker that lets a job go that is not QUEUED.
LEMMA DroppedServed ==
    ASSUME Typed, Served, NEW w \in Workers, NEW j \in Jobs, j = wjob[w], Status(j)' # "QUEUED",
           \A v \in Workers \ {w} : wpc'[v] = wpc[v] /\ wjob'[v] = wjob[v],
           \A k \in Jobs \ {j} : row'[k] = row[k],
           UNCHANGED <<queue, crashes, timerVars, clientVars, rpc, rseen>>
    PROVE  NoLostMessage'
<1>1. \A k \in Jobs \ {j} : Holders(k) \subseteq Holders(k)'
  BY OthersStay
<1> QED
  BY <1>1 DEF Served, NoLostMessage, Status

LEMMA PickupServed ==
    ASSUME Typed, SingleDispatch, Served, NEW w \in Workers, PickupStep(w),
           UNCHANGED <<rpc, rseen, clientVars>>, crashes' = crashes
    PROVE  Served'
<1> USE DEF PickupPcs
<1> DEFINE me == <<"worker", w>>
<1>0. /\ JobStoreTypeOK
      /\ wpc[w] # "idle" => wjob[w] \in Jobs
      /\ \A j \in Jobs : Solo(j)
  BY DispatchIsSolo DEF Typed, WorkerTyped
<1>1. ASSUME NEW j \in Jobs, GetJob(w, j) PROVE Served'
  <2>1. me \in Holders(j)' /\ \A k \in Jobs \ {j} : queue'[k] = queue[k]
    BY <1>0, <1>1 DEF GetJob, Get, At, To, Typed, WorkerTyped, JobStoreTypeOK, Holders
  <2>2. \A k \in Jobs : Holders(k) \subseteq Holders(k)'
    BY <1>1 DEF GetJob, At, To, timerVars, clientVars, Typed, WorkerTyped, Holders
  <2>3. NoLostMessage'
    BY <1>1, <2>1, <2>2 DEF GetJob, Served, NoLostMessage, Status
  <2>4. NoNewReader
    BY <1>1 DEF GetJob, At, To, Typed, WorkerTyped, NoNewReader
  <2>5. row' = row
    BY <1>1 DEF GetJob
  <2> QED
    BY <2>3, <2>4, <2>5, SeenKept DEF Served
<1>2. CASE LoadJob(w) \/ Acquire(w)
  <2>0. PICK j \in Jobs : j = wjob[w]
    BY <1>0, <1>2 DEF LoadJob, Acquire, At
  <2>1. StatusQuiet /\ queue' = queue /\ \A k \in Jobs \ {j} : row'[k] = row[k]
    <3>1. [row[j] EXCEPT !.worker = w, !.lease = "live"].status = row[j].status
      BY <1>0 DEF JobStoreTypeOK, Rows
    <3>2. row' = row \/ row' = [row EXCEPT ![j] = [row[j] EXCEPT !.worker = w, !.lease = "live"]]
      BY <1>0, <1>2, <2>0 DEF LoadJob, Acquire, AcquireLease, jobStoreVars, JobStoreTypeOK
    <3>3. queue' = queue
      BY <1>2 DEF LoadJob, Acquire, jobStoreVars
    <3> QED
      BY <1>0, <3>1, <3>2, <3>3 DEF StatusQuiet, Status, JobStoreTypeOK
  <2>2. NoNewReader
    BY <1>2 DEF LoadJob, Acquire, At, Done, Goes, To, Typed, WorkerTyped, NoNewReader
  <2>3. CASE \E pc \in PickupPcs : Goes(w, pc)
    <3>1. KeepsHolders
      BY <1>2, <2>3 DEF LoadJob, Acquire, Goes, To, timerVars, clientVars, Typed, WorkerTyped,
         KeepsHolders
    <3> QED
      BY <2>1, <2>2, <3>1, QuietServed
  <2>4. CASE Done(w) /\ row' = row
    <3>1. Status(j)' # "QUEUED"
      BY <1>2, <2>0, <2>4 DEF LoadJob, Acquire, Acquirable, Goes, Done, To, At, Typed, WorkerTyped,
         Status
    <3>2. \A v \in Workers \ {w} : wpc'[v] = wpc[v] /\ wjob'[v] = wjob[v]
      BY <2>4 DEF Done, To, Typed, WorkerTyped
    <3>3. UNCHANGED <<queue, crashes, timerVars, clientVars, rpc, rseen>>
      BY <1>2, <2>1 DEF LoadJob, Acquire
    <3>4. NoLostMessage'
      BY <2>0, <2>1, <3>1, <3>2, <3>3, DroppedServed
    <3> QED
      BY <2>2, <2>4, <3>4, SeenKept DEF Served
  <2> QED
    BY <1>2, <2>3, <2>4 DEF LoadJob, Acquire, jobStoreVars
<1>3. CASE ReadJob(w)
  <2>0. PICK j \in Jobs : j = wjob[w]
    BY <1>0, <1>3 DEF ReadJob, At
  <2>1. Status(j) \in Waiting
    <3>1. me \in Holders(j)
      BY <1>3, <2>0 DEF ReadJob, At, Holders
    <3> QED
      BY <1>0, <3>1 DEF Solo
  <2>2. KeepsHolders
    BY <1>3 DEF ReadJob, At, To, timerVars, clientVars, Typed, WorkerTyped, KeepsHolders
  <2>3. NoLostMessage'
    BY <1>3, <2>2, AllStay DEF ReadJob, jobStoreVars, Served, NoLostMessage, Status
  <2>4. SeenIsWaiting'
    <3>1. wseen'[w] = Status(j) /\ wjob' = wjob /\ row' = row
      BY <1>3, <2>0 DEF ReadJob, jobStoreVars, Typed, WorkerTyped
    <3>2. \A v \in Workers \ {w} : wpc'[v] = wpc[v] /\ wseen'[v] = wseen[v]
      BY <1>3 DEF ReadJob, To, Typed, WorkerTyped
    <3> QED
      BY <2>0, <2>1, <3>1, <3>2 DEF Served, SeenIsWaiting, Status
  <2> QED
    BY <2>3, <2>4 DEF Served
<1>4. CASE StartJob(w)
  <2>0. PICK j \in Jobs : j = wjob[w]
    BY <1>0, <1>4 DEF StartJob, At
  <2> DEFINE r == [row[j] EXCEPT !.status = "RUNNING", !.worker = w]
  <2>1. PICK ok \in BOOLEAN :
          Transition(j, wseen[w], r, ok) /\ Goes(w, IF ok THEN "resume" ELSE "expire")
    BY <1>4, <2>0 DEF StartJob
  <2>2. r.status = "RUNNING"
    BY <1>0 DEF JobStoreTypeOK, Rows
  <2>3. /\ \A k \in Jobs \ {j} : row'[k] = row[k]
        /\ ok => row'[j] = r
        /\ ~ok => row'[j] = row[j] /\ Status(j) # wseen[w]
    BY <1>0, <2>1, TransitionOthers DEF Status
  <2>4. Status(j)' # "QUEUED"
    BY <1>4, <2>0, <2>2, <2>3 DEF StartJob, At, Status, Waiting, Served, SeenIsWaiting
  <2>5. \A v \in Workers \ {w} : wpc'[v] = wpc[v] /\ wjob'[v] = wjob[v]
    BY <2>1 DEF Goes, To, Typed, WorkerTyped
  <2>6. NoLostMessage'
    BY <1>4, <2>0, <2>3, <2>4, <2>5, DroppedServed DEF StartJob
  <2>7. NoNewReader
    BY <2>1 DEF Goes, To, Typed, WorkerTyped, NoNewReader
  <2>8. ASSUME NEW v \in Workers, wpc'[v] = "start" PROVE row'[wjob[v]] = row[wjob[v]]
    <3>1. v # w /\ wpc[v] = "start" /\ wjob[v] \in Jobs
      BY <2>1, <2>7, <2>8 DEF Goes, To, Typed, WorkerTyped, NoNewReader
    <3>2. wjob[v] # j
      <4>1. wjob[v] = j => me \in Holders(j) /\ <<"worker", v>> \in Holders(j)
        BY <1>4, <2>0, <3>1 DEF StartJob, At, Holders
      <4>2. \A x, y \in Holders(j) : x = y
        BY <1>0 DEF Solo
      <4> QED
        BY <3>1, <4>1, <4>2
    <3> QED
      BY <2>3, <3>1, <3>2
  <2> QED
    BY <2>6, <2>7, <2>8, SeenKept DEF Served
<1>5. CASE GiveUp(w) \/ Leave(w)
  <2>1. StatusQuiet /\ queue' = queue
    BY <1>0, <1>5 DEF GiveUp, ExpireLease, Leave, jobStoreVars, StatusQuiet, Status,
       JobStoreTypeOK, Rows
  <2>2. KeepsHolders /\ NoNewReader
    BY <1>5 DEF GiveUp, Leave, At, Done, Goes, To, timerVars, clientVars, Typed, WorkerTyped,
       KeepsHolders, NoNewReader
  <2> QED
    BY <2>1, <2>2, QuietServed
<1> QED
  BY <1>1, <1>2, <1>3, <1>4, <1>5 DEF PickupStep

LEMMA AgentServed ==
    ASSUME Typed, Served, NEW w \in Workers,
           \/ AgentStep(w) \/ BesideStep(w) \/ EndStep(w)
           \/ \E error \in {"retry", "fatal", "crash"} : StepRaises(w, error),
           UNCHANGED <<rpc, rseen, clientVars>>, crashes' = crashes
    PROVE  Served'
<1> USE DEF PickupPcs, DeadPcs
<1> DEFINE j == wjob[w]
<1>0. JobStoreTypeOK /\ (wpc[w] # "idle" => j \in Jobs)
  BY DEF Typed, WorkerTyped
<1>1. KeepsHolders /\ NoNewReader /\ queue' = queue
  <2>1. CASE AgentStep(w) \/ BesideStep(w)
    BY <2>1 DEF Typed, WorkerTyped, TimerTyped, AgentStep, ResumeJob, Abort, NextStep, CallCached,
       CallTool, ToolReturns, RecordTool, StepReturns, SaveStep, BesideStep, Heartbeat,
       HeartbeatFails, WatchCancel, At, Goes, To, workerVars, timerVars, clientVars,
       jobStoreVars, KeepsHolders, NoNewReader
  <2>2. CASE EndStep(w)
    BY <2>2, SMTT(30) DEF Typed, WorkerTyped, TimerTyped, EndStep, Finish, Cleanup, CancelLoad, CancelSave,
       FinalizeCancel, HandleFailure, ReadRetries, RetryLater, RetriesExhausted, SendToDlq,
       DeadLetter, At, Done, Goes, To, timerVars, clientVars, jobStoreVars, KeepsHolders,
       NoNewReader
  <2>3. CASE \E error \in {"retry", "fatal", "crash"} : StepRaises(w, error)
    BY <2>3 DEF Typed, WorkerTyped, StepRaises, Goes, To, timerVars, clientVars, jobStoreVars,
       KeepsHolders, NoNewReader
  <2> QED
    BY <2>1, <2>2, <2>3
<1>2. StatusQuiet
  <2>1. CASE AgentStep(w) \/ BesideStep(w) \/ \E error \in {"retry", "fatal", "crash"} : StepRaises(w, error)
    BY <1>0, <2>1 DEF AgentStep, ResumeJob, Abort, NextStep, CallCached, CallTool, ToolReturns,
       RecordTool, StepReturns, SaveStep, BesideStep, Heartbeat, RenewLease, HeartbeatFails,
       WatchCancel, StepRaises, jobStoreVars, Status, JobStoreTypeOK, Rows, StatusQuiet
  <2>2. CASE EndStep(w)
    <3>1. \/ row' = row
          \/ /\ j \in Jobs
             /\ \E from \in {"RUNNING", "RETRYING", "FAILED"} :
                \E r \in Rows : \E ok \in BOOLEAN :
                   Transition(j, from, r, ok) /\ r.status # "QUEUED"
      <4>1. CASE Finish(w) \/ FinalizeCancel(w) \/ HandleFailure(w) \/ SendToDlq(w)
        <5>1. j \in Jobs
          BY <1>0, <4>1 DEF Finish, FinalizeCancel, HandleFailure, SendToDlq, DeadLetter, At
        <5>2. \A s \in Statuses : /\ Released(row[j], s) \in Rows /\ Released(row[j], s).status = s
                                  /\ Settled(row[j], s) \in Rows /\ Settled(row[j], s).status = s
          BY <1>0, <5>1, RowsTyped, StatusOf
        <5>3. \E from \in {"RUNNING", "RETRYING", "FAILED"} : \E ok \in BOOLEAN :
              \E s \in {"SUCCESS", "CANCELLED", "FAILED", "DEAD"} :
                 Transition(j, from, Released(row[j], s), ok) \/ Transition(j, from, Settled(row[j], s), ok)
          BY <4>1 DEF Finish, FinalizeCancel, HandleFailure, SendToDlq, DeadLetter
        <5> QED
          BY <5>1, <5>2, <5>3 DEF Statuses
      <4>2. CASE RetryLater(w)
        <5>1. j \in Jobs /\ wretry[w] + 1 \in Nat
          BY <1>0, <4>2 DEF RetryLater, At, Typed, WorkerTyped
        <5> DEFINE r == [row[j] EXCEPT !.status = "RETRYING", !.retries = wretry[w] + 1,
                                       !.worker = NoWorker, !.lease = "live"]
        <5>2. r \in Rows /\ r.status = "RETRYING"
          BY <1>0, <5>1, RetriesTyped, ZenonT(60) DEF JobStoreTypeOK, Rows
        <5>3. PICK ok \in BOOLEAN : Transition(j, "RUNNING", r, ok)
          BY <4>2 DEF RetryLater
        <5> HIDE DEF r
        <5> QED
          BY <5>1, <5>2, <5>3
      <4>3. CASE RetriesExhausted(w)
        <5>1. j \in Jobs /\ wretry[w] + 1 \in Nat
          BY <1>0, <4>3 DEF RetriesExhausted, At, Typed, WorkerTyped
        <5> DEFINE r == [Released(row[j], "FAILED") EXCEPT !.retries = wretry[w] + 1]
        <5>2. r \in Rows /\ r.status = "FAILED"
          <6>1. Released(row[j], "FAILED") \in Rows /\ Released(row[j], "FAILED").status = "FAILED"
            BY <1>0, <5>1, RowsTyped, StatusOf DEF Statuses
          <6> QED
            BY <5>1, <6>1 DEF Rows
        <5>3. PICK ok \in BOOLEAN : Transition(j, "RUNNING", r, ok)
          BY <4>3 DEF RetriesExhausted
        <5> HIDE DEF r
        <5> QED
          BY <5>1, <5>2, <5>3
      <4>4. CASE Cleanup(w) \/ CancelLoad(w) \/ CancelSave(w) \/ ReadRetries(w)
        BY <4>4 DEF Cleanup, CancelLoad, CancelSave, ReadRetries, jobStoreVars
      <4> QED
        BY <2>2, <4>1, <4>2, <4>3, <4>4 DEF EndStep
    <3>2. CASE row' = row
      BY <3>2 DEF StatusQuiet, Status
    <3> QED
      BY <1>0, <3>1, <3>2, QuietTransition
  <2> QED
    BY <2>1, <2>2
<1> QED
  BY <1>1, <1>2, QuietServed

LEMMA TimerServed ==
    ASSUME Typed, Served, NEW t \in Timers, TimerStep(t),
           UNCHANGED <<rpc, rseen, clientVars>>, crashes' = crashes
    PROVE  Served'
<1> DEFINE j == tjob[t]
<1>0. JobStoreTypeOK /\ (tpc[t] # "off" => j \in Jobs)
  BY DEF Typed, TimerTyped
<1>1. NoNewReader
  BY DEF TimerStep, TimerWakes, TimerCancels, TimerRequeues, TimerPublishes, workerVars, NoNewReader
<1>2. CASE TimerWakes(t) \/ TimerCancels(t)
  <2>1. KeepsHolders /\ queue' = queue
    BY <1>2 DEF TimerWakes, TimerCancels, TimerTo, workerVars, clientVars, jobStoreVars, Typed,
       TimerTyped, KeepsHolders
  <2>2. StatusQuiet
    <3>1. CASE TimerWakes(t)
      BY <3>1 DEF TimerWakes, jobStoreVars, StatusQuiet, Status
    <3>2. CASE TimerCancels(t)
      <4>1. j \in Jobs /\ Settled(row[j], "CANCELLED").status = "CANCELLED"
        BY <1>0, <3>2, StatusOf DEF TimerCancels
      <4>2. PICK ok \in BOOLEAN : Transition(j, "RETRYING", Settled(row[j], "CANCELLED"), ok)
        BY <3>2 DEF TimerCancels
      <4> QED
        BY <1>0, <4>1, <4>2, QuietTransition
    <3> QED
      BY <1>2, <3>1, <3>2
  <2> QED
    BY <1>1, <2>1, <2>2, QuietServed
<1>3. CASE TimerRequeues(t)
  <2>0. PICK k \in Jobs : k = tjob[t]
    BY <1>0, <1>3 DEF TimerRequeues
  <2> DEFINE r == Settled(row[k], "QUEUED")
  <2>1. PICK ok \in BOOLEAN :
          Transition(k, "RETRYING", r, ok) /\ TimerTo(t, IF ok THEN "publish" ELSE "off")
    BY <1>3, <2>0 DEF TimerRequeues
  <2>2. ok => <<"timer", t>> \in Holders(k)'
    BY <2>0, <2>1 DEF TimerTo, Typed, TimerTyped, Holders
  <2>3. KeepsHolders /\ queue' = queue
    BY <1>3, <2>1 DEF TimerRequeues, TimerTo, workerVars, clientVars, Typed, TimerTyped, KeepsHolders
  <2>4. Transition(k, "RETRYING", r, ok)
    BY <2>1
  <2>5. ok => Holders(k)' # {}
    BY <2>2
  <2> HIDE DEF r
  <2> QED
    BY <1>1, <2>3, <2>4, <2>5, QueuedServed
<1>4. CASE TimerPublishes(t)
  <2>0. PICK i \in Jobs : i = tjob[t]
    BY <1>0, <1>4 DEF TimerPublishes
  <2>1. \A k \in Jobs \ {i} : Holders(k) \subseteq Holders(k)'
    BY <1>4, <2>0 DEF TimerPublishes, TimerTo, workerVars, clientVars, Typed, TimerTyped, Holders
  <2>2. Publish(i) /\ row' = row
    BY <1>4, <2>0 DEF TimerPublishes
  <2> QED
    BY <1>1, <2>1, <2>2, PublishedServed
<1> QED
  BY <1>2, <1>3, <1>4 DEF TimerStep

LEMMA ReaperServed ==
    ASSUME Typed, Served, ReaperStep, UNCHANGED <<workerVars, timerVars, clientVars>>,
           crashes' = crashes
    PROVE  Served'
<1>0. JobStoreTypeOK
  BY DEF Typed
<1>1. NoNewReader
  BY DEF workerVars, NoNewReader
<1>2. CASE Scan \/ (\E e \in rtodo : CheckCancel(e)) \/ ReaperCancels
  <2>1. KeepsHolders /\ queue' = queue
    BY <1>2 DEF Scan, CheckCancel, ReaperCancels, ReaperRests, workerVars, timerVars, clientVars,
       jobStoreVars, KeepsHolders
  <2>2. StatusQuiet
    <3>1. CASE Scan \/ \E e \in rtodo : CheckCancel(e)
      BY <3>1 DEF Scan, CheckCancel, jobStoreVars, StatusQuiet, Status
    <3>2. CASE ReaperCancels
      <4>0. PICK k \in Jobs, from \in {"RUNNING", "RETRYING"} : k = rseen.job /\ from = rseen.status
        BY <3>2 DEF ReaperCancels, Typed, ReaperTyped, Snapshots
      <4>1. Settled(row[k], "CANCELLED").status = "CANCELLED"
        BY <1>0, StatusOf
      <4>2. PICK ok \in BOOLEAN : Transition(k, from, Settled(row[k], "CANCELLED"), ok)
        BY <3>2, <4>0 DEF ReaperCancels
      <4> QED
        BY <1>0, <4>1, <4>2, QuietTransition
    <3> QED
      BY <1>2, <3>1, <3>2
  <2> QED
    BY <1>1, <2>1, <2>2, QuietServed
<1>3. CASE ReaperRequeues
  <2>0. PICK k \in Jobs, from \in {"RUNNING", "RETRYING"} : k = rseen.job /\ from = rseen.status
    BY <1>3 DEF ReaperRequeues, Typed, ReaperTyped, Snapshots
  <2> DEFINE r == Settled(row[k], "QUEUED")
  <2>1. PICK ok \in BOOLEAN :
          /\ Transition(k, from, r, ok)
          /\ IF ok THEN rpc' = "publish" /\ UNCHANGED <<rtodo, rseen>> ELSE ReaperRests
    BY <1>3, <2>0 DEF ReaperRequeues
  <2>2. ok => <<"reaper", "reaper">> \in Holders(k)'
    BY <2>0, <2>1 DEF Holders
  <2>3. KeepsHolders /\ queue' = queue
    BY <1>3, <2>1 DEF ReaperRequeues, ReaperRests, workerVars, timerVars, clientVars, KeepsHolders
  <2>4. Transition(k, from, r, ok)
    BY <2>1
  <2>5. ok => Holders(k)' # {}
    BY <2>2
  <2> HIDE DEF r
  <2> QED
    BY <1>1, <2>3, <2>4, <2>5, QueuedServed
<1>4. CASE ReaperPublishes
  <2>0. PICK i \in Jobs : i = rseen.job
    BY <1>4 DEF ReaperPublishes, Typed, ReaperTyped, Snapshots
  <2>1. \A k \in Jobs \ {i} : Holders(k) \subseteq Holders(k)'
    BY <1>4, <2>0 DEF ReaperPublishes, ReaperRests, workerVars, timerVars, clientVars, Holders
  <2>2. Publish(i) /\ row' = row
    BY <1>4, <2>0 DEF ReaperPublishes
  <2> QED
    BY <1>1, <2>1, <2>2, PublishedServed
<1> QED
  BY <1>2, <1>3, <1>4 DEF ReaperStep

LEMMA ClientServed ==
    ASSUME Typed, Served, NEW c \in Clients, ClientStep(c),
           UNCHANGED <<workerVars, timerVars, rpc, rseen>>, crashes' = crashes
    PROVE  Served'
<1>0. JobStoreTypeOK /\ (cpc[c] # "idle" => cjob[c] \in Jobs)
  BY DEF Typed, ClientTyped
<1>1. NoNewReader
  BY DEF workerVars, NoNewReader
<1>2. CASE ClientPublishes(c)
  <2>0. PICK i \in Jobs : i = cjob[c]
    BY <1>0, <1>2 DEF ClientPublishes
  <2>1. \A k \in Jobs \ {i} : Holders(k) \subseteq Holders(k)'
    BY <1>2, <2>0 DEF ClientPublishes, Answers, workerVars, timerVars, Typed, ClientTyped,
       JobClientTypeOK, Holders
  <2>2. Publish(i) /\ row' = row
    BY <1>2, <2>0 DEF ClientPublishes
  <2> QED
    BY <1>1, <2>1, <2>2, PublishedServed
<1>3. CASE CancelQueued(c) \/ CancelFlag(c)
  <2>0. PICK j \in Jobs : j = cjob[c]
    BY <1>0, <1>3 DEF CancelQueued, CancelFlag
  <2>1. KeepsHolders /\ queue' = queue
    BY <1>3 DEF CancelQueued, CancelFlag, Answers, workerVars, timerVars, Typed, ClientTyped,
       JobClientTypeOK, KeepsHolders
  <2>2. StatusQuiet
    <3>1. CASE CancelQueued(c)
      <4>1. [row[j] EXCEPT !.status = "CANCELLED"].status = "CANCELLED"
        BY <1>0 DEF JobStoreTypeOK, Rows
      <4>2. PICK ok \in BOOLEAN : Transition(j, "QUEUED", [row[j] EXCEPT !.status = "CANCELLED"], ok)
        BY <2>0, <3>1 DEF CancelQueued
      <4> QED
        BY <1>0, <4>1, <4>2, QuietTransition
    <3>2. CASE CancelFlag(c)
      BY <1>0, <3>2 DEF CancelFlag, SetCancelRequested, Status, JobStoreTypeOK, Rows, StatusQuiet
    <3> QED
      BY <1>3, <3>1, <3>2
  <2> QED
    BY <1>1, <2>1, <2>2, QuietServed
<1>4. CASE Requeue(c)
  <2>0. PICK k \in Jobs : k = cjob[c]
    BY <1>0, <1>4 DEF Requeue
  <2> DEFINE r == [Settled(row[k], "QUEUED") EXCEPT !.retries = 0]
  <2>1. PICK ok \in BOOLEAN :
          /\ Transition(k, "DEAD", r, ok)
          /\ IF ok
               THEN /\ cpc' = [cpc EXCEPT ![c] = "publish"]
                    /\ asked' = asked \ {k}
                    /\ UNCHANGED cjob
               ELSE Answers(c) /\ UNCHANGED asked
    BY <1>4, <2>0 DEF Requeue
  <2>2. ok => <<"client", c>> \in Holders(k)'
    BY <2>0, <2>1 DEF Typed, ClientTyped, JobClientTypeOK, Holders
  <2>3. KeepsHolders
    BY <1>4, <2>1 DEF Requeue, Answers, workerVars, timerVars, Typed, ClientTyped,
       JobClientTypeOK, KeepsHolders
  <2>4. Transition(k, "DEAD", r, ok) /\ queue' = queue
    BY <1>4, <2>1 DEF Requeue
  <2>5. ok => Holders(k)' # {}
    BY <2>2
  <2> HIDE DEF r
  <2> QED
    BY <1>1, <2>3, <2>4, <2>5, QueuedServed
<1> QED
  BY <1>2, <1>3, <1>4 DEF ClientStep

LEMMA BeginsServed ==
    ASSUME Typed, Served, NEW c \in Clients, NEW j \in Jobs,
           Create(c, j) \/ ReadForCancel(c, j) \/ ReadForRequeue(c, j),
           UNCHANGED <<workerVars, timerVars, rpc, rseen>>, crashes' = crashes
    PROVE  Served'
<1>1. NoNewReader
  BY DEF workerVars, NoNewReader
<1>2. KeepsHolders /\ queue' = queue
  BY DEF Create, ReadForCancel, ReadForRequeue, Begins, jobStoreVars, workerVars, timerVars,
     Typed, ClientTyped, JobClientTypeOK, KeepsHolders
<1>3. CASE Create(c, j)
  <2> DEFINE r == [NoRow EXCEPT !.status = "QUEUED"]
  <2>1. Transition(j, "ABSENT", r, TRUE)
    BY <1>3 DEF Create, Transition
  <2>2. <<"client", c>> \in Holders(j)'
    BY <1>3 DEF Create, Begins, Typed, ClientTyped, JobClientTypeOK, Holders
  <2>3. TRUE => Holders(j)' # {}
    BY <2>2
  <2> HIDE DEF r
  <2> QED
    BY <1>1, <1>2, <2>1, <2>3, QueuedServed
<1>4. CASE ReadForCancel(c, j) \/ ReadForRequeue(c, j)
  <2>1. StatusQuiet
    BY <1>4 DEF ReadForCancel, ReadForRequeue, jobStoreVars, Status, StatusQuiet
  <2> QED
    BY <1>1, <1>2, <2>1, QuietServed
<1> QED
  BY <1>3, <1>4

LEMMA ServedNext == Typed /\ SingleDispatch /\ Served /\ [Next]_vars => Served'
<1> SUFFICES ASSUME Typed, SingleDispatch, Served, [Next]_vars PROVE Served'
  OBVIOUS
<1>0. JobStoreTypeOK
  BY DEF Typed
<1>1. ASSUME NEW w \in Workers, WorkerMove(w) \/ AgentCrash(w) \/ BesideMove(w)
      PROVE  Served'
  <2>1. UNCHANGED <<rpc, rseen, clientVars>> /\ crashes' = crashes
    BY <1>1 DEF WorkerMove, AgentCrash, BesideMove, reaperVars, budgetVars
  <2> QED
    BY <1>1, <2>1, PickupServed, AgentServed DEF WorkerMove, AgentCrash, BesideMove
<1>2. ASSUME NEW t \in Timers, TimerMove(t) PROVE Served'
  BY <1>2, TimerServed DEF TimerMove, reaperVars, budgetVars
<1>3. CASE ReaperMove
  BY <1>3, ReaperServed DEF ReaperMove, budgetVars
<1>4. ASSUME NEW c \in Clients,
             ClientMove(c) \/ ClientCreates(c) \/ ClientCancels(c) \/ ClientRequeues(c)
      PROVE  Served'
  <2>1. UNCHANGED <<workerVars, timerVars, rpc, rseen>> /\ crashes' = crashes
    BY <1>4 DEF ClientMove, ClientCreates, ClientCancels, ClientRequeues, reaperVars, budgetVars
  <2> QED
    BY <1>4, <2>1, ClientServed, BeginsServed
       DEF ClientMove, ClientCreates, ClientCancels, ClientRequeues
<1>5. ASSUME NEW j \in Jobs, LeaseExpires(j) PROVE Served'
  <2>1. KeepsHolders /\ NoNewReader /\ queue' = queue /\ crashes' = crashes
    BY <1>5 DEF LeaseExpires, workerVars, timerVars, reaperVars, clientVars, KeepsHolders,
       NoNewReader
  <2>2. StatusQuiet
    BY <1>0, <1>5 DEF LeaseExpires, Status, JobStoreTypeOK, Rows, StatusQuiet
  <2> QED
    BY <2>1, <2>2, QuietServed
<1>6. CASE ProcessCrash
  <2>1. crashes' # 0 /\ \A w \in Workers : wpc'[w] = "idle"
    BY <1>6 DEF ProcessCrash, WorkersStop, Typed, BudgetTyped
  <2> QED
    BY <2>1 DEF Served, NoLostMessage, SeenIsWaiting
<1>7. CASE UNCHANGED vars
  <2>1. KeepsHolders /\ NoNewReader /\ StatusQuiet /\ queue' = queue /\ crashes' = crashes
    BY <1>7 DEF vars, workerVars, timerVars, reaperVars, clientVars, budgetVars, jobStoreVars,
       Status, KeepsHolders, NoNewReader, StatusQuiet
  <2> QED
    BY <2>1, QuietServed
<1> QED
  BY <1>1, <1>2, <1>3, <1>4, <1>5, <1>6, <1>7 DEF Next

LEMMA AlwaysServed == Spec => []Served
BY ServedInit, ServedNext, AlwaysTyped, DispatchesSingly, PTL DEF Spec

\* While the process lives no order of the tasks strands a job: a QUEUED job
\* has a message, or a task that is about to publish one or to run it.
THEOREM NothingIsStranded == Spec => []NoLostMessage
BY AlwaysServed, PTL DEF Served

(***************************************************************************)
(* Who owns a row while no lease runs out under its holder.  The database  *)
(* only asks for a status; that a worker still is the owner follows from   *)
(* where everybody else is.                                                *)
(***************************************************************************)
\* An entry of the snapshot the reaper will still act on.
Pending(e) == e \in rtodo \/ (rpc \in {"cancel", "requeue"} /\ e = rseen)

OneEntry ==
    /\ \A e, f \in rtodo : e.job = f.job => e = f
    /\ rpc # "idle" => \A e \in rtodo : e.job # rseen.job

RunsOwn(w) ==
    wpc[w] \in RunPcs => /\ Status(wjob[w]) = "RUNNING"
                         /\ row[wjob[w]].worker = w
                         /\ row[wjob[w]].lease = "live"

StartsOwn(w) ==
    wpc[w] \in {"read", "start"} => /\ row[wjob[w]].worker = w
                                    /\ row[wjob[w]].lease = "live"

\* The dead letter follows its own transition to FAILED, and hits it.
BuriesOwn(w) ==
    wpc[w] \in DeadPcs => wpc[w] # "deadRunning" /\ Status(wjob[w]) = "FAILED"

WorkersOwn ==
    /\ \A w \in Workers : RunsOwn(w) /\ StartsOwn(w) /\ BuriesOwn(w)
    /\ \A v, w \in Workers :
          wpc[v] \in DeadPcs /\ wpc[w] \in DeadPcs /\ wjob[v] = wjob[w] => v = w

\* A run the reaper found abandoned stays abandoned until the reaper ends it.
Abandoned(e) ==
    /\ Status(e.job) = "RUNNING"
    /\ \A w \in Workers : wjob[w] = e.job => wpc[w] \notin RunPcs

ReaperOwns == \A e \in Snapshots : Pending(e) /\ e.status = "RUNNING" => Abandoned(e)

Owned == OneEntry /\ (stalls = 0 => WorkersOwn /\ ReaperOwns)

LEMMA OwnedInit == Init => Owned
<1> SUFFICES ASSUME Init PROVE Owned
  OBVIOUS
<1>1. rpc = "idle" /\ rtodo = {} /\ \A w \in Workers : wpc[w] = "idle"
  BY DEF Init, JobReaperInit, JobWorkerInit
<1>2. "idle" \notin RunPcs \cup DeadPcs \cup {"read", "start"}
  BY DEF RunPcs, AgentPcs, DeadPcs
<1> QED
  BY <1>1, <1>2 DEF Owned, OneEntry, WorkersOwn, RunsOwn, StartsOwn, BuriesOwn, ReaperOwns, Pending

(***************************************************************************)
(* Two workers of one job are never both in its life: the statuses exclude *)
(* each other, and one status has one owner.                               *)
(***************************************************************************)
ActivePcs == {"read", "start"} \cup RunPcs \cup DeadPcs

LEMMA Apart ==
    /\ PickupPcs \cap RunPcs = {}
    /\ PickupPcs \cap DeadPcs = {}
    /\ RunPcs \cap DeadPcs = {}
    /\ {"read", "start"} \subseteq PickupPcs
    /\ "idle" \notin PickupPcs \cup RunPcs \cup DeadPcs
BY DEF PickupPcs, RunPcs, AgentPcs, DeadPcs

LEMMA StatusOfWorker ==
    ASSUME Typed, SingleDispatch, WorkersOwn, NEW w \in Workers
    PROVE  /\ wpc[w] \in PickupPcs => Status(wjob[w]) \in Waiting
           /\ wpc[w] \in RunPcs => Status(wjob[w]) = "RUNNING"
           /\ wpc[w] \in DeadPcs => Status(wjob[w]) = "FAILED"
           /\ wpc[w] \in PickupPcs \cup RunPcs \cup DeadPcs => wjob[w] \in Jobs
<1>1. wpc[w] \in PickupPcs \cup RunPcs \cup DeadPcs => wjob[w] \in Jobs
  BY Apart DEF Typed, WorkerTyped
<1>2. ASSUME wpc[w] \in PickupPcs PROVE Status(wjob[w]) \in Waiting
  <2>1. PICK j \in Jobs : j = wjob[w]
    BY <1>1, <1>2
  <2>2. <<"worker", w>> \in Holders(j)
    BY <1>2, <2>1 DEF Holders
  <2> QED
    BY <2>1, <2>2, DispatchIsSolo DEF Solo
<1>3. wpc[w] \in RunPcs => Status(wjob[w]) = "RUNNING"
  BY DEF WorkersOwn, RunsOwn
<1>4. wpc[w] \in DeadPcs => Status(wjob[w]) = "FAILED"
  BY DEF WorkersOwn, BuriesOwn
<1> QED
  BY <1>1, <1>2, <1>3, <1>4

LEMMA Alone ==
    ASSUME Typed, SingleDispatch, WorkersOwn, NEW v \in Workers, NEW w \in Workers,
           wpc[v] \in ActivePcs, wpc[w] \in PickupPcs \cup RunPcs \cup DeadPcs, wjob[v] = wjob[w]
    PROVE  v = w
<1>1. wpc[v] \in PickupPcs \cup RunPcs \cup DeadPcs
  BY Apart DEF ActivePcs
<1>2. CASE wpc[v] \in PickupPcs
  <2>1. wpc[w] \in PickupPcs
    BY <1>2, Apart, StatusOfWorker DEF Waiting
  <2>2. PICK j \in Jobs : j = wjob[w]
    BY <2>1, StatusOfWorker
  <2>3. <<"worker", v>> \in Holders(j) /\ <<"worker", w>> \in Holders(j)
    BY <1>2, <2>1, <2>2 DEF Holders
  <2>4. \A x, y \in Holders(j) : x = y
    BY <2>2, DispatchIsSolo DEF Solo
  <2> QED
    BY <2>3, <2>4
<1>3. CASE wpc[v] \in RunPcs
  <2>1. wpc[w] \in RunPcs
    BY <1>3, Apart, StatusOfWorker DEF Waiting
  <2> QED
    BY <1>3, <2>1 DEF WorkersOwn, RunsOwn
<1>4. CASE wpc[v] \in DeadPcs
  <2>1. wpc[w] \in DeadPcs
    BY <1>4, Apart, StatusOfWorker DEF Waiting
  <2> QED
    BY <1>4, <2>1 DEF WorkersOwn
<1> QED
  BY <1>1, <1>2, <1>3, <1>4

(***************************************************************************)
(* A step of worker w, seen by everybody else.                             *)
(***************************************************************************)
LEMMA OthersOwn ==
    ASSUME Typed, SingleDispatch, WorkersOwn, NEW w \in Workers, NEW j \in Jobs,
           \A v \in Workers \ {w} : wpc'[v] = wpc[v] /\ wjob'[v] = wjob[v],
           \A k \in Jobs \ {j} : row'[k] = row[k],
           \/ row' = row
           \/ j = wjob[w] /\ wpc[w] \in PickupPcs \cup RunPcs \cup DeadPcs
           \/ row[j].worker = w /\ row'[j].status = row[j].status,
           RunsOwn(w)', StartsOwn(w)', BuriesOwn(w)',
           wpc'[w] \in DeadPcs => wpc[w] \in DeadPcs \cup RunPcs /\ wjob'[w] = wjob[w]
    PROVE  WorkersOwn'
<1>1. ASSUME NEW v \in Workers \ {w}
      PROVE  RunsOwn(v)' /\ StartsOwn(v)' /\ BuriesOwn(v)'
  <2>0. RunsOwn(v) /\ StartsOwn(v) /\ BuriesOwn(v) /\ wpc'[v] = wpc[v] /\ wjob'[v] = wjob[v]
    BY <1>1 DEF WorkersOwn
  <2>1. CASE wpc[v] \notin ActivePcs
    BY <2>0, <2>1 DEF ActivePcs, RunsOwn, StartsOwn, BuriesOwn
  <2>2. CASE wpc[v] \in ActivePcs
    <3>1. wjob[v] \in Jobs
      BY <2>2, Apart, StatusOfWorker DEF ActivePcs
    <3>2. row'[wjob[v]] = row[wjob[v]]
          \/ (wpc[v] \in DeadPcs /\ row'[wjob[v]].status = row[wjob[v]].status)
      <4>1. CASE wjob[v] # j \/ row' = row
        BY <3>1, <4>1
      <4>2. CASE wjob[v] = j /\ row[j].worker = w /\ row'[j].status = row[j].status
        <5>1. wpc[v] \notin RunPcs \cup {"read", "start"}
          BY <1>1, <2>0, <4>2 DEF RunsOwn, StartsOwn
        <5> QED
          BY <2>2, <4>2, <5>1 DEF ActivePcs
      <4>3. ~(wjob[v] = j /\ j = wjob[w] /\ wpc[w] \in PickupPcs \cup RunPcs \cup DeadPcs)
        BY <1>1, <2>2, Alone
      <4> QED
        BY <4>1, <4>2, <4>3
    <3> QED
      BY <2>0, <3>2, Apart DEF RunsOwn, StartsOwn, BuriesOwn, Status
  <2> QED
    BY <2>1, <2>2
<1>2. ASSUME NEW v \in Workers \ {w}, wpc'[v] \in DeadPcs, wpc'[w] \in DeadPcs
      PROVE  wjob'[v] # wjob'[w]
  BY <1>2, Alone DEF ActivePcs
<1>3. \A u, v \in Workers : wpc'[u] \in DeadPcs /\ wpc'[v] \in DeadPcs /\ wjob'[u] = wjob'[v] => u = v
  <2> SUFFICES ASSUME NEW u \in Workers, NEW v \in Workers, wpc'[u] \in DeadPcs,
                      wpc'[v] \in DeadPcs, wjob'[u] = wjob'[v], u # v
               PROVE  FALSE
    OBVIOUS
  <2>1. CASE u = w \/ v = w
    BY <1>2, <2>1
  <2>2. CASE u # w /\ v # w
    BY <2>2 DEF WorkersOwn
  <2> QED
    BY <2>1, <2>2
<1>4. \A v \in Workers : RunsOwn(v)' /\ StartsOwn(v)' /\ BuriesOwn(v)'
  BY <1>1
<1> QED
  BY <1>3, <1>4 DEF WorkersOwn

LEMMA EntriesOwn ==
    ASSUME Typed, SingleDispatch, WorkersOwn, ReaperOwns, NEW w \in Workers, NEW j \in Jobs,
           \A v \in Workers \ {w} : wpc'[v] = wpc[v] /\ wjob'[v] = wjob[v],
           \A k \in Jobs \ {j} : row'[k] = row[k],
           \/ row' = row
           \/ j = wjob[w] /\ wpc[w] \in PickupPcs \cup RunPcs \cup DeadPcs
           \/ row[j].worker = w /\ row'[j].status = row[j].status,
           wpc'[w] \in RunPcs => wpc[w] \in PickupPcs \cup RunPcs /\ wjob'[w] = wjob[w],
           UNCHANGED reaperVars
    PROVE  ReaperOwns'
<1> SUFFICES ASSUME NEW e \in Snapshots, Pending(e)', e.status = "RUNNING" PROVE Abandoned(e)'
  BY DEF ReaperOwns, Snapshots
<1>0. Abandoned(e) /\ e.job \in Jobs
  BY DEF ReaperOwns, Pending, reaperVars, Snapshots
<1>1. ~(e.job = wjob[w] /\ wpc[w] \in PickupPcs \cup RunPcs \cup DeadPcs)
  BY <1>0, StatusOfWorker DEF Abandoned, Waiting
<1>2. Status(e.job)' = "RUNNING"
  BY <1>0, <1>1 DEF Abandoned, Status
<1>3. ASSUME NEW v \in Workers, wjob'[v] = e.job PROVE wpc'[v] \notin RunPcs
  <2>1. CASE v # w
    BY <1>0, <1>3, <2>1 DEF Abandoned
  <2>2. CASE v = w
    BY <1>1, <1>3, <2>2
  <2> QED
    BY <2>1, <2>2
<1> QED
  BY <1>2, <1>3 DEF Abandoned

LEMMA WorkerOwned ==
    ASSUME Typed, SingleDispatch, WorkersOwn, ReaperOwns, NEW w \in Workers, NEW j \in Jobs,
           \A v \in Workers \ {w} : wpc'[v] = wpc[v] /\ wjob'[v] = wjob[v],
           \A k \in Jobs \ {j} : row'[k] = row[k],
           \/ row' = row
           \/ j = wjob[w] /\ wpc[w] \in PickupPcs \cup RunPcs \cup DeadPcs
           \/ row[j].worker = w /\ row'[j].status = row[j].status,
           RunsOwn(w)', StartsOwn(w)', BuriesOwn(w)',
           wpc'[w] \in RunPcs => wpc[w] \in PickupPcs \cup RunPcs /\ wjob'[w] = wjob[w],
           wpc'[w] \in DeadPcs => wpc[w] \in DeadPcs \cup RunPcs /\ wjob'[w] = wjob[w],
           UNCHANGED reaperVars
    PROVE  WorkersOwn' /\ ReaperOwns'
BY OthersOwn, EntriesOwn

LEMMA PickupOwned ==
    ASSUME Typed, SingleDispatch, WorkersOwn, ReaperOwns, NEW w \in Workers, PickupStep(w),
           UNCHANGED reaperVars
    PROVE  WorkersOwn' /\ ReaperOwns'
<1> USE DEF PickupPcs
<1>0. /\ JobStoreTypeOK
      /\ wpc[w] # "idle" => wjob[w] \in Jobs
      /\ RunsOwn(w) /\ StartsOwn(w) /\ BuriesOwn(w)
  BY DEF Typed, WorkerTyped, WorkersOwn
<1>1. ASSUME NEW j \in Jobs, GetJob(w, j) PROVE WorkersOwn' /\ ReaperOwns'
  <2>1. wpc'[w] = "load" /\ row' = row
    BY <1>1 DEF GetJob, At, To, Typed, WorkerTyped
  <2>2. RunsOwn(w)' /\ StartsOwn(w)' /\ BuriesOwn(w)' /\ wpc'[w] \notin RunPcs \cup DeadPcs
    BY <2>1 DEF RunsOwn, StartsOwn, BuriesOwn, RunPcs, AgentPcs, DeadPcs
  <2>3. \A v \in Workers \ {w} : wpc'[v] = wpc[v] /\ wjob'[v] = wjob[v]
    BY <1>1 DEF GetJob, To, Typed, WorkerTyped
  <2> QED
    BY <2>1, <2>2, <2>3, WorkerOwned
<1>2. CASE LoadJob(w) \/ Leave(w) \/ GiveUp(w) \/ (Acquire(w) /\ row' = row /\ Done(w))
  <2>0. PICK j \in Jobs : j = wjob[w]
    BY <1>0, <1>2 DEF LoadJob, Leave, GiveUp, Acquire, At
  <2>1. /\ \A v \in Workers \ {w} : wpc'[v] = wpc[v] /\ wjob'[v] = wjob[v]
        /\ wpc'[w] \in {"acquire", "leave", "idle"}
    BY <1>2 DEF LoadJob, Leave, GiveUp, Goes, Done, To, Typed, WorkerTyped
  <2>2. RunsOwn(w)' /\ StartsOwn(w)' /\ BuriesOwn(w)' /\ wpc'[w] \notin RunPcs \cup DeadPcs
    BY <2>1 DEF RunsOwn, StartsOwn, BuriesOwn, RunPcs, AgentPcs, DeadPcs
  <2>3. /\ \A k \in Jobs \ {j} : row'[k] = row[k]
        /\ row' = row \/ (row[j].worker = w /\ row'[j].status = row[j].status)
    BY <1>0, <1>2, <2>0 DEF LoadJob, Leave, GiveUp, ExpireLease, jobStoreVars, JobStoreTypeOK, Rows
  <2> QED
    BY <2>1, <2>2, <2>3, WorkerOwned
<1>3. CASE Acquire(w) /\ ~(row' = row /\ Done(w))
  <2>0. PICK j \in Jobs : j = wjob[w]
    BY <1>0, <1>3 DEF Acquire, At
  <2> DEFINE r == [row[j] EXCEPT !.worker = w, !.lease = "live"]
  <2>1. row' = [row EXCEPT ![j] = r] /\ Goes(w, "read") /\ wpc[w] = "acquire"
    BY <1>3, <2>0 DEF Acquire, AcquireLease, At
  <2>2. r.worker = w /\ r.lease = "live"
    BY <1>0 DEF JobStoreTypeOK, Rows
  <2>3. /\ \A v \in Workers \ {w} : wpc'[v] = wpc[v] /\ wjob'[v] = wjob[v]
        /\ wpc'[w] = "read" /\ wjob'[w] = j
    BY <2>0, <2>1 DEF Goes, To, Typed, WorkerTyped
  <2>4. row'[j] = r /\ \A k \in Jobs \ {j} : row'[k] = row[k]
    BY <1>0, <2>1 DEF JobStoreTypeOK
  <2>5. RunsOwn(w)' /\ StartsOwn(w)' /\ BuriesOwn(w)' /\ wpc'[w] \notin RunPcs \cup DeadPcs
    BY <2>2, <2>3, <2>4 DEF RunsOwn, StartsOwn, BuriesOwn, RunPcs, AgentPcs, DeadPcs
  <2> QED
    BY <2>0, <2>1, <2>3, <2>4, <2>5, WorkerOwned
<1>4. CASE ReadJob(w)
  <2>1. /\ \A v \in Workers \ {w} : wpc'[v] = wpc[v] /\ wjob'[v] = wjob[v]
        /\ wpc[w] = "read" /\ wpc'[w] = "start" /\ wjob'[w] = wjob[w] /\ row' = row
    BY <1>4 DEF ReadJob, At, To, jobStoreVars, Typed, WorkerTyped
  <2>2. RunsOwn(w)' /\ StartsOwn(w)' /\ BuriesOwn(w)' /\ wpc'[w] \notin RunPcs \cup DeadPcs
    BY <1>0, <2>1 DEF RunsOwn, StartsOwn, BuriesOwn, RunPcs, AgentPcs, DeadPcs
  <2>3. wjob[w] \in Jobs
    BY <1>0, <2>1
  <2> QED
    BY <2>1, <2>2, <2>3, WorkerOwned
<1>5. CASE StartJob(w)
  <2>0. PICK j \in Jobs : j = wjob[w]
    BY <1>0, <1>5 DEF StartJob, At
  <2> DEFINE r == [row[j] EXCEPT !.status = "RUNNING", !.worker = w]
  <2>1. PICK ok \in BOOLEAN :
          Transition(j, wseen[w], r, ok) /\ Goes(w, IF ok THEN "resume" ELSE "expire")
    BY <1>5, <2>0 DEF StartJob
  <2>2. r.status = "RUNNING" /\ r.worker = w /\ r.lease = row[j].lease
    BY <1>0 DEF JobStoreTypeOK, Rows
  <2>3. /\ \A k \in Jobs \ {j} : row'[k] = row[k]
        /\ ok => row'[j] = r
    BY <1>0, <2>1, TransitionOthers
  <2>4. /\ \A v \in Workers \ {w} : wpc'[v] = wpc[v] /\ wjob'[v] = wjob[v]
        /\ wpc'[w] = (IF ok THEN "resume" ELSE "expire") /\ wjob'[w] = j
    BY <2>0, <2>1 DEF Goes, To, Typed, WorkerTyped
  <2>5. wpc[w] = "start" /\ row[j].lease = "live"
    BY <1>0, <1>5, <2>0 DEF StartJob, At, StartsOwn
  <2>6. RunsOwn(w)' /\ StartsOwn(w)' /\ BuriesOwn(w)' /\ wpc'[w] \notin DeadPcs
    BY <2>2, <2>3, <2>4, <2>5 DEF RunsOwn, StartsOwn, BuriesOwn, RunPcs, AgentPcs, DeadPcs, Status
  <2> QED
    BY <2>0, <2>3, <2>4, <2>5, <2>6, WorkerOwned
<1> QED
  BY <1>1, <1>2, <1>3, <1>4, <1>5 DEF PickupStep

\* The steps inside a run, from one place of RunPcs to another.
LEMMA RunOwned ==
    ASSUME Typed, SingleDispatch, WorkersOwn, ReaperOwns, NEW w \in Workers,
           wpc[w] \in RunPcs, wpc'[w] \in RunPcs, row' = row, wjob' = wjob,
           \A v \in Workers \ {w} : wpc'[v] = wpc[v],
           UNCHANGED reaperVars
    PROVE  WorkersOwn' /\ ReaperOwns'
<1>1. RunsOwn(w) /\ wjob[w] \in Jobs
  BY Apart DEF WorkersOwn, Typed, WorkerTyped
<1>2. RunsOwn(w)' /\ StartsOwn(w)' /\ BuriesOwn(w)' /\ wpc'[w] \notin DeadPcs
  BY <1>1, Apart DEF RunsOwn, StartsOwn, BuriesOwn, Status
<1> QED
  BY <1>1, <1>2, WorkerOwned

LEMMA AgentOwned ==
    ASSUME Typed, SingleDispatch, WorkersOwn, ReaperOwns, NEW w \in Workers,
           AgentStep(w) \/ \E error \in {"retry", "fatal", "crash"} : StepRaises(w, error),
           UNCHANGED reaperVars
    PROVE  WorkersOwn' /\ ReaperOwns'
<1>1. /\ wpc[w] \in RunPcs /\ wpc'[w] \in RunPcs /\ wjob' = wjob /\ row' = row
      /\ \A v \in Workers \ {w} : wpc'[v] = wpc[v]
  <2>1. CASE AgentStep(w)
    BY <2>1 DEF AgentStep, ResumeJob, Abort, NextStep, CallCached, CallTool, ToolReturns,
       RecordTool, StepReturns, SaveStep, At, Goes, To, jobStoreVars, Typed, WorkerTyped,
       RunPcs, AgentPcs
  <2>2. CASE \E error \in {"retry", "fatal", "crash"} : StepRaises(w, error)
    BY <2>2 DEF StepRaises, Goes, To, jobStoreVars, Typed, WorkerTyped, RunPcs, AgentPcs
  <2> QED
    BY <2>1, <2>2
<1> QED
  BY <1>1, RunOwned

LEMMA BesideOwned ==
    ASSUME Typed, SingleDispatch, WorkersOwn, ReaperOwns, NEW w \in Workers, BesideStep(w),
           UNCHANGED reaperVars
    PROVE  WorkersOwn' /\ ReaperOwns'
<1>0. PICK j \in Jobs : j = wjob[w]
  BY DEF BesideStep, Heartbeat, HeartbeatFails, WatchCancel, BeatPcs, GatedPcs, AgentPcs, Typed,
     WorkerTyped
<1>1. wpc' = wpc /\ wjob' = wjob
  BY DEF BesideStep, Heartbeat, HeartbeatFails, WatchCancel, workerVars
<1>2. \/ row' = row
      \/ /\ row[j].worker = w
         /\ row' = [row EXCEPT ![j].lease = "live"]
  BY <1>0 DEF BesideStep, Heartbeat, RenewLease, HeartbeatFails, WatchCancel, jobStoreVars
<1>3. /\ \A k \in Jobs \ {j} : row'[k] = row[k]
      /\ row'[j].status = row[j].status /\ row'[j].worker = row[j].worker
      /\ row'[j].lease \in {row[j].lease, "live"}
  BY <1>2 DEF Typed, JobStoreTypeOK, Rows
<1>4. RunsOwn(w) /\ StartsOwn(w) /\ BuriesOwn(w)
  BY DEF WorkersOwn
<1>5. RunsOwn(w)' /\ StartsOwn(w)' /\ BuriesOwn(w)'
  BY <1>0, <1>1, <1>3, <1>4 DEF RunsOwn, StartsOwn, BuriesOwn, Status
<1> QED
  BY <1>0, <1>1, <1>2, <1>3, <1>5, WorkerOwned

LEMMA EndOwned ==
    ASSUME Typed, SingleDispatch, WorkersOwn, ReaperOwns, NEW w \in Workers, EndStep(w),
           UNCHANGED reaperVars
    PROVE  WorkersOwn' /\ ReaperOwns'
<1> USE DEF PickupPcs
<1>0. /\ JobStoreTypeOK
      /\ RunsOwn(w) /\ StartsOwn(w) /\ BuriesOwn(w)
  BY DEF Typed, WorkersOwn
<1>1. PICK j \in Jobs : j = wjob[w]
  BY DEF EndStep, Finish, Cleanup, CancelLoad, CancelSave, FinalizeCancel, HandleFailure,
     ReadRetries, RetryLater, RetriesExhausted, SendToDlq, DeadLetter, At, DeadPcs, Typed,
     WorkerTyped
<1>2. CASE CancelLoad(w) \/ CancelSave(w) \/ ReadRetries(w)
  <2>1. /\ wpc[w] \in RunPcs /\ wpc'[w] \in RunPcs /\ wjob' = wjob /\ row' = row
        /\ \A v \in Workers \ {w} : wpc'[v] = wpc[v]
    BY <1>2 DEF CancelLoad, CancelSave, ReadRetries, At, Goes, To, jobStoreVars, Typed,
       WorkerTyped, RunPcs
  <2> QED
    BY <2>1, RunOwned
<1>3. CASE Finish(w) \/ FinalizeCancel(w) \/ HandleFailure(w) \/ RetryLater(w) \/ Cleanup(w)
  <2>1. /\ \A v \in Workers \ {w} : wpc'[v] = wpc[v] /\ wjob'[v] = wjob[v]
        /\ wpc'[w] \in {"cleanup", "idle"}
        /\ wpc[w] \in RunPcs \/ row' = row
    BY <1>3 DEF Finish, FinalizeCancel, HandleFailure, RetryLater, Cleanup, At, Goes, Done, To,
       Typed, WorkerTyped, RunPcs
  <2>2. RunsOwn(w)' /\ StartsOwn(w)' /\ BuriesOwn(w)' /\ wpc'[w] \notin RunPcs \cup DeadPcs
    BY <2>1 DEF RunsOwn, StartsOwn, BuriesOwn, RunPcs, AgentPcs, DeadPcs
  <2>3. \A k \in Jobs \ {j} : row'[k] = row[k]
    BY <1>0, <1>1, <1>3, TransitionOthers
       DEF Finish, FinalizeCancel, HandleFailure, RetryLater, Cleanup
  <2> QED
    BY <1>1, <2>1, <2>2, <2>3, WorkerOwned
<1>4. CASE RetriesExhausted(w)
  <2> DEFINE r == [Released(row[j], "FAILED") EXCEPT !.retries = wretry[w] + 1]
  <2>1. PICK ok \in BOOLEAN : Transition(j, "RUNNING", r, ok)
    BY <1>1, <1>4 DEF RetriesExhausted
  <2>2. r.status = "FAILED"
    <3>1. Released(row[j], "FAILED") \in Rows /\ Released(row[j], "FAILED").status = "FAILED"
      BY <1>0, RowsTyped, StatusOf DEF Statuses
    <3> QED
      BY <3>1 DEF Rows
  <2>3. wpc[w] = "retried" /\ Goes(w, "deadRetrying")
    BY <1>4 DEF RetriesExhausted, At
  <2>4. /\ \A v \in Workers \ {w} : wpc'[v] = wpc[v] /\ wjob'[v] = wjob[v]
        /\ wpc'[w] = "deadRetrying" /\ wjob'[w] = j
    BY <1>1, <2>3 DEF Goes, To, Typed, WorkerTyped
  <2>5. wpc[w] \in RunPcs /\ Status(j) = "RUNNING"
    BY <1>0, <1>1, <2>3 DEF RunPcs, RunsOwn
  <2>6. row'[j] = r /\ \A k \in Jobs \ {j} : row'[k] = row[k]
    BY <1>0, <2>1, <2>5, TransitionOthers
  <2>7. RunsOwn(w)' /\ StartsOwn(w)' /\ BuriesOwn(w)' /\ wpc'[w] \notin RunPcs
    BY <2>2, <2>4, <2>6 DEF RunsOwn, StartsOwn, BuriesOwn, RunPcs, AgentPcs, Status
  <2> QED
    BY <1>1, <2>4, <2>5, <2>6, <2>7, WorkerOwned
<1>5. CASE SendToDlq(w)
  <2>1. wpc[w] \in DeadPcs
    BY <1>5 DEF SendToDlq, DeadLetter, At, DeadPcs
  <2>2. wpc[w] # "deadRunning" /\ Status(j) = "FAILED"
    BY <1>0, <1>1, <2>1 DEF BuriesOwn
  <2>3. \/ Goes(w, "deadFailed") /\ row' = row
        \/ Done(w)
    BY <1>0, <1>1, <1>5, <2>2, TransitionOthers DEF SendToDlq, DeadLetter, At
  <2>4. \A k \in Jobs \ {j} : row'[k] = row[k]
    BY <1>0, <1>1, <1>5, TransitionOthers DEF SendToDlq, DeadLetter
  <2>5. /\ \A v \in Workers \ {w} : wpc'[v] = wpc[v] /\ wjob'[v] = wjob[v]
        /\ \/ wpc'[w] = "idle"
           \/ wpc'[w] = "deadFailed" /\ wjob'[w] = j /\ row' = row
    BY <1>1, <2>3 DEF Goes, Done, To, Typed, WorkerTyped
  <2>6. RunsOwn(w)' /\ StartsOwn(w)' /\ BuriesOwn(w)' /\ wpc'[w] \notin RunPcs
    BY <2>2, <2>5 DEF RunsOwn, StartsOwn, BuriesOwn, RunPcs, AgentPcs, DeadPcs, Status
  <2>7. wpc'[w] \in DeadPcs => wjob'[w] = wjob[w]
    BY <1>1, <2>5 DEF DeadPcs
  <2> QED
    BY <1>1, <2>1, <2>4, <2>5, <2>6, <2>7, WorkerOwned
<1> QED
  BY <1>2, <1>3, <1>4, <1>5 DEF EndStep

(***************************************************************************)
(* A step of somebody who is no worker.  It moves a row only from a status *)
(* in which no worker owns it, or leaves what an owner looks at.           *)
(***************************************************************************)
Undisturbed(k) ==
    /\ row[k].status \in Waiting \/ row'[k].status = row[k].status
    /\ row'[k].worker = row[k].worker
    /\ row'[k].lease = row[k].lease

\* The statuses of a job some worker is active on.
OwnedStatuses == Waiting \cup {"RUNNING", "FAILED"}

LEMMA BystandersOwn ==
    ASSUME Typed, SingleDispatch, WorkersOwn, wpc' = wpc, wjob' = wjob,
           \A k \in Jobs :
              \/ Undisturbed(k)
              \/ Status(k) \notin OwnedStatuses
              \/ \A w \in Workers : wjob[w] = k => wpc[w] \notin ActivePcs
    PROVE  WorkersOwn'
<1>1. ASSUME NEW w \in Workers PROVE RunsOwn(w)' /\ StartsOwn(w)' /\ BuriesOwn(w)'
  <2>0. RunsOwn(w) /\ StartsOwn(w) /\ BuriesOwn(w)
    BY DEF WorkersOwn
  <2>1. CASE wpc[w] \notin ActivePcs
    BY <2>1 DEF ActivePcs, RunsOwn, StartsOwn, BuriesOwn
  <2>2. CASE wpc[w] \in ActivePcs
    <3>1. wjob[w] \in Jobs /\ Status(wjob[w]) \in OwnedStatuses
      BY <2>2, Apart, StatusOfWorker DEF ActivePcs, OwnedStatuses
    <3>2. Undisturbed(wjob[w])
      BY <2>2, <3>1
    <3> QED
      BY <2>0, <3>2 DEF Undisturbed, Waiting, RunsOwn, StartsOwn, BuriesOwn, Status
  <2> QED
    BY <2>1, <2>2
<1>2. \A v, w \in Workers : wpc'[v] \in DeadPcs /\ wpc'[w] \in DeadPcs /\ wjob'[v] = wjob'[w] => v = w
  BY DEF WorkersOwn
<1> QED
  BY <1>1, <1>2 DEF WorkersOwn

LEMMA BystandersAbandon ==
    ASSUME Typed, ReaperOwns, wpc' = wpc, wjob' = wjob,
           \A e \in Snapshots : Pending(e)' => Pending(e) \/ Abandoned(e) \/ e.status # "RUNNING",
           \A e \in Snapshots : Pending(e)' /\ Status(e.job) = "RUNNING"
                                   => row'[e.job].status = "RUNNING"
    PROVE  ReaperOwns'
<1> SUFFICES ASSUME NEW e \in Snapshots, Pending(e)', e.status = "RUNNING" PROVE Abandoned(e)'
  BY DEF ReaperOwns, Snapshots
<1>1. Abandoned(e)
  BY DEF ReaperOwns
<1> QED
  BY <1>1 DEF Abandoned, Status

LEMMA TransitionFrom ==
    ASSUME JobStoreTypeOK, NEW j \in Jobs, NEW from, from \notin OwnedStatuses, NEW r, NEW ok,
           Transition(j, from, r, ok)
    PROVE  /\ \A k \in Jobs : Undisturbed(k) \/ Status(k) \notin OwnedStatuses
           /\ \A k \in Jobs : Status(k) = "RUNNING" => row'[k].status = "RUNNING"
BY DEF Transition, Status, JobStoreTypeOK, Undisturbed, OwnedStatuses

LEMMA TimerOwned ==
    ASSUME Typed, SingleDispatch, WorkersOwn, ReaperOwns, NEW t \in Timers, TimerStep(t),
           UNCHANGED reaperVars
    PROVE  WorkersOwn' /\ ReaperOwns'
<1>0. JobStoreTypeOK /\ (tpc[t] # "off" => tjob[t] \in Jobs)
  BY DEF Typed, TimerTyped
<1>1. wpc' = wpc /\ wjob' = wjob
  BY DEF TimerStep, TimerWakes, TimerCancels, TimerRequeues, TimerPublishes, workerVars
<1>2. /\ \A k \in Jobs : Undisturbed(k) \/ Status(k) \notin OwnedStatuses
      /\ \A k \in Jobs : Status(k) = "RUNNING" => row'[k].status = "RUNNING"
  <2>1. CASE TimerWakes(t) \/ TimerPublishes(t)
    BY <2>1 DEF TimerWakes, TimerPublishes, jobStoreVars, Undisturbed, Status
  <2>2. CASE TimerCancels(t) \/ TimerRequeues(t)
    <3>1. PICK j \in Jobs : \E r : \E ok \in BOOLEAN : Transition(j, "RETRYING", r, ok)
      BY <1>0, <2>2 DEF TimerCancels, TimerRequeues
    <3> QED
      BY <1>0, <3>1, TransitionFrom DEF OwnedStatuses, Waiting
  <2> QED
    BY <2>1, <2>2 DEF TimerStep
<1>3. \A e \in Snapshots : Pending(e)' => Pending(e)
  BY DEF Pending, reaperVars
<1>4. \A e \in Snapshots : e.job \in Jobs
  BY DEF Snapshots
<1> QED
  BY <1>1, <1>2, <1>3, <1>4, BystandersOwn, BystandersAbandon

LEMMA ClientOwned ==
    ASSUME Typed, SingleDispatch, WorkersOwn, ReaperOwns, NEW c \in Clients,
           \/ ClientStep(c)
           \/ \E j \in Jobs : Create(c, j) \/ ReadForCancel(c, j) \/ ReadForRequeue(c, j),
           UNCHANGED <<workerVars, reaperVars>>
    PROVE  WorkersOwn' /\ ReaperOwns'
<1>0. JobStoreTypeOK /\ (cpc[c] # "idle" => cjob[c] \in Jobs)
  BY DEF Typed, ClientTyped
<1>1. wpc' = wpc /\ wjob' = wjob
  BY DEF workerVars
<1>2. ASSUME NEW k \in Jobs
      PROVE  /\ \/ Undisturbed(k)
                \/ Status(k) \notin OwnedStatuses
                \/ \A w \in Workers : wjob[w] = k => wpc[w] \notin ActivePcs
             /\ Status(k) = "RUNNING" => row'[k].status = "RUNNING"
  <2>1. CASE ClientPublishes(c) \/ \E j \in Jobs : ReadForCancel(c, j) \/ ReadForRequeue(c, j)
    BY <2>1 DEF ClientPublishes, ReadForCancel, ReadForRequeue, jobStoreVars, Undisturbed, Status
  <2>2. CASE CancelFlag(c)
    BY <1>0, <2>2 DEF CancelFlag, SetCancelRequested, JobStoreTypeOK, Rows, Undisturbed, Status
  <2>3. CASE Requeue(c)
    <3>1. PICK j \in Jobs : \E r : \E ok \in BOOLEAN : Transition(j, "DEAD", r, ok)
      BY <1>0, <2>3 DEF Requeue
    <3> QED
      BY <1>0, <3>1, TransitionFrom DEF OwnedStatuses, Waiting
  <2>4. CASE \E j \in Jobs : Create(c, j)
    <3>1. PICK j \in Jobs : Create(c, j)
      BY <2>4
    <3>2. Transition(j, "ABSENT", [NoRow EXCEPT !.status = "QUEUED"], TRUE)
      BY <3>1 DEF Create, Transition
    <3> QED
      BY <1>0, <3>2, TransitionFrom DEF OwnedStatuses, Waiting
  <2>5. CASE CancelQueued(c)
    <3>1. PICK j \in Jobs, ok \in BOOLEAN :
            Transition(j, "QUEUED", [row[j] EXCEPT !.status = "CANCELLED"], ok)
      BY <1>0, <2>5 DEF CancelQueued
    <3>2. /\ [row[j] EXCEPT !.status = "CANCELLED"].worker = row[j].worker
          /\ [row[j] EXCEPT !.status = "CANCELLED"].lease = row[j].lease
      BY <1>0 DEF JobStoreTypeOK, Rows
    <3> DEFINE r == [row[j] EXCEPT !.status = "CANCELLED"]
    <3>3. /\ \A i \in Jobs \ {j} : row'[i] = row[i]
          /\ ok => row'[j] = r /\ row[j].status = "QUEUED"
          /\ ~ok => row' = row
      BY <1>0, <3>1, TransitionOthers DEF Status
    <3>4. r.worker = row[j].worker /\ r.lease = row[j].lease
      BY <3>2
    <3> HIDE DEF r
    <3>5. Undisturbed(k)
      BY <3>1, <3>3, <3>4 DEF Undisturbed, Waiting
    <3>6. Status(k) = "RUNNING" => row'[k].status = "RUNNING"
      BY <3>1, <3>3 DEF Status
    <3> QED
      BY <3>5, <3>6
  <2> QED
    BY <2>1, <2>2, <2>3, <2>4, <2>5 DEF ClientStep
<1>3. \A e \in Snapshots : Pending(e)' => Pending(e)
  BY DEF Pending, reaperVars
<1>4. \A e \in Snapshots : e.job \in Jobs
  BY DEF Snapshots
<1> QED
  BY <1>1, <1>2, <1>3, <1>4, BystandersOwn, BystandersAbandon

LEMMA EntryNext == Typed /\ OneEntry /\ [Next]_vars => OneEntry'
<1> SUFFICES ASSUME Typed, OneEntry, [Next]_vars PROVE OneEntry'
  OBVIOUS
<1>1. CASE ReaperMove
  BY <1>1 DEF ReaperMove, ReaperStep, Scan, CheckCancel, ReaperCancels, ReaperRequeues,
     ReaperPublishes, ReaperRests, OneEntry
<1>2. CASE ProcessCrash
  BY <1>2 DEF ProcessCrash, ReaperStops, OneEntry
<1>3. CASE UNCHANGED reaperVars
  BY <1>3 DEF reaperVars, OneEntry
<1>4. ReaperMove \/ ProcessCrash \/ UNCHANGED reaperVars
  BY DEF Next, WorkerMove, AgentCrash, BesideMove, TimerMove, ClientMove, ClientCreates,
     ClientCancels, ClientRequeues, LeaseExpires, vars, reaperVars
<1> QED
  BY <1>1, <1>2, <1>3, <1>4

\* Where a snapshot says RUNNING and still has to be acted on, nobody runs.
LEMMA ReaperOwned ==
    ASSUME Typed, SingleDispatch, WorkersOwn, ReaperOwns, OneEntry, ReaperStep,
           UNCHANGED workerVars
    PROVE  WorkersOwn' /\ ReaperOwns'
<1>0. JobStoreTypeOK /\ wpc' = wpc /\ wjob' = wjob /\ \A e \in Snapshots : e.job \in Jobs
  BY DEF Typed, workerVars, Snapshots
<1>1. CASE Scan
  <2>1. row' = row
    BY <1>1 DEF Scan, jobStoreVars
  <2>2. ASSUME NEW e \in Snapshots, Pending(e)', e.status = "RUNNING" PROVE Abandoned(e)
    <3>1. e \in rtodo'
      BY <1>1, <2>2 DEF Scan, Pending
    <3>2. Status(e.job) = "RUNNING" /\ row[e.job].lease = "expired"
      BY <1>1, <2>2, <3>1 DEF Scan, Recoverable
    <3> QED
      BY <3>2 DEF Abandoned, WorkersOwn, RunsOwn
  <2> QED
    BY <1>0, <2>1, <2>2, BystandersOwn, BystandersAbandon DEF Undisturbed, Status
<1>2. CASE (\E e \in rtodo : CheckCancel(e)) \/ ReaperPublishes
  <2>1. row' = row
    BY <1>2 DEF CheckCancel, ReaperPublishes, jobStoreVars
  <2>2. \A e \in Snapshots : Pending(e)' => Pending(e)
    BY <1>2 DEF CheckCancel, ReaperPublishes, ReaperRests, Pending
  <2> QED
    BY <1>0, <2>1, <2>2, BystandersOwn, BystandersAbandon DEF Undisturbed, Status
<1>3. CASE ReaperCancels \/ ReaperRequeues
  <2>0. rpc \in {"cancel", "requeue"} /\ rseen \in Snapshots
    BY <1>3 DEF ReaperCancels, ReaperRequeues, Typed, ReaperTyped
  <2>1. PICK j \in Jobs, from \in {"RUNNING", "RETRYING"} : j = rseen.job /\ from = rseen.status
    BY <2>0 DEF Snapshots
  <2>2. PICK s \in {"CANCELLED", "QUEUED"}, ok \in BOOLEAN : Transition(j, from, Settled(row[j], s), ok)
    BY <1>3, <2>1 DEF ReaperCancels, ReaperRequeues
  <2>3. \A k \in Jobs \ {j} : row'[k] = row[k]
    BY <1>0, <2>2, TransitionOthers
  <2>4. \A e \in Snapshots : Pending(e)' => Pending(e) /\ e.job # j
    BY <1>3, <2>1 DEF ReaperCancels, ReaperRequeues, ReaperRests, Pending, OneEntry
  <2>5. \/ Undisturbed(j)
        \/ Status(j) \notin OwnedStatuses
        \/ \A w \in Workers : wjob[w] = j => wpc[w] \notin ActivePcs
    <3>1. CASE from = "RETRYING"
      BY <1>0, <2>2, <3>1, TransitionFrom DEF OwnedStatuses, Waiting
    <3>2. CASE from = "RUNNING"
      <4>1. Abandoned(rseen)
        BY <2>0, <2>1, <3>2 DEF ReaperOwns, Pending
      <4>2. Status(j) = "RUNNING" /\ \A w \in Workers : wjob[w] = j => wpc[w] \notin RunPcs
        BY <2>1, <4>1 DEF Abandoned
      <4> QED
        BY <4>2, Apart, StatusOfWorker DEF ActivePcs, Waiting
    <3> QED
      BY <2>1, <3>1, <3>2
  <2>6. \A k \in Jobs : \/ Undisturbed(k)
                        \/ Status(k) \notin OwnedStatuses
                        \/ \A w \in Workers : wjob[w] = k => wpc[w] \notin ActivePcs
    BY <2>3, <2>5 DEF Undisturbed
  <2>7. \A e \in Snapshots : Pending(e)' /\ Status(e.job) = "RUNNING"
                                => row'[e.job].status = "RUNNING"
    BY <1>0, <2>3, <2>4 DEF Status
  <2> QED
    BY <1>0, <2>4, <2>6, <2>7, BystandersOwn, BystandersAbandon
<1> QED
  BY <1>1, <1>2, <1>3 DEF ReaperStep

\* The lease of a live worker's job does not run out.
LEMMA LeaseOwned ==
    ASSUME Typed, SingleDispatch, WorkersOwn, ReaperOwns, NEW j \in Jobs, LeaseExpires(j),
           stalls = 0, stalls' = 0
    PROVE  WorkersOwn' /\ ReaperOwns'
<1>0. JobStoreTypeOK /\ wpc' = wpc /\ wjob' = wjob /\ \A e \in Snapshots : e.job \in Jobs
  BY DEF Typed, LeaseExpires, workerVars, Snapshots
<1>1. ~Kept(j) /\ row' = [row EXCEPT ![j].lease = "expired"]
  BY DEF LeaseExpires
<1>2. \A w \in Workers : wjob[w] = j => wpc[w] \notin RunPcs \cup {"read", "start"}
  BY <1>1 DEF Kept, WorkersOwn, RunsOwn, StartsOwn, BeatPcs, WorkerPcs, PickupPcs, RunPcs, AgentPcs
<1>3. /\ \A k \in Jobs \ {j} : row'[k] = row[k]
      /\ row'[j].status = row[j].status
  BY <1>0, <1>1 DEF JobStoreTypeOK, Rows
<1>4. ASSUME NEW w \in Workers PROVE RunsOwn(w)' /\ StartsOwn(w)' /\ BuriesOwn(w)'
  <2>1. RunsOwn(w) /\ StartsOwn(w) /\ BuriesOwn(w)
    BY DEF WorkersOwn
  <2>2. wpc[w] \in ActivePcs => wjob[w] \in Jobs
    BY Apart, StatusOfWorker DEF ActivePcs
  <2> QED
    BY <1>0, <1>2, <1>3, <2>1, <2>2 DEF ActivePcs, RunsOwn, StartsOwn, BuriesOwn, Status
<1>5. WorkersOwn'
  BY <1>0, <1>4 DEF WorkersOwn
<1>6. \A e \in Snapshots : Pending(e)' => Pending(e)
  BY DEF LeaseExpires, reaperVars, Pending
<1>7. \A e \in Snapshots : Status(e.job) = "RUNNING" => row'[e.job].status = "RUNNING"
  BY <1>0, <1>3 DEF Status
<1> QED
  BY <1>0, <1>5, <1>6, <1>7, BystandersAbandon

LEMMA StallsGrow ==
    ASSUME Typed, [Next]_vars, stalls' = 0
    PROVE  stalls = 0
<1>1. stalls' = stalls \/ stalls' = stalls + 1
  BY DEF Next, WorkerMove, AgentCrash, BesideMove, TimerMove, ReaperMove, ClientMove,
     ClientCreates, ClientCancels, ClientRequeues, LeaseExpires, ProcessCrash, budgetVars, vars
<1> QED
  BY <1>1 DEF Typed, BudgetTyped

LEMMA OwnedNext == Typed /\ SingleDispatch /\ Owned /\ [Next]_vars => Owned'
<1> SUFFICES ASSUME Typed, SingleDispatch, Owned, [Next]_vars, stalls' = 0
             PROVE  WorkersOwn' /\ ReaperOwns'
  BY EntryNext DEF Owned
<1>0. stalls = 0 /\ OneEntry /\ WorkersOwn /\ ReaperOwns
  BY StallsGrow DEF Owned
<1>1. ASSUME NEW w \in Workers, WorkerMove(w) \/ AgentCrash(w) \/ BesideMove(w)
      PROVE  WorkersOwn' /\ ReaperOwns'
  <2>1. UNCHANGED reaperVars
    BY <1>1 DEF WorkerMove, AgentCrash, BesideMove
  <2> QED
    BY <1>0, <1>1, <2>1, PickupOwned, AgentOwned, EndOwned, BesideOwned
       DEF WorkerMove, AgentCrash, BesideMove
<1>2. ASSUME NEW t \in Timers, TimerMove(t) PROVE WorkersOwn' /\ ReaperOwns'
  BY <1>0, <1>2, TimerOwned DEF TimerMove
<1>3. CASE ReaperMove
  BY <1>0, <1>3, ReaperOwned DEF ReaperMove
<1>4. ASSUME NEW c \in Clients,
             ClientMove(c) \/ ClientCreates(c) \/ ClientCancels(c) \/ ClientRequeues(c)
      PROVE  WorkersOwn' /\ ReaperOwns'
  BY <1>0, <1>4, ClientOwned DEF ClientMove, ClientCreates, ClientCancels, ClientRequeues
<1>5. ASSUME NEW j \in Jobs, LeaseExpires(j) PROVE WorkersOwn' /\ ReaperOwns'
  BY <1>0, <1>5, LeaseOwned
<1>6. CASE ProcessCrash
  <2>1. \A w \in Workers : wpc'[w] \notin RunPcs \cup DeadPcs \cup {"read", "start"}
    BY <1>6 DEF ProcessCrash, WorkersStop, RunPcs, AgentPcs, DeadPcs
  <2>2. rtodo' = {} /\ rpc' = "idle"
    BY <1>6 DEF ProcessCrash, ReaperStops
  <2> QED
    BY <2>1, <2>2 DEF WorkersOwn, RunsOwn, StartsOwn, BuriesOwn, ReaperOwns, Pending
<1>7. CASE UNCHANGED vars
  <2>1. /\ wpc' = wpc /\ wjob' = wjob /\ row' = row
        /\ \A e \in Snapshots : Pending(e)' => Pending(e)
    BY <1>7 DEF vars, workerVars, jobStoreVars, reaperVars, Pending
  <2> QED
    BY <1>0, <2>1, BystandersOwn, BystandersAbandon DEF Undisturbed, Status
<1> QED
  BY <1>1, <1>2, <1>3, <1>4, <1>5, <1>6, <1>7 DEF Next

LEMMA AlwaysOwned == Spec => []Owned
BY OwnedInit, OwnedNext, AlwaysTyped, DispatchesSingly, PTL DEF Spec

\* Unless a lease ran out under a live task, the worker in the middle of a run
\* is the one the row of its job names, and the row says RUNNING: retries, the
\* reaper and requeues never put two workers on one job.
THEOREM RunsAreExclusive == Spec => []RunnerOwnsJob
<1>1. Owned => RunnerOwnsJob
  BY DEF Owned, WorkersOwn, RunsOwn, RunnerOwnsJob
<1> QED
  BY <1>1, AlwaysOwned, PTL

(***************************************************************************)
(* A running agent knows every tool call its job's checkpoint has recorded *)
(* as made: it loaded the checkpoint, and nobody else has saved since.     *)
(***************************************************************************)
KnowingPcs == {"step", "work", "call", "tool", "record", "save"}

Knowing ==
    stalls = 0 =>
       \A w \in Workers :
          wpc[w] \in KnowingPcs => cp[wjob[w]].tools \subseteq wstate[w].tools

LEMMA KnowingInit == Init => Knowing
BY DEF Init, JobWorkerInit, Knowing, KnowingPcs

LEMMA KnowingKept ==
    ASSUME Typed, Knowing, stalls = 0,
           \A w \in Workers : wpc'[w] \in KnowingPcs =>
              /\ wpc[w] \in KnowingPcs /\ wjob'[w] = wjob[w] /\ wstate'[w] = wstate[w]
              /\ cp'[wjob[w]] = cp[wjob[w]] \/ cp'[wjob[w]].tools = {}
    PROVE  Knowing'
BY DEF Knowing

LEMMA AgentKnows ==
    ASSUME Typed, SingleDispatch, WorkersOwn, Knowing, stalls = 0, NEW w \in Workers, AgentStep(w)
    PROVE  Knowing'
<1>0. wpc[w] \in RunPcs /\ wjob[w] \in Jobs
  BY DEF AgentStep, ResumeJob, Abort, NextStep, CallCached, CallTool, ToolReturns, RecordTool,
     StepReturns, SaveStep, At, RunPcs, AgentPcs, Typed, WorkerTyped
<1>1. /\ wjob' = wjob
      /\ \A v \in Workers \ {w} : wpc'[v] = wpc[v] /\ wstate'[v] = wstate[v]
  BY DEF AgentStep, ResumeJob, Abort, NextStep, CallCached, CallTool, ToolReturns, RecordTool,
     StepReturns, SaveStep, At, Goes, To, Typed, WorkerTyped
<1>2. cp' = cp \/ cp' = [cp EXCEPT ![wjob[w]] = wstate[w]]
  BY DEF AgentStep, ResumeJob, Abort, NextStep, CallCached, CallTool, ToolReturns, RecordTool,
     StepReturns, SaveStep, SaveCheckpoint, jobStoreVars
<1>3. ASSUME NEW v \in Workers \ {w}, wpc'[v] \in KnowingPcs
      PROVE  cp'[wjob[v]].tools \subseteq wstate'[v].tools
  <2>1. wpc[v] \in RunPcs /\ wpc[v] \in KnowingPcs
    BY <1>1, <1>3 DEF KnowingPcs, RunPcs, AgentPcs
  <2>2. wjob[v] # wjob[w]
    BY <1>0, <2>1 DEF WorkersOwn, RunsOwn
  <2>3. wjob[v] \in Jobs /\ cp \in [Jobs -> AgentStates]
    BY <2>1, Apart DEF Typed, WorkerTyped, JobStoreTypeOK
  <2>4. cp'[wjob[v]] = cp[wjob[v]]
    BY <1>2, <2>2, <2>3
  <2> QED
    BY <1>1, <2>1, <2>4 DEF Knowing
<1>4. ASSUME wpc'[w] \in KnowingPcs PROVE cp'[wjob[w]].tools \subseteq wstate'[w].tools
  <2>0. wstate[w] \in AgentStates /\ wstate \in [Workers -> AgentStates] /\ cp \in [Jobs -> AgentStates]
    BY DEF Typed, WorkerTyped, JobStoreTypeOK
  <2>1. CASE ResumeJob(w)
    BY <2>0, <2>1 DEF ResumeJob, jobStoreVars
  <2>2. CASE Abort(w)
    BY <1>4, <2>2 DEF Abort, Goes, To, KnowingPcs, Typed, WorkerTyped
  <2>3. CASE NextStep(w) \/ CallCached(w)
    BY <2>3 DEF NextStep, CallCached, At, Goes, jobStoreVars, Knowing, KnowingPcs
  <2>4. CASE CallTool(w) \/ RecordTool(w) \/ SaveStep(w)
    <3>1. cp[wjob[w]].tools \subseteq wstate[w].tools
      BY <2>4 DEF CallTool, RecordTool, SaveStep, At, Knowing, KnowingPcs
    <3>2. wstate' = wstate
      BY <2>4 DEF CallTool, RecordTool, SaveStep, Goes
    <3>3. cp'[wjob[w]] \in {cp[wjob[w]], wstate[w]}
      BY <1>0, <1>2, <2>0
    <3> QED
      BY <3>1, <3>2, <3>3
  <2>5. CASE ToolReturns(w) \/ StepReturns(w)
    <3>1. cp[wjob[w]].tools \subseteq wstate[w].tools /\ cp' = cp
      BY <2>5 DEF ToolReturns, StepReturns, At, jobStoreVars, Knowing, KnowingPcs
    <3>2. wstate[w].tools \subseteq wstate'[w].tools
      BY <2>0, <2>5 DEF ToolReturns, StepReturns, AgentStates
    <3> QED
      BY <3>1, <3>2
  <2> QED
    BY <2>1, <2>2, <2>3, <2>4, <2>5 DEF AgentStep
<1> QED
  BY <1>1, <1>3, <1>4 DEF Knowing

LEMMA EndKnows ==
    ASSUME Typed, SingleDispatch, WorkersOwn, Knowing, stalls = 0, NEW w \in Workers, EndStep(w)
    PROVE  Knowing'
<1>0. /\ wpc[w] # "idle" => wjob[w] \in Jobs
      /\ cp \in [Jobs -> AgentStates]
  BY DEF Typed, WorkerTyped, JobStoreTypeOK
<1>1. /\ \A v \in Workers \ {w} : wpc'[v] = wpc[v] /\ wstate'[v] = wstate[v] /\ wjob'[v] = wjob[v]
      /\ wpc'[w] \notin KnowingPcs
  BY DEF EndStep, Finish, Cleanup, CancelLoad, CancelSave, FinalizeCancel, HandleFailure,
     ReadRetries, RetryLater, RetriesExhausted, SendToDlq, DeadLetter, At, Done, Goes, To,
     KnowingPcs, DeadPcs, Typed, WorkerTyped
<1>2. \/ cp' = cp
      \/ wjob[w] \in Jobs /\ cp' = [cp EXCEPT ![wjob[w]] = Fresh]
      \/ wjob[w] \in Jobs /\ wpc[w] = "cancelSave" /\ cp' = [cp EXCEPT ![wjob[w]] = wstate[w]]
  BY <1>0 DEF EndStep, Finish, Cleanup, CancelLoad, CancelSave, FinalizeCancel, HandleFailure,
     ReadRetries, RetryLater, RetriesExhausted, SendToDlq, DeadLetter, At, jobStoreVars,
     DeleteCheckpoint, SaveCheckpoint
<1>3. ASSUME NEW v \in Workers \ {w}, wpc[v] \in KnowingPcs
      PROVE  cp'[wjob[v]] = cp[wjob[v]] \/ cp'[wjob[v]].tools = {}
  <2>1. wpc[v] \in RunPcs
    BY <1>3 DEF KnowingPcs, RunPcs, AgentPcs
  <2>2. wpc[w] = "cancelSave" => wjob[v] # wjob[w]
    BY <2>1 DEF WorkersOwn, RunsOwn, RunPcs
  <2>3. wjob[v] \in Jobs
    BY <2>1, Apart DEF Typed, WorkerTyped
  <2> QED
    BY <1>0, <1>2, <2>2, <2>3 DEF Fresh
<1> QED
  BY <1>1, <1>3, KnowingKept

LEMMA KnowingNext == Typed /\ SingleDispatch /\ Owned /\ Knowing /\ [Next]_vars => Knowing'
<1> SUFFICES ASSUME Typed, SingleDispatch, Owned, Knowing, [Next]_vars, stalls' = 0 PROVE Knowing'
  BY DEF Knowing
<1>0. stalls = 0 /\ WorkersOwn
  BY StallsGrow DEF Owned
<1>1. ASSUME NEW w \in Workers, PickupStep(w) PROVE Knowing'
  <2>1. /\ \A v \in Workers \ {w} : wpc'[v] = wpc[v] /\ wstate'[v] = wstate[v] /\ wjob'[v] = wjob[v]
        /\ wpc'[w] \notin KnowingPcs
        /\ cp' = cp
    BY <1>1 DEF PickupStep, GetJob, LoadJob, Acquire, ReadJob, StartJob, GiveUp, Leave, At, Done,
       Goes, To, KnowingPcs, jobStoreVars, Typed, WorkerTyped
  <2> QED
    BY <1>0, <2>1, KnowingKept
<1>2. ASSUME NEW w \in Workers, \E error \in {"retry", "fatal", "crash"} : StepRaises(w, error)
      PROVE  Knowing'
  <2>1. /\ \A v \in Workers \ {w} : wpc'[v] = wpc[v]
        /\ wpc'[w] \notin KnowingPcs
        /\ cp' = cp /\ wstate' = wstate /\ wjob' = wjob
    BY <1>2 DEF StepRaises, Goes, To, KnowingPcs, jobStoreVars, Typed, WorkerTyped
  <2> QED
    BY <1>0, <2>1, KnowingKept
<1>3. CASE UNCHANGED <<cp, wpc, wjob, wstate>>
  BY <1>0, <1>3, KnowingKept
<1>4. CASE ProcessCrash
  <2>1. \A w \in Workers : wpc'[w] \notin KnowingPcs
    BY <1>4 DEF ProcessCrash, WorkersStop, KnowingPcs
  <2> QED
    BY <2>1 DEF Knowing
<1>5. \/ \E w \in Workers : PickupStep(w) \/ AgentStep(w) \/ EndStep(w)
                            \/ \E error \in {"retry", "fatal", "crash"} : StepRaises(w, error)
      \/ UNCHANGED <<cp, wpc, wjob, wstate>>
      \/ ProcessCrash
  <2>1. ASSUME NEW w \in Workers, BesideMove(w) PROVE UNCHANGED <<cp, wpc, wjob, wstate>>
    BY <2>1 DEF BesideMove, BesideStep, Heartbeat, HeartbeatFails, WatchCancel, jobStoreVars, workerVars
  <2>2. ASSUME NEW t \in Timers, TimerMove(t) PROVE UNCHANGED <<cp, wpc, wjob, wstate>>
    BY <2>2 DEF TimerMove, TimerStep, TimerWakes, TimerCancels, TimerRequeues, TimerPublishes,
       jobStoreVars, workerVars
  <2>3. ASSUME ReaperMove PROVE UNCHANGED <<cp, wpc, wjob, wstate>>
    BY <2>3 DEF ReaperMove, ReaperStep, Scan, CheckCancel, ReaperCancels, ReaperRequeues,
       ReaperPublishes, jobStoreVars, workerVars
  <2>4. ASSUME NEW c \in Clients,
               ClientMove(c) \/ ClientCreates(c) \/ ClientCancels(c) \/ ClientRequeues(c)
        PROVE  UNCHANGED <<cp, wpc, wjob, wstate>>
    BY <2>4 DEF ClientMove, ClientCreates, ClientCancels, ClientRequeues, ClientStep,
       ClientPublishes, CancelQueued, CancelFlag, Requeue, Create, ReadForCancel,
       ReadForRequeue, jobStoreVars, workerVars
  <2>5. ASSUME NEW j \in Jobs, LeaseExpires(j) PROVE UNCHANGED <<cp, wpc, wjob, wstate>>
    BY <2>5 DEF LeaseExpires, workerVars
  <2>6. ASSUME UNCHANGED vars PROVE UNCHANGED <<cp, wpc, wjob, wstate>>
    BY <2>6 DEF vars, jobStoreVars, workerVars
  <2>7. ASSUME NEW w \in Workers, WorkerMove(w) \/ AgentCrash(w)
        PROVE  \/ PickupStep(w) \/ AgentStep(w) \/ EndStep(w)
               \/ \E error \in {"retry", "fatal", "crash"} : StepRaises(w, error)
    BY <2>7 DEF WorkerMove, AgentCrash
  <2> QED
    BY <2>1, <2>2, <2>3, <2>4, <2>5, <2>6, <2>7 DEF Next
<1> QED
  BY <1>0, <1>1, <1>2, <1>3, <1>4, <1>5, AgentKnows, EndKnows

LEMMA AlwaysKnowing == Spec => []Knowing
BY KnowingInit, KnowingNext, AlwaysTyped, DispatchesSingly, AlwaysOwned, PTL DEF Spec

\* Only CallTool enters a tool call, and it asks what the agent knows.
LEMMA ToolStep ==
    ASSUME Typed, Knowing, [Next]_vars, stalls = 0, NEW w \in Workers,
           wpc[w] # "tool", wpc'[w] = "tool"
    PROVE  CurrentStep(w) \notin cp[wjob[w]].tools
<1>1. CallTool(w)
  <2>1. ASSUME NEW v \in Workers, PickupStep(v) \/ AgentStep(v) \/ EndStep(v)
                 \/ \E error \in {"retry", "fatal", "crash"} : StepRaises(v, error)
        PROVE  CallTool(w)
    <3>1. CASE v # w
      <4>1. wpc'[w] = wpc[w]
        BY <2>1, <3>1 DEF PickupStep, GetJob, LoadJob, Acquire, ReadJob, StartJob, GiveUp, Leave,
           AgentStep, ResumeJob, Abort, NextStep, CallCached, CallTool, ToolReturns, RecordTool,
           StepReturns, SaveStep, EndStep, Finish, Cleanup, CancelLoad, CancelSave,
           FinalizeCancel, HandleFailure, ReadRetries, RetryLater, RetriesExhausted, SendToDlq,
           DeadLetter, StepRaises, Done, Goes, To, Typed, WorkerTyped
      <4> QED
        BY <4>1
    <3>2. CASE v = w
      BY <2>1, <3>2 DEF PickupStep, GetJob, LoadJob, Acquire, ReadJob, StartJob, GiveUp, Leave,
         AgentStep, ResumeJob, Abort, NextStep, CallCached, ToolReturns, RecordTool,
         StepReturns, SaveStep, EndStep, Finish, Cleanup, CancelLoad, CancelSave,
         FinalizeCancel, HandleFailure, ReadRetries, RetryLater, RetriesExhausted, SendToDlq,
         DeadLetter, StepRaises, Done, Goes, To, Typed, WorkerTyped
    <3> QED
      BY <3>1, <3>2
  <2>2. ASSUME NEW v \in Workers, BesideMove(v) PROVE wpc' = wpc
    BY <2>2 DEF BesideMove, BesideStep, Heartbeat, HeartbeatFails, WatchCancel, workerVars
  <2>3. ASSUME NEW t \in Timers, TimerMove(t) PROVE wpc' = wpc
    BY <2>3 DEF TimerMove, TimerStep, TimerWakes, TimerCancels, TimerRequeues, TimerPublishes, workerVars
  <2>4. ASSUME ReaperMove PROVE wpc' = wpc
    BY <2>4 DEF ReaperMove, workerVars
  <2>5. ASSUME NEW c \in Clients,
               ClientMove(c) \/ ClientCreates(c) \/ ClientCancels(c) \/ ClientRequeues(c)
        PROVE  wpc' = wpc
    BY <2>5 DEF ClientMove, ClientCreates, ClientCancels, ClientRequeues, workerVars
  <2>6. ASSUME NEW j \in Jobs, LeaseExpires(j) PROVE wpc' = wpc
    BY <2>6 DEF LeaseExpires, workerVars
  <2>7. ASSUME ProcessCrash PROVE wpc'[w] = "idle"
    BY <2>7 DEF ProcessCrash, WorkersStop
  <2>8. ASSUME UNCHANGED vars PROVE wpc' = wpc
    BY <2>8 DEF vars, workerVars
  <2> QED
    BY <2>1, <2>2, <2>3, <2>4, <2>5, <2>6, <2>7, <2>8 DEF Next, WorkerMove, AgentCrash
<1> QED
  BY <1>1 DEF CallTool, At, Knowing, KnowingPcs

\* Without a stall, a tool call whose success a checkpoint recorded is never
\* made again, over any number of retries, recoveries and process crashes.
THEOREM ToolsAreNotRepeated == Spec => ToolNotRepeated
<1>1. Typed /\ Knowing /\ [Next]_vars
         => [stalls = 0 =>
               \A w \in Workers :
                  wpc[w] # "tool" /\ wpc'[w] = "tool"
                     => CurrentStep(w) \notin cp[wjob[w]].tools]_vars
  BY ToolStep
<1> QED
  BY <1>1, AlwaysTyped, AlwaysKnowing, PTL DEF Spec, ToolNotRepeated

(***************************************************************************)
(* Without a cancel request nothing is ever cancelled.                     *)
(***************************************************************************)
CleanRows == \A j \in Jobs : ~row[j].cancel /\ Status(j) # "CANCELLED"

CleanTasks ==
    /\ \A w \in Workers : /\ "cancel" \notin gate[w]
                          /\ wpc[w] \notin {"cancelLoad", "cancelSave", "cancelled"}
    /\ \A t \in Timers : tpc[t] # "cancel"
    /\ rpc # "cancel"
    /\ \A c \in Clients : cpc[c] \notin {"cancelQueued", "cancelFlag"}

Clean == CleanRows /\ CleanTasks

NeverCancelled == cancels = 0 => Clean

LEMMA CleanInit == Init => NeverCancelled
BY DEF Init, JobStoreInit, NoRow, JobWorkerInit, JobReaperInit, JobClientInit, NeverCancelled,
   Clean, CleanRows, CleanTasks, Status

LEMMA CleanTransition ==
    ASSUME JobStoreTypeOK, CleanRows, NEW j \in Jobs, NEW from, NEW r, NEW ok,
           Transition(j, from, r, ok), ~r.cancel, r.status # "CANCELLED"
    PROVE  CleanRows'
BY DEF Transition, Status, JobStoreTypeOK, CleanRows

LEMMA CleanUpdates ==
    ASSUME JobStoreTypeOK, CleanRows, NEW j \in Jobs, NEW s, s # "CANCELLED", NEW n \in Nat,
           NEW w \in Workers
    PROVE  /\ ~Released(row[j], s).cancel /\ Released(row[j], s).status # "CANCELLED"
           /\ ~Settled(row[j], s).cancel /\ Settled(row[j], s).status # "CANCELLED"
           /\ LET r == [Settled(row[j], s) EXCEPT !.retries = n]
              IN  ~r.cancel /\ r.status # "CANCELLED"
           /\ LET r == [Released(row[j], s) EXCEPT !.retries = n]
              IN  ~r.cancel /\ r.status # "CANCELLED"
           /\ LET r == [row[j] EXCEPT !.status = s, !.worker = w]
              IN  ~r.cancel /\ r.status # "CANCELLED"
           /\ LET r == [row[j] EXCEPT !.status = s, !.retries = n, !.worker = NoWorker,
                                      !.lease = "live"]
              IN  ~r.cancel /\ r.status # "CANCELLED"
           /\ LET r == [row[j] EXCEPT !.worker = w, !.lease = "live"]
              IN  ~r.cancel /\ r.status # "CANCELLED"
BY DEF JobStoreTypeOK, Rows, CleanRows, Status, Released, Settled

LEMMA WorkerClean ==
    ASSUME Typed, Clean, NEW w \in Workers,
           \/ PickupStep(w) \/ AgentStep(w) \/ EndStep(w) \/ BesideStep(w)
           \/ \E error \in {"retry", "fatal", "crash"} : StepRaises(w, error),
           UNCHANGED <<rpc, clientVars>>
    PROVE  Clean'
<1> DEFINE Cancelling == {"cancelLoad", "cancelSave", "cancelled"}
<1>0. /\ JobStoreTypeOK /\ CleanRows /\ CleanTasks
      /\ wpc[w] # "idle" => wjob[w] \in Jobs
      /\ wretry[w] + 1 \in Nat
      /\ wpc[w] \notin Cancelling
  BY DEF Typed, WorkerTyped, Clean, CleanTasks
<1>1. CASE PickupStep(w)
  <2>1. CleanTasks'
    BY <1>0, <1>1 DEF PickupStep, GetJob, LoadJob, Acquire, ReadJob, StartJob, GiveUp, Leave,
       Done, Goes, To, timerVars, clientVars, CleanTasks, Typed, WorkerTyped, PickupPcs
  <2>2. CASE (\E j \in Jobs : GetJob(w, j)) \/ LoadJob(w) \/ ReadJob(w) \/ Leave(w)
    BY <1>0, <2>1, <2>2 DEF GetJob, LoadJob, ReadJob, Leave, jobStoreVars, Clean, CleanRows, Status
  <2>3. CASE Acquire(w) \/ StartJob(w) \/ GiveUp(w)
    <3>0. PICK j \in Jobs : j = wjob[w]
      BY <1>0, <2>3 DEF Acquire, StartJob, GiveUp, At
    <3>1. CASE Acquire(w)
      <4> DEFINE r == [row[j] EXCEPT !.worker = w, !.lease = "live"]
      <4>1. row' = row \/ row' = [row EXCEPT ![j] = r]
        BY <3>0, <3>1 DEF Acquire, AcquireLease
      <4>2. ~r.cancel /\ r.status # "CANCELLED"
        BY <1>0 DEF JobStoreTypeOK, Rows, CleanRows, Status
      <4> HIDE DEF r
      <4>3. CleanRows'
        BY <1>0, <4>1, <4>2 DEF CleanRows, Status, JobStoreTypeOK
      <4> QED
        BY <2>1, <4>3 DEF Clean
    <3>2. CASE StartJob(w)
      <4> DEFINE r == [row[j] EXCEPT !.status = "RUNNING", !.worker = w]
      <4>1. PICK ok \in BOOLEAN : Transition(j, wseen[w], r, ok)
        BY <3>0, <3>2 DEF StartJob
      <4>2. ~r.cancel /\ r.status # "CANCELLED"
        BY <1>0 DEF JobStoreTypeOK, Rows, CleanRows
      <4> HIDE DEF r
      <4> QED
        BY <1>0, <2>1, <4>1, <4>2, CleanTransition DEF Clean
    <3>3. CASE GiveUp(w)
      BY <1>0, <2>1, <3>3 DEF GiveUp, ExpireLease, Clean, CleanRows, Status, JobStoreTypeOK, Rows
    <3> QED
      BY <2>3, <3>1, <3>2, <3>3
  <2> QED
    BY <1>1, <2>2, <2>3 DEF PickupStep
<1>2. CASE AgentStep(w) \/ \E error \in {"retry", "fatal", "crash"} : StepRaises(w, error)
  <2>1. CleanTasks'
    <3>1. CASE AgentStep(w)
      BY <1>0, <3>1 DEF AgentStep, ResumeJob, Abort, NextStep, CallCached, CallTool, ToolReturns,
         RecordTool, StepReturns, SaveStep, Goes, To, timerVars, clientVars, CleanTasks, Typed,
         WorkerTyped
    <3>2. CASE \E error \in {"retry", "fatal", "crash"} : StepRaises(w, error)
      BY <1>0, <3>2 DEF StepRaises, Goes, To, timerVars, clientVars, CleanTasks, Typed, WorkerTyped
    <3> QED
      BY <1>2, <3>1, <3>2
  <2>2. row' = row
    BY <1>2 DEF AgentStep, ResumeJob, Abort, NextStep, CallCached, CallTool, ToolReturns,
       RecordTool, StepReturns, SaveStep, StepRaises, jobStoreVars
  <2> QED
    BY <1>0, <2>1, <2>2 DEF Clean, CleanRows, Status
<1>3. CASE EndStep(w)
  <2>1. CleanTasks'
    <3> USE <1>0 DEF At, Done, Goes, To, timerVars, clientVars, CleanTasks, Typed, WorkerTyped,
            TimerTyped
    <3>1. CASE Finish(w) \/ HandleFailure(w)
      BY <3>1 DEF Finish, HandleFailure
    <3>2. CASE Cleanup(w) \/ CancelLoad(w) \/ CancelSave(w) \/ FinalizeCancel(w)
      BY <3>2 DEF Cleanup, CancelLoad, CancelSave, FinalizeCancel
    <3>3. CASE ReadRetries(w) \/ RetryLater(w) \/ RetriesExhausted(w)
      BY <3>3 DEF ReadRetries, RetryLater, RetriesExhausted
    <3>4. CASE SendToDlq(w)
      BY <3>4 DEF SendToDlq, DeadLetter
    <3> QED
      BY <1>3, <3>1, <3>2, <3>3, <3>4 DEF EndStep
  <2>2. row' = row
        \/ \E j \in Jobs, from \in Statuses, ok \in BOOLEAN : \E r :
              Transition(j, from, r, ok) /\ ~r.cancel /\ r.status # "CANCELLED"
    <3>1. CASE Cleanup(w) \/ CancelLoad(w) \/ CancelSave(w) \/ ReadRetries(w)
      BY <3>1 DEF Cleanup, CancelLoad, CancelSave, ReadRetries, jobStoreVars
    <3>2. CASE Finish(w) \/ HandleFailure(w) \/ SendToDlq(w)
      <4>1. PICK j \in Jobs : j = wjob[w]
        BY <1>0, <3>2 DEF Finish, HandleFailure, SendToDlq, DeadLetter, At
      <4>2. \E from \in Statuses, ok \in BOOLEAN, s \in {"SUCCESS", "FAILED", "DEAD"} :
               Transition(j, from, Released(row[j], s), ok) \/ Transition(j, from, Settled(row[j], s), ok)
        BY <3>2, <4>1 DEF Finish, HandleFailure, SendToDlq, DeadLetter, Statuses
      <4>3. \A s \in {"SUCCESS", "FAILED", "DEAD"} :
               /\ ~Released(row[j], s).cancel /\ Released(row[j], s).status # "CANCELLED"
               /\ ~Settled(row[j], s).cancel /\ Settled(row[j], s).status # "CANCELLED"
        BY <1>0, CleanUpdates
      <4> QED
        BY <4>2, <4>3
    <3>3. CASE RetryLater(w)
      <4>1. PICK j \in Jobs : j = wjob[w]
        BY <1>0, <3>3 DEF RetryLater, At
      <4> DEFINE r == [row[j] EXCEPT !.status = "RETRYING", !.retries = wretry[w] + 1,
                                     !.worker = NoWorker, !.lease = "live"]
      <4>2. \E ok \in BOOLEAN : Transition(j, "RUNNING", r, ok)
        BY <3>3, <4>1 DEF RetryLater
      <4>3. ~r.cancel /\ r.status # "CANCELLED"
        BY <1>0, CleanUpdates
      <4> HIDE DEF r
      <4> QED
        BY <4>2, <4>3 DEF Statuses
    <3>4. CASE RetriesExhausted(w)
      <4>1. PICK j \in Jobs : j = wjob[w]
        BY <1>0, <3>4 DEF RetriesExhausted, At
      <4> DEFINE r == [Released(row[j], "FAILED") EXCEPT !.retries = wretry[w] + 1]
      <4>2. \E ok \in BOOLEAN : Transition(j, "RUNNING", r, ok)
        BY <3>4, <4>1 DEF RetriesExhausted
      <4>3. ~r.cancel /\ r.status # "CANCELLED"
        BY <1>0, CleanUpdates
      <4> HIDE DEF r
      <4> QED
        BY <4>2, <4>3 DEF Statuses
    <3>5. ~FinalizeCancel(w)
      BY <1>0 DEF FinalizeCancel, At
    <3> QED
      BY <1>3, <3>1, <3>2, <3>3, <3>4, <3>5 DEF EndStep
  <2>3. CASE row' = row
    BY <1>0, <2>1, <2>3 DEF Clean, CleanRows, Status
  <2> QED
    BY <1>0, <2>1, <2>2, <2>3, CleanTransition DEF Clean
<1>4. CASE BesideStep(w)
  <2>0. wjob[w] \in Jobs
    BY <1>4 DEF BesideStep, Heartbeat, HeartbeatFails, WatchCancel, BeatPcs, GatedPcs, AgentPcs,
       Typed, WorkerTyped
  <2>1. CleanTasks'
    BY <1>0, <1>4, <2>0 DEF BesideStep, Heartbeat, HeartbeatFails, WatchCancel, workerVars,
       timerVars, clientVars, CleanTasks, CleanRows, Typed, WorkerTyped
  <2>2. CleanRows'
    BY <1>0, <1>4, <2>0 DEF BesideStep, Heartbeat, RenewLease, HeartbeatFails, WatchCancel,
       jobStoreVars, CleanRows, Status, JobStoreTypeOK, Rows
  <2> QED
    BY <2>1, <2>2 DEF Clean
<1> QED
  BY <1>1, <1>2, <1>3, <1>4

LEMMA OthersClean ==
    ASSUME Typed, Clean,
           \/ (\E t \in Timers : TimerStep(t)) /\ UNCHANGED <<rpc, clientVars>>
           \/ ReaperStep /\ UNCHANGED <<workerVars, timerVars, clientVars>>
           \/ (\E c \in Clients : \/ ClientStep(c)
                                  \/ \E j \in Jobs : Create(c, j) \/ ReadForRequeue(c, j))
              /\ UNCHANGED <<workerVars, timerVars, rpc>>
    PROVE  Clean'
<1>0. JobStoreTypeOK /\ CleanRows /\ CleanTasks
  BY DEF Typed, Clean
<1>1. ASSUME NEW t \in Timers, TimerStep(t), UNCHANGED <<rpc, clientVars>> PROVE Clean'
  <2>0. /\ tpc[t] # "off" => tjob[t] \in Jobs
        /\ tpc[t] # "cancel"
    BY <1>0 DEF Typed, TimerTyped, CleanTasks
  <2>1. CleanTasks'
    BY <1>0, <1>1, <2>0 DEF TimerStep, TimerWakes, TimerCancels, TimerRequeues, TimerPublishes,
       TimerTo, workerVars, clientVars, CleanTasks, CleanRows, Typed, TimerTyped
  <2>2. CASE TimerRequeues(t)
    <3>1. PICK j \in Jobs, ok \in BOOLEAN : Transition(j, "RETRYING", Settled(row[j], "QUEUED"), ok)
      BY <2>0, <2>2 DEF TimerRequeues
    <3>2. ~Settled(row[j], "QUEUED").cancel /\ Settled(row[j], "QUEUED").status # "CANCELLED"
      BY <1>0, CleanUpdates DEF JobStoreTypeOK, Rows, Settled, Released
    <3> QED
      BY <1>0, <2>1, <3>1, <3>2, CleanTransition DEF Clean
  <2>3. CASE TimerWakes(t) \/ TimerPublishes(t)
    BY <1>0, <2>1, <2>3 DEF TimerWakes, TimerPublishes, jobStoreVars, Clean, CleanRows, Status
  <2> QED
    BY <1>1, <2>0, <2>2, <2>3 DEF TimerStep, TimerCancels
<1>2. ASSUME ReaperStep, UNCHANGED <<workerVars, timerVars, clientVars>> PROVE Clean'
  <2>0. rpc # "cancel" /\ rtodo \subseteq Snapshots /\ (rpc # "idle" => rseen.job \in Jobs)
    BY <1>0 DEF Typed, ReaperTyped, Snapshots, CleanTasks
  <2>1. CleanTasks'
    <3>1. \A e \in rtodo : ~row[e.job].cancel
      BY <1>0, <2>0 DEF CleanRows, Snapshots
    <3> QED
      BY <1>0, <1>2, <2>0, <3>1 DEF ReaperStep, Scan, CheckCancel, ReaperCancels, ReaperRequeues,
         ReaperPublishes, ReaperRests, workerVars, timerVars, clientVars, CleanTasks
  <2>2. CASE ReaperRequeues
    <3>1. PICK j \in Jobs, ok \in BOOLEAN : Transition(j, rseen.status, Settled(row[j], "QUEUED"), ok)
      BY <2>0, <2>2 DEF ReaperRequeues
    <3>2. ~Settled(row[j], "QUEUED").cancel /\ Settled(row[j], "QUEUED").status # "CANCELLED"
      BY <1>0 DEF JobStoreTypeOK, Rows, Settled, Released
    <3> QED
      BY <1>0, <2>1, <3>1, <3>2, CleanTransition DEF Clean
  <2>3. CASE Scan \/ (\E e \in rtodo : CheckCancel(e)) \/ ReaperPublishes
    BY <1>0, <2>1, <2>3 DEF Scan, CheckCancel, ReaperPublishes, jobStoreVars, Clean, CleanRows, Status
  <2> QED
    BY <1>2, <2>0, <2>2, <2>3 DEF ReaperStep, ReaperCancels
<1>3. ASSUME NEW c \in Clients, ClientStep(c), UNCHANGED <<workerVars, timerVars, rpc>> PROVE Clean'
  <2>0. /\ cpc[c] # "idle" => cjob[c] \in Jobs
        /\ cpc[c] \notin {"cancelQueued", "cancelFlag"}
    BY <1>0 DEF Typed, ClientTyped, CleanTasks
  <2>1. CleanTasks'
    BY <1>0, <1>3, <2>0 DEF ClientStep, ClientPublishes, CancelQueued, CancelFlag, Requeue,
       Answers, workerVars, timerVars, CleanTasks, Typed, ClientTyped, JobClientTypeOK
  <2>2. CASE Requeue(c)
    <3>1. PICK j \in Jobs, ok \in BOOLEAN :
            Transition(j, "DEAD", [Settled(row[j], "QUEUED") EXCEPT !.retries = 0], ok)
      BY <2>0, <2>2 DEF Requeue
    <3> DEFINE r == [Settled(row[j], "QUEUED") EXCEPT !.retries = 0]
    <3>2. ~r.cancel /\ r.status # "CANCELLED"
      BY <1>0 DEF JobStoreTypeOK, Rows, Settled, Released
    <3>3. Transition(j, "DEAD", r, ok)
      BY <3>1
    <3> HIDE DEF r
    <3> QED
      BY <1>0, <2>1, <3>2, <3>3, CleanTransition DEF Clean
  <2>3. CASE ClientPublishes(c)
    BY <1>0, <2>1, <2>3 DEF ClientPublishes, Clean, CleanRows, Status
  <2> QED
    BY <1>3, <2>0, <2>2, <2>3 DEF ClientStep, CancelQueued, CancelFlag
<1>4. ASSUME NEW c \in Clients, NEW j \in Jobs, Create(c, j) \/ ReadForRequeue(c, j),
             UNCHANGED <<workerVars, timerVars, rpc>>
      PROVE  Clean'
  <2>1. CleanTasks'
    BY <1>0, <1>4 DEF Create, ReadForRequeue, Begins, workerVars, timerVars, CleanTasks, Typed,
       ClientTyped, JobClientTypeOK
  <2>2. CleanRows'
    BY <1>0, <1>4 DEF Create, ReadForRequeue, NoRow, jobStoreVars, CleanRows, Status, JobStoreTypeOK
  <2> QED
    BY <2>1, <2>2 DEF Clean
<1> QED
  BY <1>1, <1>2, <1>3, <1>4

LEMMA CleanNext == Typed /\ NeverCancelled /\ [Next]_vars => NeverCancelled'
<1> SUFFICES ASSUME Typed, NeverCancelled, [Next]_vars, cancels' = 0 PROVE Clean'
  BY DEF NeverCancelled
<1>0. Clean /\ \A c \in Clients : ~ClientCancels(c)
  <2>1. cancels' = cancels \/ cancels' = cancels + 1
    BY DEF Next, WorkerMove, AgentCrash, BesideMove, TimerMove, ReaperMove, ClientMove,
       ClientCreates, ClientCancels, ClientRequeues, LeaseExpires, ProcessCrash, budgetVars, vars
  <2>2. \A c \in Clients : ClientCancels(c) => cancels' = cancels + 1
    BY DEF ClientCancels
  <2> QED
    BY <2>1, <2>2 DEF Typed, BudgetTyped, NeverCancelled
<1>1. ASSUME NEW w \in Workers, WorkerMove(w) \/ AgentCrash(w) \/ BesideMove(w) PROVE Clean'
  <2>1. UNCHANGED <<rpc, clientVars>>
    BY <1>1 DEF WorkerMove, AgentCrash, BesideMove, reaperVars
  <2> QED
    BY <1>0, <1>1, <2>1, WorkerClean DEF WorkerMove, AgentCrash, BesideMove
<1>2. ASSUME NEW t \in Timers, TimerMove(t) PROVE Clean'
  BY <1>0, <1>2, OthersClean DEF TimerMove, reaperVars
<1>3. CASE ReaperMove
  BY <1>0, <1>3, OthersClean DEF ReaperMove
<1>4. ASSUME NEW c \in Clients, ClientMove(c) \/ ClientCreates(c) \/ ClientRequeues(c) PROVE Clean'
  BY <1>0, <1>4, OthersClean DEF ClientMove, ClientCreates, ClientRequeues, reaperVars
<1>5. ASSUME NEW j \in Jobs, LeaseExpires(j) PROVE Clean'
  BY <1>0, <1>5 DEF LeaseExpires, workerVars, timerVars, reaperVars, clientVars, Clean, CleanRows,
     CleanTasks, Status, Typed, JobStoreTypeOK, Rows
<1>6. CASE ProcessCrash
  BY <1>0, <1>6 DEF ProcessCrash, WorkersStop, ReaperStops, ClientsStop, Clean, CleanRows,
     CleanTasks, Status
<1>7. CASE UNCHANGED vars
  BY <1>0, <1>7 DEF vars, jobStoreVars, workerVars, timerVars, reaperVars, clientVars, Clean,
     CleanRows, CleanTasks, Status
<1> QED
  BY <1>0, <1>1, <1>2, <1>3, <1>4, <1>5, <1>6, <1>7 DEF Next

LEMMA AlwaysClean == Spec => []NeverCancelled
BY CleanInit, CleanNext, AlwaysTyped, PTL DEF Spec

(***************************************************************************)
(* The job queue implements the life cycle.  What it needs beyond the      *)
(* owners of the rows: the retry count a worker goes by is the row's.      *)
(***************************************************************************)
Counts(w) ==
    /\ wpc[w] = "retried" => wretry[w] = row[wjob[w]].retries
    /\ wpc[w] \in DeadPcs => row[wjob[w]].retries >= MaxRetries

AbsentAreFresh == \A j \in Jobs : row[j].status = "ABSENT" => row[j].retries = 0

Counted == stalls = 0 => AbsentAreFresh /\ \A w \in Workers : Counts(w)

LifeStep == [Lifecycle!LifeNext]_(Lifecycle!lifeVars)

\* _run moves a job to RUNNING that it has read as CANCELLED.
UndoesCancel == \E w \in Workers : StartJob(w) /\ wseen[w] = "CANCELLED"

LEMMA CountedInit == Init => Counted
BY DEF Init, JobStoreInit, NoRow, JobWorkerInit, Counted, AbsentAreFresh, Counts, DeadPcs

LEMMA SetMaps ==
    ASSUME JobStoreTypeOK, NEW j \in Jobs, NEW r, row' = [row EXCEPT ![j] = r]
    PROVE  Lifecycle!Set(j, r.status, r.retries)
<1>1. [k \in Jobs |-> row'[k].status] = [[k \in Jobs |-> row[k].status] EXCEPT ![j] = r.status]
  BY DEF JobStoreTypeOK
<1>2. [k \in Jobs |-> row'[k].retries] = [[k \in Jobs |-> row[k].retries] EXCEPT ![j] = r.retries]
  BY DEF JobStoreTypeOK
<1> QED
  BY <1>1, <1>2 DEF Lifecycle!Set

\* No job changes its retry count, and none appears or vanishes.
RetriesQuiet ==
    \A k \in Jobs : /\ row'[k].retries = row[k].retries
                    /\ row'[k].status = "ABSENT" => row[k].status = "ABSENT"

LEMMA LifeStays ==
    ASSUME \A k \in Jobs : row'[k].status = row[k].status /\ row'[k].retries = row[k].retries
    PROVE  LifeStep /\ RetriesQuiet
<1>1. UNCHANGED Lifecycle!lifeVars
  BY DEF Lifecycle!lifeVars
<1> QED
  BY <1>1 DEF LifeStep, RetriesQuiet

LEMMA LifeMoves ==
    ASSUME JobStoreTypeOK, NEW j \in Jobs, NEW from, NEW r, NEW ok, Transition(j, from, r, ok),
           <<from, r.status>> \in Lifecycle!Edges, r.retries = row[j].retries
    PROVE  LifeStep /\ RetriesQuiet
<1>1. CASE ~ok
  <2>1. row' = row
    BY <1>1 DEF Transition
  <2> QED
    BY <2>1, LifeStays
<1>2. CASE ok
  <2>1. row' = [row EXCEPT ![j] = r] /\ row[j].status = from
    BY <1>2 DEF Transition, Status
  <2>2. Lifecycle!Move(j)
    <3> DEFINE e == <<from, r.status>>
    <3>1. Lifecycle!Set(j, r.status, r.retries)
      BY <2>1, SetMaps
    <3>2. /\ [k \in Jobs |-> row[k].status][j] = e[1]
          /\ [k \in Jobs |-> row[k].retries][j] = r.retries
          /\ e[2] = r.status
      BY <2>1
    <3>3. e \in Lifecycle!Edges
      OBVIOUS
    <3> HIDE DEF e
    <3>4. Lifecycle!Set(j, e[2], [k \in Jobs |-> row[k].retries][j])
      BY <3>1, <3>2 DEF Lifecycle!Set
    <3> QED
      BY <3>2, <3>3, <3>4 DEF Lifecycle!Move, Lifecycle!Set
  <2>3. RetriesQuiet
    <3>1. r.status # "ABSENT"
      BY DEF Lifecycle!Edges
    <3> QED
      BY <2>1, <3>1 DEF RetriesQuiet, JobStoreTypeOK
  <2> QED
    BY <2>2, <2>3 DEF LifeStep, Lifecycle!LifeNext
<1> QED
  BY <1>1, <1>2 DEF Transition

LEMMA RetriesOf ==
    ASSUME JobStoreTypeOK, NEW j \in Jobs, NEW s
    PROVE  /\ Released(row[j], s).status = s /\ Released(row[j], s).retries = row[j].retries
           /\ Settled(row[j], s).status = s /\ Settled(row[j], s).retries = row[j].retries
BY DEF JobStoreTypeOK, Rows, Released, Settled

LEMMA CountKept ==
    ASSUME Counted, RetriesQuiet, stalls = 0, NEW w \in Workers, wpc'[w] = "idle" \/ wjob[w] \in Jobs,
           wpc'[w] = "retried" => /\ wpc[w] = "retried"
                                  /\ wjob'[w] = wjob[w] /\ wretry'[w] = wretry[w],
           wpc'[w] \in DeadPcs => wpc[w] \in DeadPcs /\ wjob'[w] = wjob[w]
    PROVE  Counts(w)'
BY Apart DEF Counted, Counts, RetriesQuiet

LEMMA AbsentKept ==
    ASSUME AbsentAreFresh, RetriesQuiet
    PROVE  AbsentAreFresh'
BY DEF AbsentAreFresh, RetriesQuiet

\* The steps of others than workers: an edge of the life cycle, or a stutter.
LEMMA TimerLives ==
    ASSUME JobStoreTypeOK, TimerTyped, NEW t \in Timers, TimerStep(t)
    PROVE  LifeStep /\ RetriesQuiet
<1>0. tpc[t] # "off" => tjob[t] \in Jobs
  BY DEF TimerTyped
<1>1. CASE TimerWakes(t) \/ TimerPublishes(t)
  BY <1>1, LifeStays DEF TimerWakes, TimerPublishes, jobStoreVars
<1>2. CASE TimerCancels(t) \/ TimerRequeues(t)
  <2>1. PICK j \in Jobs, s \in {"CANCELLED", "QUEUED"}, ok \in BOOLEAN :
          Transition(j, "RETRYING", Settled(row[j], s), ok)
    BY <1>0, <1>2 DEF TimerCancels, TimerRequeues
  <2>2. <<"RETRYING", s>> \in Lifecycle!Edges
    BY DEF Lifecycle!Edges
  <2> QED
    BY <2>1, <2>2, RetriesOf, LifeMoves
<1> QED
  BY <1>1, <1>2 DEF TimerStep

LEMMA ReaperLives ==
    ASSUME JobStoreTypeOK, ReaperTyped, ReaperStep
    PROVE  LifeStep /\ RetriesQuiet
<1>1. CASE Scan \/ (\E e \in rtodo : CheckCancel(e)) \/ ReaperPublishes
  BY <1>1, LifeStays DEF Scan, CheckCancel, ReaperPublishes, jobStoreVars
<1>2. CASE ReaperCancels \/ ReaperRequeues
  <2>1. PICK j \in Jobs, from \in {"RUNNING", "RETRYING"} : j = rseen.job /\ from = rseen.status
    BY <1>2 DEF ReaperCancels, ReaperRequeues, ReaperTyped, Snapshots
  <2>2. PICK s \in {"CANCELLED", "QUEUED"}, ok \in BOOLEAN : Transition(j, from, Settled(row[j], s), ok)
    BY <1>2, <2>1 DEF ReaperCancels, ReaperRequeues
  <2>3. <<from, s>> \in Lifecycle!Edges
    BY DEF Lifecycle!Edges
  <2> QED
    BY <2>2, <2>3, RetriesOf, LifeMoves
<1> QED
  BY <1>1, <1>2 DEF ReaperStep

LEMMA ClientLives ==
    ASSUME JobStoreTypeOK, ClientTyped, AbsentAreFresh, NEW c \in Clients,
           \/ ClientStep(c)
           \/ \E j \in Jobs : Create(c, j) \/ ReadForCancel(c, j) \/ ReadForRequeue(c, j)
    PROVE  /\ LifeStep
           /\ AbsentAreFresh'
           /\ \A k \in Jobs : Status(k) \in OwnedStatuses => row'[k].retries = row[k].retries
<1>0. cpc[c] # "idle" => cjob[c] \in Jobs
  BY DEF ClientTyped
<1>1. CASE ClientPublishes(c) \/ \E j \in Jobs : ReadForCancel(c, j) \/ ReadForRequeue(c, j)
  <2>1. row' = row
    BY <1>1 DEF ClientPublishes, ReadForCancel, ReadForRequeue, jobStoreVars
  <2> QED
    BY <2>1, LifeStays, AbsentKept
<1>2. CASE CancelFlag(c)
  <2>1. \A k \in Jobs : row'[k].status = row[k].status /\ row'[k].retries = row[k].retries
    BY <1>0, <1>2 DEF CancelFlag, SetCancelRequested, JobStoreTypeOK, Rows
  <2> QED
    BY <2>1, LifeStays, AbsentKept
<1>3. CASE CancelQueued(c)
  <2>1. PICK j \in Jobs, ok \in BOOLEAN :
          Transition(j, "QUEUED", [row[j] EXCEPT !.status = "CANCELLED"], ok)
    BY <1>0, <1>3 DEF CancelQueued
  <2> DEFINE r == [row[j] EXCEPT !.status = "CANCELLED"]
  <2>2. r.status = "CANCELLED" /\ r.retries = row[j].retries
    BY DEF JobStoreTypeOK, Rows
  <2>3. Transition(j, "QUEUED", r, ok)
    BY <2>1
  <2> HIDE DEF r
  <2>4. <<"QUEUED", r.status>> \in Lifecycle!Edges
    BY <2>2 DEF Lifecycle!Edges
  <2>5. LifeStep /\ RetriesQuiet
    BY <2>2, <2>3, <2>4, LifeMoves
  <2> QED
    BY <2>5, AbsentKept DEF RetriesQuiet
<1>4. CASE Requeue(c)
  <2>1. PICK j \in Jobs, ok \in BOOLEAN :
          Transition(j, "DEAD", [Settled(row[j], "QUEUED") EXCEPT !.retries = 0], ok)
    BY <1>0, <1>4 DEF Requeue
  <2> DEFINE r == [Settled(row[j], "QUEUED") EXCEPT !.retries = 0]
  <2>2. r.status = "QUEUED" /\ r.retries = 0
    BY DEF JobStoreTypeOK, Rows, Settled, Released
  <2>3. Transition(j, "DEAD", r, ok)
    BY <2>1
  <2> HIDE DEF r
  <2>4. CASE ~ok
    <3>1. row' = row
      BY <2>3, <2>4 DEF Transition
    <3> QED
      BY <3>1, LifeStays, AbsentKept
  <2>5. CASE ok
    <3>1. row' = [row EXCEPT ![j] = r] /\ row[j].status = "DEAD"
      BY <2>3, <2>5 DEF Transition, Status
    <3>2. Lifecycle!Revive(j)
      BY <2>2, <3>1, SetMaps DEF Lifecycle!Revive
    <3>3. AbsentAreFresh' /\ \A k \in Jobs : Status(k) \in OwnedStatuses
                                                => row'[k].retries = row[k].retries
      BY <2>2, <3>1 DEF AbsentAreFresh, JobStoreTypeOK, OwnedStatuses, Waiting, Status
    <3> QED
      BY <3>2, <3>3 DEF LifeStep, Lifecycle!LifeNext
  <2> QED
    BY <2>4, <2>5 DEF Transition
<1>5. CASE \E j \in Jobs : Create(c, j)
  <2>1. PICK j \in Jobs : Create(c, j)
    BY <1>5
  <2> DEFINE r == [NoRow EXCEPT !.status = "QUEUED"]
  <2>2. Transition(j, "ABSENT", r, TRUE)
    BY <2>1 DEF Create, Transition
  <2>3. r.status = "QUEUED" /\ r.retries = row[j].retries
    BY <2>1 DEF NoRow, Create, Status, AbsentAreFresh
  <2> HIDE DEF r
  <2>4. <<"ABSENT", r.status>> \in Lifecycle!Edges
    BY <2>3 DEF Lifecycle!Edges
  <2>5. LifeStep /\ RetriesQuiet
    BY <2>2, <2>3, <2>4, LifeMoves
  <2> QED
    BY <2>5, AbsentKept DEF RetriesQuiet
<1> QED
  BY <1>1, <1>2, <1>3, <1>4, <1>5 DEF ClientStep

LEMMA OthersCount ==
    ASSUME Typed, SingleDispatch, WorkersOwn, Counted, stalls = 0, NEW w \in Workers,
           \A v \in Workers \ {w} : /\ wpc'[v] = wpc[v] /\ wjob'[v] = wjob[v]
                                    /\ wretry'[v] = wretry[v],
           \/ RetriesQuiet
           \/ /\ wpc[w] \in RunPcs
              /\ \A k \in Jobs \ {wjob[w]} : row'[k].retries = row[k].retries,
           Counts(w)'
    PROVE  \A v \in Workers : Counts(v)'
<1> SUFFICES ASSUME NEW v \in Workers \ {w} PROVE Counts(v)'
  OBVIOUS
<1>0. Counts(v) /\ wpc'[v] = wpc[v] /\ wjob'[v] = wjob[v] /\ wretry'[v] = wretry[v]
  BY DEF Counted
<1>1. CASE wpc[v] \notin {"retried"} \cup DeadPcs
  BY <1>0, <1>1 DEF Counts
<1>2. CASE wpc[v] \in {"retried"} \cup DeadPcs
  <2>1. wpc[v] \in ActivePcs /\ wjob[v] \in Jobs
    BY <1>2, Apart DEF ActivePcs, RunPcs, Typed, WorkerTyped
  <2>2. row'[wjob[v]].retries = row[wjob[v]].retries
    BY <2>1, Alone DEF RetriesQuiet
  <2> QED
    BY <1>0, <2>2 DEF Counts
<1> QED
  BY <1>1, <1>2

LEMMA PickupLives ==
    ASSUME Typed, SeenIsWaiting, NEW w \in Workers, PickupStep(w)
    PROVE  (LifeStep \/ UndoesCancel) /\ RetriesQuiet
<1>0. JobStoreTypeOK /\ (wpc[w] # "idle" => wjob[w] \in Jobs)
  BY DEF Typed, WorkerTyped
<1>1. CASE (\E j \in Jobs : GetJob(w, j)) \/ LoadJob(w) \/ ReadJob(w) \/ Leave(w)
  BY <1>1, LifeStays DEF GetJob, LoadJob, ReadJob, Leave, jobStoreVars
<1>2. CASE Acquire(w)
  <2>1. PICK j \in Jobs : j = wjob[w]
    BY <1>0, <1>2 DEF Acquire, At
  <2> DEFINE r == [row[j] EXCEPT !.worker = w, !.lease = "live"]
  <2>2. row' = row \/ row' = [row EXCEPT ![j] = r]
    BY <1>2, <2>1 DEF Acquire, AcquireLease
  <2>3. r.status = row[j].status /\ r.retries = row[j].retries
    BY <1>0 DEF JobStoreTypeOK, Rows
  <2> HIDE DEF r
  <2>4. \A k \in Jobs : row'[k].status = row[k].status /\ row'[k].retries = row[k].retries
    BY <1>0, <2>2, <2>3 DEF JobStoreTypeOK
  <2> QED
    BY <2>4, LifeStays
<1>3. CASE GiveUp(w)
  <2>1. \A k \in Jobs : row'[k].status = row[k].status /\ row'[k].retries = row[k].retries
    BY <1>0, <1>3 DEF GiveUp, ExpireLease, JobStoreTypeOK, Rows
  <2> QED
    BY <2>1, LifeStays
<1>4. CASE StartJob(w)
  <2>1. PICK j \in Jobs : j = wjob[w]
    BY <1>0, <1>4 DEF StartJob, At
  <2> DEFINE r == [row[j] EXCEPT !.status = "RUNNING", !.worker = w]
  <2>2. PICK ok \in BOOLEAN : Transition(j, wseen[w], r, ok)
    BY <1>4, <2>1 DEF StartJob
  <2>3. wseen[w] \in {"QUEUED", "CANCELLED"}
    BY <1>4 DEF StartJob, At, SeenIsWaiting, Waiting
  <2>4. r.status = "RUNNING" /\ r.retries = row[j].retries
    BY <1>0 DEF JobStoreTypeOK, Rows
  <2> HIDE DEF r
  <2>5. CASE wseen[w] = "QUEUED"
    <3>1. <<wseen[w], r.status>> \in Lifecycle!Edges
      BY <2>4, <2>5 DEF Lifecycle!Edges
    <3> QED
      BY <1>0, <2>2, <2>4, <3>1, LifeMoves
  <2>6. CASE wseen[w] = "CANCELLED"
    <3>1. row' = row \/ row' = [row EXCEPT ![j] = r]
      BY <2>2 DEF Transition
    <3>2. RetriesQuiet
      BY <1>0, <2>4, <3>1 DEF RetriesQuiet, JobStoreTypeOK
    <3> QED
      BY <1>4, <2>6, <3>2 DEF UndoesCancel
  <2> QED
    BY <2>3, <2>5, <2>6
<1> QED
  BY <1>1, <1>2, <1>3, <1>4 DEF PickupStep

\* The ends of a run that leave the retry count alone.
LEMMA PlainEndLives ==
    ASSUME JobStoreTypeOK, NEW w \in Workers, wjob[w] \in Jobs,
           \/ Finish(w) \/ Cleanup(w) \/ CancelLoad(w) \/ CancelSave(w) \/ FinalizeCancel(w)
           \/ HandleFailure(w) \/ ReadRetries(w)
    PROVE  LifeStep /\ RetriesQuiet
<1>1. CASE Cleanup(w) \/ CancelLoad(w) \/ CancelSave(w) \/ ReadRetries(w)
  BY <1>1, LifeStays DEF Cleanup, CancelLoad, CancelSave, ReadRetries, jobStoreVars
<1>2. CASE Finish(w) \/ FinalizeCancel(w) \/ HandleFailure(w)
  <2>1. PICK j \in Jobs : j = wjob[w]
    OBVIOUS
  <2>2. PICK s \in {"SUCCESS", "CANCELLED", "FAILED"}, ok \in BOOLEAN :
          \/ Transition(j, "RUNNING", Settled(row[j], s), ok)
          \/ Transition(j, "RUNNING", Released(row[j], s), ok)
    BY <1>2, <2>1 DEF Finish, FinalizeCancel, HandleFailure
  <2>3. <<"RUNNING", s>> \in Lifecycle!Edges
    BY DEF Lifecycle!Edges
  <2> QED
    BY <2>2, <2>3, RetriesOf, LifeMoves
<1> QED
  BY <1>1, <1>2

LEMMA RetryLives ==
    ASSUME Typed, WorkersOwn, Counted, stalls = 0, NEW w \in Workers,
           RetryLater(w) \/ RetriesExhausted(w)
    PROVE  /\ LifeStep
           /\ AbsentAreFresh'
           /\ wpc[w] \in RunPcs
           /\ \A k \in Jobs \ {wjob[w]} : row'[k].retries = row[k].retries
           /\ RetriesExhausted(w) => row'[wjob[w]].retries >= MaxRetries
<1>0. /\ JobStoreTypeOK /\ wpc[w] = "retried" /\ wpc[w] \in RunPcs
      /\ wretry[w] \in Nat /\ MaxRetries \in Nat
  BY JobStoreAssumption DEF RetryLater, RetriesExhausted, At, RunPcs, Typed, WorkerTyped
<1>1. PICK j \in Jobs : j = wjob[w]
  BY <1>0 DEF Typed, WorkerTyped
<1>2. row[j].status = "RUNNING" /\ wretry[w] = row[j].retries
  BY <1>0, <1>1 DEF WorkersOwn, RunsOwn, Counted, Counts, Status
<1> DEFINE new == row[j].retries + 1
<1>3. CASE RetryLater(w)
  <2> DEFINE r == [row[j] EXCEPT !.status = "RETRYING", !.retries = wretry[w] + 1,
                                 !.worker = NoWorker, !.lease = "live"]
  <2>1. \E ok \in BOOLEAN : Transition(j, "RUNNING", r, ok)
    BY <1>1, <1>3 DEF RetryLater
  <2>2. r.status = "RETRYING" /\ r.retries = new
    BY <1>0, <1>2 DEF JobStoreTypeOK, Rows
  <2> HIDE DEF r
  <2>3. row' = [row EXCEPT ![j] = r]
    BY <1>2, <2>1 DEF Transition, Status
  <2>4. Lifecycle!Set(j, "RETRYING", new)
    <3>1. PICK q : q = r
      OBVIOUS
    <3>2. Lifecycle!Set(j, q.status, q.retries)
      BY <1>0, <2>3, <3>1, SetMaps
    <3> QED
      BY <2>2, <3>1, <3>2 DEF Lifecycle!Set
  <2>5. new < MaxRetries
    BY <1>2, <1>3 DEF RetryLater, RetriesLeft
  <2>6. Lifecycle!RetryJob(j)
    BY <1>2, <2>4, <2>5 DEF Lifecycle!RetryJob, Lifecycle!Set
  <2>7. AbsentAreFresh' /\ \A k \in Jobs \ {j} : row'[k].retries = row[k].retries
    BY <1>0, <2>2, <2>3 DEF Counted, AbsentAreFresh, JobStoreTypeOK
  <2>8. ~RetriesExhausted(w)
    BY <1>3 DEF RetryLater, RetriesExhausted
  <2> QED
    BY <1>0, <1>1, <2>6, <2>7, <2>8 DEF LifeStep, Lifecycle!LifeNext
<1>4. CASE RetriesExhausted(w)
  <2> DEFINE r == [Released(row[j], "FAILED") EXCEPT !.retries = wretry[w] + 1]
  <2>1. \E ok \in BOOLEAN : Transition(j, "RUNNING", r, ok)
    BY <1>1, <1>4 DEF RetriesExhausted
  <2>2. r.status = "FAILED" /\ r.retries = new
    BY <1>0, <1>2 DEF JobStoreTypeOK, Rows, Released
  <2> HIDE DEF r
  <2>3. row' = [row EXCEPT ![j] = r]
    BY <1>2, <2>1 DEF Transition, Status
  <2>4. Lifecycle!Set(j, "FAILED", new)
    <3>1. PICK q : q = r
      OBVIOUS
    <3>2. Lifecycle!Set(j, q.status, q.retries)
      BY <1>0, <2>3, <3>1, SetMaps
    <3> QED
      BY <2>2, <3>1, <3>2 DEF Lifecycle!Set
  <2>5. new >= MaxRetries
    BY <1>0, <1>2, <1>4 DEF RetriesExhausted, RetriesLeft
  <2>6. Lifecycle!Exhaust(j)
    BY <1>2, <2>4, <2>5 DEF Lifecycle!Exhaust, Lifecycle!Set
  <2>7. /\ AbsentAreFresh' /\ \A k \in Jobs \ {j} : row'[k].retries = row[k].retries
        /\ row'[j].retries >= MaxRetries
    BY <1>0, <2>2, <2>3, <2>5 DEF Counted, AbsentAreFresh, JobStoreTypeOK
  <2> QED
    BY <1>0, <1>1, <2>6, <2>7 DEF LifeStep, Lifecycle!LifeNext
<1> QED
  BY <1>3, <1>4

\* The dead letter only ever moves a FAILED job whose retries are used up.
LEMMA BurialLives ==
    ASSUME Typed, WorkersOwn, Counted, stalls = 0, NEW w \in Workers, SendToDlq(w)
    PROVE  LifeStep /\ RetriesQuiet
<1>0. JobStoreTypeOK /\ wpc[w] \in DeadPcs
  BY DEF Typed, SendToDlq, DeadLetter, At, DeadPcs
<1>1. PICK j \in Jobs : j = wjob[w]
  BY <1>0, Apart DEF Typed, WorkerTyped
<1>2. wpc[w] # "deadRunning" /\ row[j].status = "FAILED" /\ row[j].retries >= MaxRetries
  BY <1>0, <1>1 DEF WorkersOwn, BuriesOwn, Counted, Counts, Status
<1> DEFINE r == Released(row[j], "DEAD")
<1>3. r.status = "DEAD" /\ r.retries = row[j].retries
  BY <1>0, RetriesOf
<1>4. row' = row \/ row' = [row EXCEPT ![j] = r]
  BY <1>1, <1>2 DEF SendToDlq, DeadLetter, At, Transition, Status
<1> HIDE DEF r
<1>5. CASE row' = row
  BY <1>5, LifeStays
<1>6. CASE row' = [row EXCEPT ![j] = r]
  <2>1. Lifecycle!Set(j, "DEAD", row[j].retries)
    <3>1. PICK q : q = r
      OBVIOUS
    <3>2. Lifecycle!Set(j, q.status, q.retries)
      BY <1>0, <1>6, <3>1, SetMaps
    <3> QED
      BY <1>3, <3>1, <3>2 DEF Lifecycle!Set
  <2>2. Lifecycle!Bury(j)
    BY <1>2, <2>1 DEF Lifecycle!Bury, Lifecycle!Set
  <2>3. RetriesQuiet
    BY <1>0, <1>3, <1>6 DEF RetriesQuiet, JobStoreTypeOK
  <2> QED
    BY <2>2, <2>3 DEF LifeStep, Lifecycle!LifeNext
<1> QED
  BY <1>4, <1>5, <1>6

LEMMA WorkerLives ==
    ASSUME Typed, SingleDispatch, SeenIsWaiting, WorkersOwn, Counted, stalls = 0,
           NEW w \in Workers,
           \/ PickupStep(w) \/ AgentStep(w) \/ EndStep(w) \/ BesideStep(w)
           \/ \E error \in {"retry", "fatal", "crash"} : StepRaises(w, error)
    PROVE  (LifeStep \/ UndoesCancel) /\ AbsentAreFresh' /\ \A v \in Workers : Counts(v)'
<1>0. JobStoreTypeOK /\ AbsentAreFresh /\ (wpc[w] # "idle" => wjob[w] \in Jobs)
  BY DEF Typed, WorkerTyped, Counted
<1>1. CASE PickupStep(w)
  <2>1. (LifeStep \/ UndoesCancel) /\ RetriesQuiet
    BY <1>1, PickupLives
  <2>2. /\ \A v \in Workers \ {w} : /\ wpc'[v] = wpc[v] /\ wjob'[v] = wjob[v]
                                    /\ wretry'[v] = wretry[v]
        /\ wpc'[w] \notin {"retried"} \cup DeadPcs
    BY <1>1 DEF PickupStep, GetJob, LoadJob, Acquire, ReadJob, StartJob, GiveUp, Leave, At, Done,
       Goes, To, DeadPcs, Typed, WorkerTyped
  <2>3. Counts(w)'
    BY <2>2 DEF Counts
  <2> QED
    BY <1>0, <2>1, <2>2, <2>3, OthersCount, AbsentKept
<1>2. CASE AgentStep(w) \/ \E error \in {"retry", "fatal", "crash"} : StepRaises(w, error)
  <2>1. row' = row
    BY <1>2 DEF AgentStep, ResumeJob, Abort, NextStep, CallCached, CallTool, ToolReturns,
       RecordTool, StepReturns, SaveStep, StepRaises, jobStoreVars
  <2>2. /\ \A v \in Workers \ {w} : /\ wpc'[v] = wpc[v] /\ wjob'[v] = wjob[v]
                                    /\ wretry'[v] = wretry[v]
        /\ wpc'[w] \notin {"retried"} \cup DeadPcs
    <3>1. CASE AgentStep(w)
      BY <3>1 DEF AgentStep, ResumeJob, Abort, NextStep, CallCached, CallTool, ToolReturns,
         RecordTool, StepReturns, SaveStep, Goes, To, DeadPcs, Typed, WorkerTyped
    <3>2. CASE \E error \in {"retry", "fatal", "crash"} : StepRaises(w, error)
      BY <3>2 DEF StepRaises, Goes, To, DeadPcs, Typed, WorkerTyped
    <3> QED
      BY <1>2, <3>1, <3>2
  <2>3. Counts(w)'
    BY <2>2 DEF Counts
  <2>4. LifeStep /\ RetriesQuiet
    BY <2>1, LifeStays
  <2> QED
    BY <1>0, <2>2, <2>3, <2>4, OthersCount, AbsentKept
<1>3. CASE BesideStep(w)
  <2>1. wpc' = wpc /\ wjob' = wjob /\ wretry' = wretry
    BY <1>3 DEF BesideStep, Heartbeat, HeartbeatFails, WatchCancel, workerVars
  <2>2. \A k \in Jobs : row'[k].status = row[k].status /\ row'[k].retries = row[k].retries
    BY <1>3 DEF BesideStep, Heartbeat, RenewLease, HeartbeatFails, WatchCancel, jobStoreVars,
       Typed, JobStoreTypeOK, Rows
  <2>3. wpc[w] # "idle"
    BY <1>3 DEF BesideStep, Heartbeat, HeartbeatFails, WatchCancel, BeatPcs, GatedPcs, AgentPcs
  <2>4. LifeStep /\ RetriesQuiet
    BY <2>2, LifeStays
  <2>5. Counts(w)'
    BY <1>0, <2>1, <2>3, <2>4, CountKept
  <2> QED
    BY <1>0, <2>1, <2>4, <2>5, OthersCount, AbsentKept
<1>4. CASE EndStep(w)
  <2>0. wjob[w] \in Jobs
    BY <1>0, <1>4 DEF EndStep, Finish, Cleanup, CancelLoad, CancelSave, FinalizeCancel,
       HandleFailure, ReadRetries, RetryLater, RetriesExhausted, SendToDlq, DeadLetter, At
  <2>1. \A v \in Workers \ {w} : wpc'[v] = wpc[v] /\ wjob'[v] = wjob[v] /\ wretry'[v] = wretry[v]
    BY <1>4 DEF EndStep, Finish, Cleanup, CancelLoad, CancelSave, FinalizeCancel,
       HandleFailure, ReadRetries, RetryLater, RetriesExhausted, SendToDlq, DeadLetter, Done,
       Goes, To, Typed, WorkerTyped
  <2>2. CASE \/ Finish(w) \/ Cleanup(w) \/ CancelLoad(w) \/ CancelSave(w) \/ FinalizeCancel(w)
             \/ HandleFailure(w) \/ ReadRetries(w)
    <3>1. LifeStep /\ RetriesQuiet
      BY <1>0, <2>0, <2>2, PlainEndLives
    <3>2. Counts(w)'
      <4>1. CASE ReadRetries(w)
        BY <4>1 DEF ReadRetries, To, jobStoreVars, Counts, DeadPcs, Typed, WorkerTyped
      <4>2. CASE ~ReadRetries(w)
        <5>1. wpc'[w] \notin {"retried"} \cup DeadPcs
          BY <2>2, <4>2 DEF Finish, Cleanup, CancelLoad, CancelSave, FinalizeCancel,
             HandleFailure, Done, Goes, To, DeadPcs, Typed, WorkerTyped
        <5> QED
          BY <5>1 DEF Counts
      <4> QED
        BY <4>1, <4>2
    <3> QED
      BY <1>0, <2>1, <3>1, <3>2, OthersCount, AbsentKept
  <2>3. CASE RetryLater(w) \/ RetriesExhausted(w)
    <3>1. /\ LifeStep /\ AbsentAreFresh' /\ wpc[w] \in RunPcs
          /\ \A k \in Jobs \ {wjob[w]} : row'[k].retries = row[k].retries
          /\ RetriesExhausted(w) => row'[wjob[w]].retries >= MaxRetries
      BY <2>3, RetryLives
    <3>2. Counts(w)'
      <4>1. CASE RetryLater(w)
        BY <4>1 DEF RetryLater, Done, To, Counts, DeadPcs, Typed, WorkerTyped
      <4>2. CASE RetriesExhausted(w)
        BY <3>1, <4>2 DEF RetriesExhausted, Goes, To, Counts, DeadPcs, Typed, WorkerTyped
      <4> QED
        BY <2>3, <4>1, <4>2
    <3> QED
      BY <2>1, <3>1, <3>2, OthersCount
  <2>4. CASE SendToDlq(w)
    <3>1. LifeStep /\ RetriesQuiet
      BY <2>4, BurialLives
    <3>2. /\ wpc'[w] # "retried"
          /\ wpc'[w] \in DeadPcs => wpc[w] \in DeadPcs /\ wjob'[w] = wjob[w]
      BY <2>4 DEF SendToDlq, DeadLetter, At, Done, Goes, To, DeadPcs, Typed, WorkerTyped
    <3>3. Counts(w)'
      BY <2>0, <3>1, <3>2, CountKept
    <3> QED
      BY <1>0, <2>1, <3>1, <3>3, OthersCount, AbsentKept
  <2> QED
    BY <1>4, <2>2, <2>3, <2>4 DEF EndStep
<1> QED
  BY <1>1, <1>2, <1>3, <1>4

\* A step that is no worker's leaves the retry counts of the active workers.
LEMMA BystandersCount ==
    ASSUME Typed, SingleDispatch, WorkersOwn, Counted, stalls = 0,
           UNCHANGED <<wpc, wjob, wretry>>,
           \A k \in Jobs : Status(k) \in OwnedStatuses => row'[k].retries = row[k].retries
    PROVE  \A w \in Workers : Counts(w)'
<1> SUFFICES ASSUME NEW w \in Workers, wpc[w] \in {"retried"} \cup DeadPcs PROVE Counts(w)'
  BY DEF Counts
<1>1. wpc[w] \in RunPcs \cup DeadPcs
  BY DEF RunPcs
<1>2. wjob[w] \in Jobs /\ Status(wjob[w]) \in OwnedStatuses
  BY <1>1, Apart, StatusOfWorker DEF OwnedStatuses
<1> QED
  BY <1>2 DEF Counted, Counts

LEMMA LifeNextStep ==
    ASSUME Typed, SingleDispatch, SeenIsWaiting, WorkersOwn, Counted, stalls = 0, [Next]_vars
    PROVE  (LifeStep \/ UndoesCancel) /\ AbsentAreFresh' /\ \A w \in Workers : Counts(w)'
<1>0. JobStoreTypeOK /\ TimerTyped /\ ReaperTyped /\ ClientTyped /\ AbsentAreFresh
  BY DEF Typed, Counted
<1>1. ASSUME NEW w \in Workers, WorkerMove(w) \/ AgentCrash(w) \/ BesideMove(w)
      PROVE  (LifeStep \/ UndoesCancel) /\ AbsentAreFresh' /\ \A v \in Workers : Counts(v)'
  BY <1>1, WorkerLives DEF WorkerMove, AgentCrash, BesideMove
<1>2. CASE (\E t \in Timers : TimerMove(t)) \/ ReaperMove
  <2>1. LifeStep /\ RetriesQuiet
    BY <1>0, <1>2, TimerLives, ReaperLives DEF TimerMove, ReaperMove
  <2>2. UNCHANGED <<wpc, wjob, wretry>>
    BY <1>2 DEF TimerMove, ReaperMove, TimerStep, TimerWakes, TimerCancels, TimerRequeues,
       TimerPublishes, workerVars
  <2>3. \A w \in Workers : Counts(w)'
    BY <2>1, <2>2, BystandersCount DEF RetriesQuiet
  <2> QED
    BY <1>0, <2>1, <2>3, AbsentKept
<1>3. ASSUME NEW c \in Clients,
             ClientMove(c) \/ ClientCreates(c) \/ ClientCancels(c) \/ ClientRequeues(c)
      PROVE  LifeStep /\ AbsentAreFresh' /\ \A v \in Workers : Counts(v)'
  <2>1. /\ LifeStep /\ AbsentAreFresh'
        /\ \A k \in Jobs : Status(k) \in OwnedStatuses => row'[k].retries = row[k].retries
    BY <1>0, <1>3, ClientLives DEF ClientMove, ClientCreates, ClientCancels, ClientRequeues
  <2>2. UNCHANGED <<wpc, wjob, wretry>>
    BY <1>3 DEF ClientMove, ClientCreates, ClientCancels, ClientRequeues, workerVars
  <2> QED
    BY <2>1, <2>2, BystandersCount
<1>4. CASE (\E j \in Jobs : LeaseExpires(j)) \/ UNCHANGED vars
  <2>1. \A k \in Jobs : row'[k].status = row[k].status /\ row'[k].retries = row[k].retries
    BY <1>0, <1>4 DEF LeaseExpires, vars, jobStoreVars, JobStoreTypeOK, Rows
  <2>2. LifeStep /\ RetriesQuiet
    BY <2>1, LifeStays
  <2>3. UNCHANGED <<wpc, wjob, wretry>>
    BY <1>4 DEF LeaseExpires, vars, workerVars
  <2>4. \A w \in Workers : Counts(w)'
    BY <2>2, <2>3, BystandersCount DEF RetriesQuiet
  <2> QED
    BY <1>0, <2>2, <2>4, AbsentKept
<1>5. CASE ProcessCrash
  <2>1. row' = row /\ \A w \in Workers : wpc'[w] \notin {"retried"} \cup DeadPcs
    BY <1>5 DEF ProcessCrash, WorkersStop, DeadPcs
  <2>2. LifeStep /\ RetriesQuiet
    BY <2>1, LifeStays
  <2> QED
    BY <1>0, <2>1, <2>2, AbsentKept DEF Counts
<1> QED
  BY <1>1, <1>2, <1>3, <1>4, <1>5 DEF Next

LEMMA LifeInits == Init => Lifecycle!LifeInit
BY DEF Init, JobStoreInit, NoRow, Lifecycle!LifeInit

\* Without stalls every step of the job queue, also one on the many paths of a
\* cancel request, is a move of the life cycle or a stutter, but for one: _run
\* may start a job that it has read as CANCELLED.
THEOREM DepartsOnlyToUndo ==
    Spec => [][stalls = 0 => [Lifecycle!LifeNext]_(Lifecycle!lifeVars) \/ UndoesCancel]_vars
<1>1. Typed /\ SingleDispatch /\ Served /\ Owned /\ Counted /\ [Next]_vars
      => /\ Counted'
         /\ [stalls = 0 => LifeStep \/ UndoesCancel]_vars
  <2> SUFFICES ASSUME Typed, SingleDispatch, Served, Owned, Counted, [Next]_vars, stalls = 0
               PROVE  Counted' /\ (LifeStep \/ UndoesCancel)
    BY StallsGrow DEF Counted
  <2>1. SeenIsWaiting /\ WorkersOwn
    BY DEF Served, Owned
  <2> QED
    BY <2>1, LifeNextStep DEF Counted
<1>2. Spec => []Counted
  BY <1>1, CountedInit, AlwaysTyped, DispatchesSingly, AlwaysServed, AlwaysOwned, PTL DEF Spec
<1> QED
  BY <1>1, <1>2, AlwaysTyped, DispatchesSingly, AlwaysServed, AlwaysOwned, PTL DEF Spec, LifeStep

\* Without stalls, and where no cancelled job is started, the job queue
\* implements the life cycle: a job follows the edges of the state machine, its
\* retry count grows by one per failed attempt, and only a job that has used up
\* its retries is dead-lettered.
THEOREM LifecycleKept == Spec /\ [](stalls = 0) /\ [][~UndoesCancel]_vars => FollowsLifecycle
<1>1. /\ [stalls = 0 => [Lifecycle!LifeNext]_(Lifecycle!lifeVars) \/ UndoesCancel]_vars
      /\ [~UndoesCancel]_vars /\ stalls = 0
      => [Lifecycle!LifeNext]_(Lifecycle!lifeVars)
  <2>1. CASE UNCHANGED vars
    <3>1. \A k \in Jobs : row'[k].status = row[k].status /\ row'[k].retries = row[k].retries
      BY <2>1 DEF vars, jobStoreVars
    <3> QED
      BY <3>1, LifeStays DEF LifeStep
  <2> QED
    BY <2>1
<1>2. Spec /\ [](stalls = 0) /\ [][~UndoesCancel]_vars
      => [][Lifecycle!LifeNext]_(Lifecycle!lifeVars)
  BY <1>1, DepartsOnlyToUndo, PTL
<1> QED
  BY <1>2, LifeInits, PTL DEF Spec, FollowsLifecycle, Lifecycle!LifeSpec

\* Where nobody asks for a cancel there is nothing to undo.
THEOREM LifecycleFollowed == Spec /\ [](stalls = 0 /\ cancels = 0) => FollowsLifecycle
<1>1. Typed /\ Served /\ NeverCancelled /\ cancels = 0 => [~UndoesCancel]_vars
  <2> SUFFICES ASSUME Typed, SeenIsWaiting, CleanRows, UndoesCancel PROVE FALSE
    BY DEF Served, NeverCancelled, Clean
  <2>1. PICK w \in Workers : wpc[w] = "start" /\ wseen[w] = "CANCELLED"
    BY DEF UndoesCancel, StartJob, At
  <2>2. wjob[w] \in Jobs /\ Status(wjob[w]) = "CANCELLED"
    BY <2>1 DEF Typed, WorkerTyped, SeenIsWaiting
  <2> QED
    BY <2>2 DEF CleanRows
<1>2. Spec /\ [](stalls = 0 /\ cancels = 0) => [](stalls = 0) /\ [][~UndoesCancel]_vars
  BY <1>1, AlwaysTyped, AlwaysServed, AlwaysClean, PTL
<1> QED
  BY <1>2, LifecycleKept

=============================================================================
