------------------------------ MODULE JobWorker ------------------------------
(***************************************************************************)
(* Worker.run and JobExecutor.execute: one action per access to the store. *)
(*                                                                         *)
(* While a worker executes, two more tasks run for it: the heartbeat,      *)
(* which renews the lease or finds it lost, and the cancel watcher.  Both  *)
(* only set a flag of the AbortGate, which the executor looks at before    *)
(* each step, LLM call and tool call.                                      *)
(***************************************************************************)
EXTENDS JobStore

CONSTANT Timers   \* bound: delayed requeues pending at a time

VARIABLES
    wpc,      \* where a worker is
    wjob,     \* the job whose message it holds
    wseen,    \* _run: the status it read
    wretry,   \* _handle_retry: the retry count it read
    wstate,   \* its AgentState
    gate,     \* its AbortGate: "cancel", "lost"
    tpc,      \* where a delayed requeue is
    tjob      \* the job it is for

workerVars == <<wpc, wjob, wseen, wretry, wstate, gate>>
timerVars == <<tpc, tjob>>

\* From the pop of the message to the move to RUNNING.
PickupPcs == {"load", "acquire", "read", "start"}

\* In the agent.
AgentPcs == {"resume", "step", "work", "call", "tool", "record", "save"}

\* From RUNNING to the statement that ends the run.
RunPcs == AgentPcs \cup {"finish", "retry", "retried", "fatal", "crash",
                         "cancelLoad", "cancelSave", "cancelled"}

DeadPcs == {"deadRetrying", "deadFailed", "deadRunning"}

WorkerPcs == {"idle", "expire", "leave", "cleanup"}
                \cup PickupPcs \cup RunPcs \cup DeadPcs

\* Where the heartbeat task runs: from acquire_lease to the finally block.
BeatPcs == WorkerPcs \ {"idle", "load", "acquire"}

\* Where the gate will still be looked at.
GatedPcs == {"read", "start"} \cup AgentPcs

TimerPcs == {"off", "sleep", "cancel", "requeue", "publish"}

JobWorkerTypeOK ==
    /\ wpc \in [Workers -> WorkerPcs]
    /\ wjob \in [Workers -> Jobs \cup {NoJob}]
    /\ wseen \in [Workers -> Statuses]
    /\ wretry \in [Workers -> Nat]
    /\ wstate \in [Workers -> AgentStates]
    /\ gate \in [Workers -> SUBSET {"cancel", "lost"}]
    /\ tpc \in [Timers -> TimerPcs]
    /\ tjob \in [Timers -> Jobs \cup {NoJob}]

JobWorkerInit ==
    /\ wpc = [w \in Workers |-> "idle"]
    /\ wjob = [w \in Workers |-> NoJob]
    /\ wseen = [w \in Workers |-> "ABSENT"]
    /\ wretry = [w \in Workers |-> 0]
    /\ wstate = [w \in Workers |-> Fresh]
    /\ gate = [w \in Workers |-> {}]
    /\ tpc = [t \in Timers |-> "off"]
    /\ tjob = [t \in Timers |-> NoJob]

At(w, pc) == wpc[w] = pc

To(w, pc) == wpc' = [wpc EXCEPT ![w] = pc]

\* The end of execute, with the ack and the next turn of the loop.
Done(w) ==
    /\ To(w, "idle")
    /\ wjob' = [wjob EXCEPT ![w] = NoJob]
    /\ wseen' = [wseen EXCEPT ![w] = "ABSENT"]
    /\ wretry' = [wretry EXCEPT ![w] = 0]
    /\ wstate' = [wstate EXCEPT ![w] = Fresh]
    /\ gate' = [gate EXCEPT ![w] = {}]

\* A step inside execute that changes only the program counter.
Goes(w, pc) ==
    /\ To(w, pc)
    /\ UNCHANGED <<wjob, wseen, wretry, wstate, gate>>

(***************************************************************************)
(* Picking a job up.                                                       *)
(***************************************************************************)
GetJob(w, j) ==
    /\ At(w, "idle")
    /\ Get(j)
    /\ To(w, "load")
    /\ wjob' = [wjob EXCEPT ![w] = j]
    /\ UNCHANGED <<row, cp, completed, wseen, wretry, wstate, gate, timerVars>>

\* execute reads the row and skips a job that does not wait.
LoadJob(w) ==
    /\ At(w, "load")
    /\ IF Status(wjob[w]) \in {"QUEUED", "RETRYING"}
         THEN Goes(w, "acquire")
         ELSE Done(w)
    /\ UNCHANGED <<jobStoreVars, timerVars>>

Acquire(w) ==
    /\ At(w, "acquire")
    /\ IF Acquirable(wjob[w], w)
         THEN AcquireLease(wjob[w], w) /\ Goes(w, "read")
         ELSE UNCHANGED row /\ Done(w)
    /\ UNCHANGED <<queue, cp, completed, timerVars>>

\* _run reads the row again, and moves it to RUNNING from whatever it read.
ReadJob(w) ==
    /\ At(w, "read")
    /\ To(w, "start")
    /\ wseen' = [wseen EXCEPT ![w] = Status(wjob[w])]
    /\ UNCHANGED <<jobStoreVars, wjob, wretry, wstate, gate, timerVars>>

StartJob(w) ==
    /\ At(w, "start")
    /\ \E ok \in BOOLEAN :
          /\ Transition(wjob[w], wseen[w],
                        [row[wjob[w]] EXCEPT !.status = "RUNNING", !.worker = w], ok)
          /\ Goes(w, IF ok THEN "resume" ELSE "expire")
    /\ UNCHANGED <<queue, cp, completed, timerVars>>

\* expire_lease of a run that did not start, or that ended with WorkerCrash.
\* The heartbeat runs a moment longer than the statement.
GiveUp(w) ==
    /\ wpc[w] \in {"expire", "crash"}
    /\ ExpireLease(wjob[w], w)
    /\ Goes(w, "leave")
    /\ UNCHANGED <<queue, cp, completed, timerVars>>

Leave(w) ==
    /\ At(w, "leave")
    /\ Done(w)
    /\ UNCHANGED <<jobStoreVars, timerVars>>

(***************************************************************************)
(* Running the agent.                                                      *)
(***************************************************************************)
ResumeJob(w) ==
    /\ At(w, "resume")
    /\ To(w, "step")
    /\ wstate' = [wstate EXCEPT ![w] = cp[wjob[w]]]
    /\ UNCHANGED <<jobStoreVars, wjob, wseen, wretry, gate, timerVars>>

\* raise_if_aborted: a cancel request goes before a lost lease.
Abort(w) ==
    /\ wpc[w] \in {"step", "work"}
    /\ gate[w] # {}
    /\ Goes(w, IF "cancel" \in gate[w] THEN "cancelLoad" ELSE "crash")
    /\ UNCHANGED <<jobStoreVars, timerVars>>

NextStep(w) ==
    /\ At(w, "step")
    /\ gate[w] = {}
    /\ Goes(w, IF wstate[w].done < Steps THEN "work" ELSE "finish")
    /\ UNCHANGED <<jobStoreVars, timerVars>>

CurrentStep(w) == wstate[w].done + 1

\* A step that calls the LLM, or whose tool call is recorded: ctx.tool returns
\* the recorded result.  Every step does one or the other.
CallCached(w) ==
    /\ At(w, "work")
    /\ gate[w] = {}
    /\ CurrentStep(w) \in ToolSteps => CurrentStep(w) \in wstate[w].tools
    /\ Goes(w, "call")
    /\ UNCHANGED <<jobStoreVars, timerVars>>

\* Mutant of CallTool: the tool runs although its success is recorded.
CallToolAlways(w) ==
    /\ At(w, "work")
    /\ gate[w] = {}
    /\ CurrentStep(w) \in ToolSteps
    /\ SaveCheckpoint(wjob[w], wstate[w])
    /\ Goes(w, IF Savable(wstate[w]) THEN "tool" ELSE "fatal")
    /\ UNCHANGED <<row, queue, completed, timerVars>>

\* ctx.tool saves a checkpoint with the record "running" before the tool runs.
\* In the first step that fails, with an exception nobody retries.
CallTool(w) ==
    /\ At(w, "work")
    /\ gate[w] = {}
    /\ CurrentStep(w) \in ToolSteps \ wstate[w].tools
    /\ SaveCheckpoint(wjob[w], wstate[w])
    /\ Goes(w, IF Savable(wstate[w]) THEN "tool" ELSE "fatal")
    /\ UNCHANGED <<row, queue, completed, timerVars>>

ToolReturns(w) ==
    /\ At(w, "tool")
    /\ To(w, "record")
    /\ wstate' = [wstate EXCEPT ![w].tools = @ \cup {CurrentStep(w)}]
    /\ UNCHANGED <<jobStoreVars, wjob, wseen, wretry, gate, timerVars>>

RecordTool(w) ==
    /\ At(w, "record")
    /\ SaveCheckpoint(wjob[w], wstate[w])
    /\ Goes(w, "call")
    /\ UNCHANGED <<row, queue, completed, timerVars>>

StepReturns(w) ==
    /\ At(w, "call")
    /\ To(w, "save")
    /\ wstate' = [wstate EXCEPT ![w].done = @ + 1]
    /\ UNCHANGED <<jobStoreVars, wjob, wseen, wretry, gate, timerVars>>

SaveStep(w) ==
    /\ At(w, "save")
    /\ SaveCheckpoint(wjob[w], wstate[w])
    /\ Goes(w, "step")
    /\ UNCHANGED <<row, queue, completed, timerVars>>

\* A step or a tool raises RetryableError, another exception, or WorkerCrash.
StepRaises(w, error) ==
    /\ wpc[w] \in {"work", "call", "tool"}
    /\ At(w, "work") => gate[w] = {}
    /\ Goes(w, error)
    /\ UNCHANGED <<jobStoreVars, timerVars>>

(***************************************************************************)
(* Ending a run.  Every transition below asks for RUNNING (or RETRYING),   *)
(* none of them who runs the job.                                          *)
(***************************************************************************)
\* The result of the transition is not looked at: JOB_COMPLETED follows.
Finish(w) ==
    /\ At(w, "finish")
    /\ \E ok \in BOOLEAN :
          Transition(wjob[w], "RUNNING", Settled(row[wjob[w]], "SUCCESS"), ok)
    /\ completed' = completed \cup {wjob[w]}
    /\ Goes(w, "cleanup")
    /\ UNCHANGED <<queue, cp, timerVars>>

Cleanup(w) ==
    /\ At(w, "cleanup")
    /\ DeleteCheckpoint(wjob[w])
    /\ Done(w)
    /\ UNCHANGED <<row, queue, completed, timerVars>>

\* _finalize_cancel: load the checkpoint, save it again, end the job.  Whether it
\* could be saved makes no difference.
CancelLoad(w) ==
    /\ At(w, "cancelLoad")
    /\ To(w, "cancelSave")
    /\ wstate' = [wstate EXCEPT ![w] = cp[wjob[w]]]
    /\ UNCHANGED <<jobStoreVars, wjob, wseen, wretry, gate, timerVars>>

CancelSave(w) ==
    /\ At(w, "cancelSave")
    /\ SaveCheckpoint(wjob[w], wstate[w])
    /\ Goes(w, "cancelled")
    /\ UNCHANGED <<row, queue, completed, timerVars>>

FinalizeCancel(w) ==
    /\ At(w, "cancelled")
    /\ \E ok \in BOOLEAN :
          Transition(wjob[w], "RUNNING", Settled(row[wjob[w]], "CANCELLED"), ok)
    /\ Done(w)
    /\ UNCHANGED <<queue, cp, completed, timerVars>>

HandleFailure(w) ==
    /\ At(w, "fatal")
    /\ \E ok \in BOOLEAN :
          Transition(wjob[w], "RUNNING", Released(row[wjob[w]], "FAILED"), ok)
    /\ Done(w)
    /\ UNCHANGED <<queue, cp, completed, timerVars>>

\* The fresh row whose retry count _handle_retry goes by.
ReadRetries(w) ==
    /\ At(w, "retry")
    /\ To(w, "retried")
    /\ wretry' = [wretry EXCEPT ![w] = row[wjob[w]].retries]
    /\ UNCHANGED <<jobStoreVars, wjob, wseen, wstate, gate, timerVars>>

\* Mutant of RetriesLeft: one retry too many.
RetriesLeftOrLast(n) == n <= MaxRetries

RetriesLeft(n) == n < MaxRetries

\* RUNNING -> RETRYING with a lease over the backoff, and a delayed requeue.
RetryLater(w) ==
    LET j == wjob[w]
        new == wretry[w] + 1
        waiting == [row[j] EXCEPT !.status = "RETRYING", !.retries = new,
                                  !.worker = NoWorker, !.lease = "live"]
    IN  /\ At(w, "retried")
        /\ RetriesLeft(new)
        /\ \E ok \in BOOLEAN :
              /\ Transition(j, "RUNNING", waiting, ok)
              /\ \/ /\ ok
                    /\ \E t \in Timers :
                          /\ tpc[t] = "off"
                          /\ tpc' = [tpc EXCEPT ![t] = "sleep"]
                          /\ tjob' = [tjob EXCEPT ![t] = j]
                 \/ ~ok /\ UNCHANGED timerVars
        /\ Done(w)
        /\ UNCHANGED <<queue, cp, completed>>

\* RUNNING -> FAILED; the dead letter follows even when this did not hit.
RetriesExhausted(w) ==
    LET j == wjob[w]
        new == wretry[w] + 1
    IN  /\ At(w, "retried")
        /\ ~RetriesLeft(new)
        /\ \E ok \in BOOLEAN :
              Transition(j, "RUNNING",
                         [Released(row[j], "FAILED") EXCEPT !.retries = new], ok)
        /\ Goes(w, "deadRetrying")
        /\ UNCHANGED <<queue, cp, completed, timerVars>>

\* DlqManager.send tries one status after the other until one moves to DEAD.
DeadLetter(w, pc, from, next) ==
    /\ At(w, pc)
    /\ \E ok \in BOOLEAN :
          /\ Transition(wjob[w], from, Released(row[wjob[w]], "DEAD"), ok)
          /\ IF ok \/ next = "idle" THEN Done(w) ELSE Goes(w, next)
    /\ UNCHANGED <<queue, cp, completed, timerVars>>

SendToDlq(w) ==
    \/ DeadLetter(w, "deadRetrying", "RETRYING", "deadFailed")
    \/ DeadLetter(w, "deadFailed", "FAILED", "deadRunning")
    \/ DeadLetter(w, "deadRunning", "RUNNING", "idle")

(***************************************************************************)
(* The tasks beside a run.                                                 *)
(***************************************************************************)
\* A heartbeat that renews; with the lease live it changes nothing.
Heartbeat(w) ==
    /\ wpc[w] \in BeatPcs
    /\ row[wjob[w]].worker = w
    /\ row[wjob[w]].lease # "live"
    /\ RenewLease(wjob[w])
    /\ UNCHANGED <<queue, cp, completed, workerVars, timerVars>>

HeartbeatFails(w) ==
    /\ wpc[w] \in GatedPcs
    /\ row[wjob[w]].worker # w
    /\ "lost" \notin gate[w]
    /\ gate' = [gate EXCEPT ![w] = @ \cup {"lost"}]
    /\ UNCHANGED <<jobStoreVars, wpc, wjob, wseen, wretry, wstate, timerVars>>

WatchCancel(w) ==
    /\ wpc[w] \in GatedPcs
    /\ row[wjob[w]].cancel
    /\ "cancel" \notin gate[w]
    /\ gate' = [gate EXCEPT ![w] = @ \cup {"cancel"}]
    /\ UNCHANGED <<jobStoreVars, wpc, wjob, wseen, wretry, wstate, timerVars>>

(***************************************************************************)
(* _delayed_requeue.                                                       *)
(***************************************************************************)
TimerTo(t, pc) ==
    /\ tpc' = [tpc EXCEPT ![t] = pc]
    /\ tjob' = IF pc = "off" THEN [tjob EXCEPT ![t] = NoJob] ELSE tjob

\* The backoff is over: is_cancel_requested.
TimerWakes(t) ==
    /\ tpc[t] = "sleep"
    /\ TimerTo(t, IF row[tjob[t]].cancel THEN "cancel" ELSE "requeue")
    /\ UNCHANGED <<jobStoreVars, workerVars>>

TimerCancels(t) ==
    /\ tpc[t] = "cancel"
    /\ \E ok \in BOOLEAN :
          Transition(tjob[t], "RETRYING", Settled(row[tjob[t]], "CANCELLED"), ok)
    /\ TimerTo(t, "off")
    /\ UNCHANGED <<queue, cp, completed, workerVars>>

TimerRequeues(t) ==
    /\ tpc[t] = "requeue"
    /\ \E ok \in BOOLEAN :
          /\ Transition(tjob[t], "RETRYING", Settled(row[tjob[t]], "QUEUED"), ok)
          /\ TimerTo(t, IF ok THEN "publish" ELSE "off")
    /\ UNCHANGED <<queue, cp, completed, workerVars>>

\* Mutant of TimerPublishes: the message is forgotten.
TimerForgets(t) ==
    /\ tpc[t] = "publish"
    /\ TimerTo(t, "off")
    /\ UNCHANGED <<row, queue, cp, completed, workerVars>>

TimerPublishes(t) ==
    /\ tpc[t] = "publish"
    /\ Publish(tjob[t])
    /\ TimerTo(t, "off")
    /\ UNCHANGED <<row, cp, completed, workerVars>>

TimerStep(t) ==
    TimerWakes(t) \/ TimerCancels(t) \/ TimerRequeues(t) \/ TimerPublishes(t)

(***************************************************************************)
(* A worker's own steps, and the loss of all of them in a process crash.   *)
(***************************************************************************)
PickupStep(w) ==
    \/ \E j \in Jobs : GetJob(w, j)
    \/ LoadJob(w) \/ Acquire(w) \/ ReadJob(w) \/ StartJob(w)
    \/ GiveUp(w) \/ Leave(w)

AgentStep(w) ==
    \/ ResumeJob(w) \/ Abort(w) \/ NextStep(w)
    \/ CallCached(w) \/ CallTool(w) \/ ToolReturns(w) \/ RecordTool(w)
    \/ StepReturns(w) \/ SaveStep(w)

EndStep(w) ==
    \/ Finish(w) \/ Cleanup(w)
    \/ CancelLoad(w) \/ CancelSave(w) \/ FinalizeCancel(w)
    \/ HandleFailure(w) \/ ReadRetries(w) \/ RetryLater(w) \/ RetriesExhausted(w)
    \/ SendToDlq(w)

BesideStep(w) == Heartbeat(w) \/ HeartbeatFails(w) \/ WatchCancel(w)

WorkersStop ==
    /\ wpc' = [w \in Workers |-> "idle"]
    /\ wjob' = [w \in Workers |-> NoJob]
    /\ wseen' = [w \in Workers |-> "ABSENT"]
    /\ wretry' = [w \in Workers |-> 0]
    /\ wstate' = [w \in Workers |-> Fresh]
    /\ gate' = [w \in Workers |-> {}]
    /\ tpc' = [t \in Timers |-> "off"]
    /\ tjob' = [t \in Timers |-> NoJob]

=============================================================================
