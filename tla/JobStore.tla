------------------------------- MODULE JobStore -------------------------------
(***************************************************************************)
(* What the tasks of async-agent-job-queue share: the job rows, the        *)
(* checkpoints and the event log in SQLite, and the in-process queue.      *)
(*                                                                         *)
(* Each operator is one SQL statement or one section under the queue's     *)
(* condition: the units no other task can split.  A row is only changed    *)
(* by a conditional UPDATE, but the condition is on the STATUS alone, on   *)
(* the worker alone, or absent, as the source has it.                      *)
(***************************************************************************)
EXTENDS Integers, FiniteSets

CONSTANTS
    Jobs,        \* job ids
    NoJob,       \* no job
    Workers,     \* worker ids
    NoWorker,    \* worker_id = NULL
    Steps,       \* number of steps of the agent
    ToolSteps,   \* the steps that call a tool
    MaxRetries   \* max_retries of a job

ASSUME JobStoreAssumption ==
    /\ NoJob \notin Jobs
    /\ NoWorker \notin Workers
    /\ Steps \in Nat
    /\ ToolSteps \subseteq 1..Steps
    /\ MaxRetries \in Nat

VARIABLES
    row,        \* the jobs table
    queue,      \* messages per job in the memory queue
    cp,         \* the checkpoint of a job
    completed   \* the jobs with a JOB_COMPLETED event

jobStoreVars == <<row, queue, cp, completed>>

(***************************************************************************)
(* Data.  "ABSENT" is a job not created yet.  A lease is a time: none      *)
(* (NULL), live, or expired by more than the reaper's grace.               *)
(***************************************************************************)
Statuses == {"ABSENT", "QUEUED", "RUNNING", "RETRYING", "SUCCESS", "FAILED",
             "CANCELLED", "DEAD"}

Rows == [status : Statuses,
         worker : Workers \cup {NoWorker},
         lease : {"none", "live", "expired"},
         cancel : BOOLEAN,
         retries : Nat]

NoRow == [status |-> "ABSENT", worker |-> NoWorker, lease |-> "none",
          cancel |-> FALSE, retries |-> 0]

\* What is kept of an agent's state: how many steps are completed and which
\* tool calls are recorded as successful.  A record "running" is treated by
\* ctx.tool as no record.
AgentStates == [done : 0..Steps, tools : SUBSET ToolSteps]

Fresh == [done |-> 0, tools |-> {}]

JobStoreTypeOK ==
    /\ row \in [Jobs -> Rows]
    /\ queue \in [Jobs -> Nat]
    /\ cp \in [Jobs -> AgentStates]
    /\ completed \subseteq Jobs

JobStoreInit ==
    /\ row = [j \in Jobs |-> NoRow]
    /\ queue = [j \in Jobs |-> 0]
    /\ cp = [j \in Jobs |-> Fresh]
    /\ completed = {}

(***************************************************************************)
(* The jobs table.                                                         *)
(***************************************************************************)
Status(j) == row[j].status

\* transition: UPDATE ... WHERE id = j AND status = from, with ok its result.
\* It does not ask JobStateMachine whether the move is legal.
Transition(j, from, r, ok) ==
    /\ ok = (Status(j) = from)
    /\ row' = IF ok THEN [row EXCEPT ![j] = r] ELSE row

\* The row r with worker_id and lease_expire_at set to NULL, in status s.
Released(r, s) == [r EXCEPT !.status = s, !.worker = NoWorker, !.lease = "none"]

\* The same with cancel_requested = FALSE.
Settled(r, s) == [Released(r, s) EXCEPT !.cancel = FALSE]

\* acquire_lease does not compare owners while the job waits.
Acquirable(j, w) ==
    \/ Status(j) \in {"QUEUED", "RETRYING"}
    \/ row[j].lease \in {"none", "expired"}
    \/ row[j].worker = w

AcquireLease(j, w) ==
    row' = [row EXCEPT ![j] = [@ EXCEPT !.worker = w, !.lease = "live"]]

RenewLease(j) == row' = [row EXCEPT ![j].lease = "live"]

\* expire_lease, guarded by worker_id.
ExpireLease(j, w) ==
    row' = IF row[j].worker = w THEN [row EXCEPT ![j].lease = "expired"] ELSE row

\* Mutant of SetCancelRequested: the status is changed instead of the flag.
SetCancelledNow(j) == row' = [row EXCEPT ![j].status = "CANCELLED"]

SetCancelRequested(j) == row' = [row EXCEPT ![j].cancel = TRUE]

Recoverable(j) ==
    /\ Status(j) \in {"RUNNING", "RETRYING"}
    /\ row[j].lease = "expired"

(***************************************************************************)
(* The memory queue.  Priorities and tenants decide the order, so a worker *)
(* may get any message; ack does nothing.                                  *)
(***************************************************************************)
Publish(j) == queue' = [queue EXCEPT ![j] = @ + 1]

Get(j) ==
    /\ queue[j] > 0
    /\ queue' = [queue EXCEPT ![j] = @ - 1]

(***************************************************************************)
(* Checkpoints.                                                            *)
(***************************************************************************)
\* checkpoints.step is NOT NULL, and a state has no current step until its first
\* step is completed: such a state cannot be saved.
Savable(state) == state.done > 0

SaveCheckpoint(j, state) == cp' = IF Savable(state) THEN [cp EXCEPT ![j] = state] ELSE cp

DeleteCheckpoint(j) == cp' = [cp EXCEPT ![j] = Fresh]

=============================================================================
