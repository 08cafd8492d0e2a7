# AgentLearn in TLA+

AgentLearn is a collection of about sixteen independent Python systems, each a
working miniature of one part of an agent platform.  This directory holds TLA+
models of the ones whose correctness depends on protocols (several processes
over shared state, failures, time-outs, retries), TLC configurations that
check them on small instances, and TLAPS proofs for every instance.

Run the tools in this directory: `tlasany M.tla`, `tlc -config X.cfg MCx` (the
pairs are in section 3), `tlapm XProofs.tla` for each module of proofs in
section 5.

## 1. Inventory

### 1.1 agent-tool-execution-platform (modelled)

A tool call is submitted to a gateway, claimed by an idempotency key, queued,
run by one of several workers, and recovered when a worker dies.  All of it
works over one Redis (`infra/redis.py` simulates the commands) and one SQL
database.  Worker, reaper and callers are threads; the store is the only thing
they share, so every command, registered script and transaction is atomic and
nothing else is.

| part | state | operations | hard behaviour |
|---|---|---|---|
| idempotency record (`idempotency/`) | one record per key: PROCESSING, SUCCESS or FAILED, with the call that made it | SET NX, compare-and-set out of PROCESSING, release, `ensure_owned` (get, then DEL, then SET NX) | late transitions, stale reads |
| leases (`lease/manager.py`) | `lease:{call}` with a lease id and a TTL; a sorted set by expiry | acquire (two commands), renew and release (scripts), force_release (no owner check), expired | holder slower than its TTL, index and key apart |
| job queue (`scheduler/async_executor.py`) | stream with a consumer group and pending entries; delayed set | submit, retry_later, promote_delayed, XREADGROUP, XAUTOCLAIM, XACK | at-least-once delivery, reclaim of live messages |
| worker (`scheduler/worker.py`, `sync_executor.py`) | the message it processes, its cancel set | run_once: promote, reclaim, read, process, finalize | death at any line, stalls |
| gateway (`gateway/gateway.py`) | none of its own between calls | submit, approve, reject, cancel | concurrent callers of one key, stale verdicts |
| approvals (`human/approval.py`) | WAITING, APPROVED, REJECTED per call | request, approve, reject, modify | gate only in submit |
| reaper (`lease/reaper.py`, `idempotency/lock.py`) | recovery lock per call | scan, lock, double check, retry or human | several reapers, stale row |
| database (`infra/database.py`) | row and result per call | upsert, update, finalize_success, finalize_failure | result and record in two stores |
| agent runtime (`agent/`) | graph checkpoint of a run, pending call, decision | run, resume, submit, recheck, recovery plan | node reruns after interrupt(), death between call and checkpoint |

Correct means: a tool that is not safe to run twice is not run twice; a
high-risk tool is not run unapproved; a finished call stays finished and its
result can be loaded; no accepted call is forgotten; the recovery machinery
does not hurt live workers.

### 1.2 async-agent-job-queue (modelled)

Agent jobs are created over HTTP, put in a queue, run step by step by one of
several workers, checkpointed after every step, retried with a backoff,
recovered by a reaper when their lease runs out, cancelled on request, and
moved to the dead letters when their retries are used up.  The default
deployment is one process with one event loop over SQLite and an in-process
queue; its tasks interleave at every `await`, that is at every access to the
store.

| part | state | operations | hard behaviour |
|---|---|---|---|
| job table (`storage/sqlite.py`) | a row per job: status, worker, lease, cancel flag, retry count | `transition` (UPDATE ... WHERE status), acquire, renew and expire the lease, `find_recoverable`, cancel flag | conditions that do not ask whose run it is |
| checkpoints (`checkpoint/`) | completed steps and tool records per job | save, load, delete | write-ahead record of a tool call |
| queue (`queue/memory.py`) | messages in memory | publish, get, ack (nothing) | row and message are two writes |
| worker and executor (`worker/worker.py`, `executor/job_executor.py`) | the message it holds, its `AgentState`, its `AbortGate` | execute, heartbeat, cancel watcher, retry, failure, cancellation | rows read before an await and used after it |
| delayed requeue (`_delayed_requeue`) | one task per retry | sleep, cancel or requeue, publish | against the reaper and cancel requests |
| reaper (`worker/reaper.py`) | a snapshot of rows | cancel or requeue, publish | stale snapshot |
| API (`service.py`, `dlq/manager.py`) | none of its own between calls | create, cancel, requeue | a cancel that comes too late |

Correct means: one dispatch and one run of a job at a time, no job stranded,
recorded steps and tool calls kept, the documented life cycle with its retry
budget, a cancel request carried out.

### 1.3 Six more systems (modelled)

| system | state | operations | hard behaviour | correct means |
|---|---|---|---|---|
| agent-event-fanout | outbox entries, deliveries with a claim and an attempt count, two queues | publish, drain the outbox, fan out, claim by message or by scan, POST, retry, replay, cancel | several processes on the same rows, a claim that times out, answers lost, a process that ends anywhere | every subscriber gets every event at least once, one worker at a time, settled for good |
| prompt-config-registry | config versions, one row of routing rules per agent, its cached copies | create, publish, rollout, rollback, resolve | read-modify-write without a version check, caches filled late, commits cut short | a rollback restores what was live, a user keeps the candidate, a cache is stale only for a reason and not for long |
| stream-infra | events with sequence numbers, replay buffer, bounded queue, producer task | subscribe, resume, publish under four strategies, cancel, disconnect | a producer cancelled at any await while a client resumes, replay overlapping the queue | no event between two that were sent is left out, who waits is answered |
| graceful-agent-cancel | task record, ledger, workspace, cancel mark, handle, event history | submit, run, cooperative and forced stop, watch | a stop at every await, twice, before the start, at the end | nothing left behind, one terminal event, seen by all who watch |
| agent-traffic-gateway | buckets, queue, semaphore, breaker, retry budget, two cache tiers, flights | handle, answer, sweep, dispatch, scale, drain | a leader that ends in a dozen ways with riders waiting, retries inside the dispatch loop | a request is in one place and ends once, retries are paid for, cached answers are young |
| troubleshooting-agent | beliefs and evidence, plan, budget, recoveries, case base | diagnose in rounds, validate and run a plan, recover, learn | long chains of decisions, shared budgets, tools that fail | no cause and no recovery without evidence, budgets hold, the case base is not corrupted |

### 1.4 What is left aside

dynamic-workflow-router (one coroutine walks a plan in dependency order),
guardrails-middleware, agent-tool-sandbox, risk-control-agent, agent-memory,
semantic-cache, langgraph-checkpoint, python_mini_mapreduce and the document
tools are mostly sequential code over texts, operating-system isolation or
demonstrations; see section 6.

## 2. Modules

    ToolStore            the shared store: one operator per command, script, transaction
      ToolWorker         run_once and _process, one action per access to the store
      ToolGateway        submit, approve, reject, cancel
      ToolReaper         LeaseReaper under its recovery lock
        ToolPlatform     the three over one store, with time, crashes and stalls; the properties
          MCToolPlatform       symmetry for TLC
          ToolPlatformProofs   theorems

    JobStore             job rows, checkpoints, memory queue: one operator per statement
      JobWorker          worker, executor, heartbeat, cancel watcher, delayed requeue
      JobReaper          the reaper and its snapshot
      JobClient          create, cancel, requeue from the dead letters
        JobQueue         the three over one store, with time, crashes and stalls; the properties
          JobLifecycle   the abstract specification JobQueue implements
          MCJobQueue     symmetry for TLC
          JobQueueProofs theorems

    FanoutStore          tables and queues: one operator per statement
      FanoutOutbox       outbox worker and fan-out consumer
      FanoutWebhook      webhook worker, retry policy, replay and cancel
        EventFanout      processes over one store, with failures and time; the properties
          WebhookDelivery      the abstract specification EventFanout implements
          MCEventFanout
          EventFanoutProofs    theorems

    ConfigRouting        routing tables and the router, as operators
      ConfigRegistry     requests, resolvers and caches; the properties
        MCConfigRegistry
        ConfigRegistryProofs   theorems

    StreamProducer       the producer task, replay buffer, bounded queue
      EventStream        connections that break and resume; the properties
        MCEventStream
        EventStreamProofs      theorems

    AgentPlatform        the tool platform as the agent sees it
      AgentRuntime       graph, checkpoint, caller, recovery manager; the properties
        MCAgentRuntime
        AgentRuntimeProofs     theorems

    CancelTask           the task, its coroutine, both kinds of stop
      GracefulCancel     the connections that watch it; the properties
        MCGracefulCancel
        SingleAgentProofs      theorems

    TrafficPolicies      limits, breaker, budget, admission, schedulers, cache, as operators
      TrafficGateway     the gateway in its simulation; the properties
        MCTrafficGateway
        TrafficGatewayProofs   theorems

    DiagnosticKnowledge  hypotheses, priors, likelihoods, how a belief moves
      DiagnosticPlan     plans, their validation and order
        Troubleshooting  the agent over several incidents; the properties
          MCTroubleshooting
          SingleAgentProofs    theorems, in one module with those about GracefulCancel

### 2.1 Tool platform

**One key.**  The model follows one idempotency key: `idem` is its record and
`Calls` the calls that carry it.  Calls of different keys touch different
records, leases, rows and approvals and share only the queue, where they can
at most delay each other.

**Store.**  `idem`, `lease`, `leaseIdx`, `db`, `result`, `stream`, `pel`,
`delayed`, `approval` are the platform's own; `cancelled` and `wcancel` are
the scheduler's and the workers' cancel sets.  A lease id is the id of the
message whose processing took it: both are fresh for every delivery.  The
delayed set holds JSON members, so equal payloads are one member, and the
attempt counter is part of the payload.

**Worker.**  `wpc` says where a worker is.  The actions follow `run_once`:
`PromoteTake`, `PromoteAdd` (`promote_delayed`: ZREM then XADD), `Autoclaim`,
`StaleCheck`, `RequeueStale`, `AckStale` (`_reclaim_stale`), `Read`, then
`_process`: `SkipCancelled`, `AcquireLease` or `LeaseRejected`, `IndexLease`,
`EnsureOwned` with `ReplaceFailed` and `ClaimKey`, the run (`StartTool`,
`ToolSucceeds`, `ToolFails`), `ReleaseLease` (the `finally` block, which comes
before anything else is settled), and `_finalize`.  The tool itself either
succeeds or fails with a retryable ("transient") or a final ("permanent")
error; an unhandled exception is one of the two, as the classifier decides.
A worker that dies restarts under the same name with empty memory.

**Gateway.**  A thread runs one operation at a time; `grec` is the record it
read and acts on later.  `Verdict` is `IdempotencyManager.decide`; its `old`
is nondeterministic, since how long a claim is there is only time.

**Reaper.**  `rrow` is the row read before the lock is taken and used until
the end; `lock` the recovery lock with its owner check on release.

**Time and failure.**  Leases, locks and pending entries have time-outs.  A
time-out of something whose process is dead or done is free; one that needs a
live process to miss its heartbeat or to be silent for its whole TTL spends a
stall (`MaxStalls`).  `Crash` kills a worker, a thread or a reaper
(`MaxCrashes`).  Messages are never lost by the stream itself, but the code
may acknowledge them too early.

### 2.2 Job queue

**Store.**  `row` is the job table, "ABSENT" a job not created yet; `queue`
counts the messages of a job, since priorities and tenants only decide the
order; `cp` is the checkpoint, abstracted to the number of completed steps and
the tool calls recorded as successful; `completed` the jobs with a
JOB_COMPLETED event.  A lease is none (NULL), live, or expired by more than
the reaper's grace.  `Transition` is the conditional UPDATE: its condition is
the status alone.  A state without a completed step cannot be saved
(`Savable`): `checkpoints.step` is NOT NULL.

**Worker.**  `wpc` says where `execute` is, one action per access to the
store: `GetJob`, `LoadJob`, `Acquire`, `ReadJob`, `StartJob` (the second read
and the move to RUNNING in `_run`), `ResumeJob`, then per step `NextStep`,
`CallCached` or `CallTool`, `ToolReturns`, `RecordTool`, and `StepReturns`,
`SaveStep`; the ends `Finish` and `Cleanup`, `ReadRetries` with `RetryLater` or
`RetriesExhausted` and `SendToDlq` (three attempts in the order of the loop in
`DlqManager.send`), `HandleFailure`, `CancelLoad`, `CancelSave`,
`FinalizeCancel`, and for a WorkerCrash or a run that could not start `GiveUp`
and `Leave`.  A step may raise a retryable error, another error, or
WorkerCrash (the latter bounded, since nothing in the code counts it).
`Heartbeat`, `HeartbeatFails` and `WatchCancel` are the two tasks beside a run;
they set `gate`, which is looked at before steps, LLM calls and tool calls.
`FinalizeCancel` and `Finish` include the events they write: SUCCESS and
CANCELLED are final, so nothing happens between the two.

**Delayed requeues** are `Timers`, one per pending retry.  **The reaper** keeps
the snapshot `rtodo` and acts on the status it has.  **Requests** run one at a
time per client; `asked` is a history variable, the jobs whose cancel request
was answered.

**Time and failure.**  `LeaseExpires` is free for a lease nobody keeps (no
heartbeat, no backoff) and costs a stall otherwise.  `ProcessCrash` loses the
queue and every task; rows and checkpoints stay.

**`JobLifecycle`** is `domain/state_machine.py`'s table as a specification of
its own, with the retry count: one per attempt that ends in an error, RETRYING
only below the budget, DEAD only when it is used up.  `FollowsLifecycle` says
that `JobQueue` implements it (status and retry count mapped row by row).

### 2.3 Event fan-out

One action per await of a task.  `FanoutOutbox` has the outbox worker
(`opc`: claim a batch, publish, mark, give back) and the fan-out consumer
(`cpc`: match, create a delivery per subscriber, publish it); `FanoutWebhook`
the webhook worker (`wpc`: claim by message or by scan, POST, write the
outcome) and the requests replay and cancel (`apc`).  A delivery is the pair
of its event and subscriber (the table's UNIQUE constraint).  Time is one
flag, `ripe`: the claim has timed out or the back-off is over.  `arrived` is a
history variable, the deliveries a POST of which was accepted, whether the
answer came back or not.  `Durable` says whether the queues outlive a process
(Redis) or not (memory).  `raced` is history too: a replay or a cancel wrote
over a row that was not in the dead letters any more, because nothing looks
again at what the request read.  `KeepsPromise` refines `WebhookDelivery`: a row's
status maps to a phase, `arrived` to what the subscriber received.

### 2.4 Config registry

A routing table is one rule or the incumbent's followed by the candidate's.
`ConfigRouting` has what publish, rollout and rollback make of the table they
read, and the router's buckets.  In `ConfigRegistry` a request reads the row
when it begins, then inserts or upserts, deletes the cached copy and writes
its audit entry, a step each; a resolver misses, reads, fills.  `CutShort` ends
a request after its commit.  `undo`, `excused` and `lost` are history: the table
before the last publish, the sites a change may have left stale, and whether a
request overwrote a change it had not read.

### 2.5 Event stream

An event is its sequence number in `log`; `queue` is what is under way to the
consumer.  `ppc` follows the producer from await to await, and `asked` the
cancellation that may hit any of them.  A connection replays, goes live, takes
from the queue, hangs up or cancels.  `overflowed` (an event was dropped for
want of room) and `orphans` (connections made while the producer was being
stopped) are history and name the two excuses of the properties.

### 2.6 Agent runtime

The graph is the planner and the tool node, run over and over; what
`interrupt()` does to a node (raise; on resume, run again from the first line
and return once) is `wake`.  `ck` is the checkpoint, the rest dies with the
process.  A call of the gateway is two steps here (`AgentPlatform`): all of it up
to the job in the queue (`Submit`), and `Mark`, the PROCESSING that is written
when a worker may have taken, run and settled the job.  The agent writes it
itself (`AgentMarks`, from "published"), and a death may come before; what
reviewers and the recovery manager submit is marked by other processes whenever
they get to it (`late`).  `putBack` is history: the calls whose row a mark took
back from what it said, until a worker writes it again.  The other interleavings
inside a call (claim, row, job; approval record, row) are `ToolPlatform`'s.  What
the two have in common (claims, verdicts, approvals per call, attempts, reaper,
reclaim) is written from the same lines.  `hand`, `got` are the local variables of the node.  The
recovery manager reads (`PlanResume`) and resubmits later (`ApplyResubmits`).
`CycleStop` is the cycle detector's limit.  A call has one job at a time, and
what its worker settles is the record of the key in its row.

### 2.7 Graceful cancellation

Everything runs in one event loop: what happens between two awaits is one step
from `task` to `task`.  `task.at` is the place in the agent's script and
`task.left` the awaits that remain there; `marked` is the cooperative mark,
`asked` a forced stop on its way.  `log` is the event bus; a connection
(`conn`) takes the history, then its queue.

### 2.8 Traffic gateway

The program is a single-threaded simulation, and so is the model: a tick lets
the upstream answer and start calls, requests arrive, sweeps, dispatches and
scales, in this order (`phase`).  The policies are operators on their state, a
record each; the configuration is a constant function that is chosen once.
Workload, service times and failures are free.  The scheduler takes the entry
that is before all others (`Best`); `leaders` and `flights` are the coalescer's
two tables, and a request that rides is in neither queue.

### 2.9 Troubleshooting

A probability is a number of 2000 parts, rounded after each normalisation (the
code has floats).  `mind` is the hypothesis manager: beliefs, the results that
support each, those that moved it.  `cache` is `cached_checks` of the incident's
context: for the two checks a template may reuse, nothing, or a result that is
bare, that carries evidence the store still holds (`kept`), or evidence ids the
store does not know (`lost`).  `_reuse` hands the ids on as they are, so
`Updated` files all but the bare ones; only what the store knows is a source for
the conclusion gate (`Sources`), while the recovery's first gate asks for any id
at all (section 4).  The hints of the trace are taken up one by
one before the first round (`TakesHint`).  A round is the gate, the budget, a
plan (template, model's proposal or the planner's own), its validation and the
cut of bad nodes, its checks (`RunNode`), the update (`Learn`) and `EndRound`; a
recovery goes up the ladder with a rerun behind each action.  A plan is a set of
nodes with ids; `Scheduled` gives each node the layer the executor finds for it
and leaves out those that wait for a node that is never run, and `IsNext`
is the executor's order, by layer and then by id.  Which check has the largest
information gain is left open, and the wall-clock limit may end any round after
the first.

## 3. Runs

All systems may stop (all operations done), so deadlock is not checked; the
liveness properties say what must not be left undone.

| run | module, configuration | properties | shows |
|---|---|---|---|
| tool_delete | MCToolPlatform; `database_delete` (not safe to rerun, high risk, one attempt): 2 calls of one key, submitted any number of times, 2 threads, 2 workers, 5 operations, no faults; 120 thousand states | NoBlindRerun, ApprovedOnly, NoOrphanClaim | concurrent callers, approvals, rejections and cancellations of one key never run the tool twice or unapproved and never strand the claim |
| tool_faults | MCToolPlatform; the same tool, 1 call, 2 workers, 2 reapers, 1 death, 1 stall; 1.8 million states | SuccessHasResult, OneReaperActs, ReleaseOnlyOwn | what remains true when a process dies or is silent too long |
| tool_live | MCToolPlatform; `run_test` (safe to rerun, 2 attempts), 1 call, 2 workers, 1 reaper, 1 death, fair; 186 thousand states | JobSettles | jobs end |
| job_faults | MCJobQueue; 1 job of 2 steps, the second a tool, 2 attempts, 2 workers, 2 delayed requeues, 1 client; one cancel, dead-letter requeue, worker crash, process crash and stall; 1.7 million states | SingleDispatch, NoLostMessage, RunnerOwnsJob, ToolNotRepeated | what remains true when everything happens once |
| job_live | MCJobQueue; 2 jobs of 1 step, 2 attempts, 2 workers, 2 delayed requeues, one worker crash and dead-letter requeue, fair; 41 thousand states | FollowsLifecycle, JobEnds | the documented life cycle is implemented, and jobs end |
| fanout_live | MCEventFanout; 2 processes, 1 event, 1 subscriber, 2 attempts, 1 request, 1 failure of any kind, queues in Redis, fair | ClaimIsExclusive, KeepsPromise, FanoutIsComplete, DeliverySettles | claims exclude each other, the promise of one delivery is kept, everything is fanned out and settled |
| config_cache | MCConfigRegistry; 2 requests at once, 3 in all, 3 versions, 1 resolver, 1 cache, one commit cut short, fair | StaleOnlyByRace, RollbackUndoes, CanaryIsSticky, CachesConverge | rollbacks and canaries mean what they should, and a cache is stale for a reason and not for long |
| stream_live | MCEventStream; 3 tokens, a queue of one, 2 connections at once and 3 in all, one failure, each strategy, fair | NothingSkipped, ConnectionsEnd | resuming loses nothing, and nobody waits for ever |
| agent_run | MCAgentRuntime; a plan of a plain, a retryable and a high-risk tool, 5 call ids, one death (of the agent or of a worker), one resubmission, two reviews, fair; 503 thousand states | OneJobPerKey, DoneStepsSucceeded, OnlyReleasedCallsRun, RunEnds | restarts and reruns of a node do not run a tool twice, unreleased or uncounted |
| cancel_live | MCGracefulCancel; 2 stops, one workspace error, 1 connection that breaks once, a history of 4, fair | EndLeavesNothing, TerminalIsLast, NothingMissed, StopEnds | a stop anywhere cleans up, a forced one always ends the task as cancelled, and the end is told once and to everyone |
| traffic_live | MCTrafficGateway; a governed, a naive and a scaling gateway, up to 4 requests of 2 tenants and 2 keys, 2 failures, fair | OnePlace, RetriesAreBudgeted, AnswersAreFresh, SimEnds | no request is lost, doubled or left with a leader that is gone |
| trouble_live | MCTroubleshooting; 2 incidents, hinted at or not, with and without permissions, a cache that is empty or holds a result, bare, with evidence or with lost evidence, one check that says nothing, fair; 707 thousand states | ConclusionIsWarranted, RecoveryIsEarned, BudgetHolds, ExperienceIsVerified, IncidentEnds | conclusions and recoveries rest on checks run or remembered with their evidence, over incidents that share approvals and cases |

**Bounds.**  Two calls are enough for every conflict over a key (the record
names one of them), two workers for every reclaim and every stale holder, two
reapers for the lock.  One death and one stall produce each recovery path
once.  `MaxOps` bounds what callers begin: five operations allow two submits,
two approvals and a cancellation in every order.  `MaxMessages` bounds the
messages ever added: in `tool_live` it is never reached (a worker that stops
at it would violate JobSettles), in `tool_faults` three messages are one
dispatch and one reclaim for each fault, and `tool_delete` has no reclaim.
`LongTool` is FALSE: no run outlasts the 30 idle seconds after which a message
is claimed by another worker (`database_delete` is stopped after 30 seconds);
section 4 says what happens otherwise.

In `job_faults` two workers are what a take-over needs and two delayed
requeues what two overlapping retries need; each fault happens once, and any
one of them can come anywhere in the life of the others.  Runs of different
jobs only share workers, so one job is enough for safety; `job_live` has two
jobs so that they can keep each other waiting.  Properties that start with
`stalls = 0` or `crashes = 0` say what they need: a stalled worker's statements
do hit another worker's run, and the memory queue does lose its messages with
the process.  The other faults of the run are still there when those are zero.

Deliveries of different pairs share only the batches, so one event and one
subscriber with two processes, both ways of claiming and a replay meet every
conflict over a row; two attempts are one retry and the dead letters.  In the
registry traffic is counted in tenths (`Whole = 10`, `Percents` 3, 5, 7 and 10:
below, at and above a tie, and all of it); three versions are an incumbent, a candidate and
one more, and three changes a publish, a rollout and a rollback.  A queue of
one event is full at every second token; three tokens with the metadata, the
terminal events and three connections give every overlap of replay, queue and
running producer.  The replay buffer (`Window`) holds two events, fewer than a
broken connection can leave behind, so that a client may come too late and is
refused.  The agent's plan has one tool of each kind; five call ids are one
for each step and one rerun each for a crash and a resubmission, and two reviews
are a release and a second opinion on the same call.  One death, of the agent or
of a worker, can come anywhere in the life of all that.  The script in
`cancel_live` has a call of the model, a tool with two awaits and the call that
writes the report, so that a stop hits the first, a middle and the last one; two stops are a cooperative one and
a forced one in each order.  The three gateways of `traffic_live` have small
numbers throughout (a queue of 2, 2 upstream slots, a budget of one retry, life
times of 1 and 2 ticks) so that each limit is met within 5 ticks.  In
`trouble_live` four calls, four nodes and two rounds are too few for some plans
and enough for others, three tries reach `restart_device` and its approval, and
a second incident meets the approvals and the case of the first; the result in
the cache is that of the environment, which alone can be decisive; 2000 parts
keep the beliefs an order of magnitude finer than the percent steps of the
thresholds, priors and likelihoods they are compared with and made of.

**Fairness.**  In the tool platform
workers and threads are ordinary
threads in loops, so each has weak fairness for its next step; `run_once`
promotes and reclaims before it reads on every pass, so a worker that keeps
coming to the top of its loop does take what is due (strong fairness of
`PromoteDue` and `ReclaimAbandoned`); a lease nobody renews expires.  Nothing
forces a caller to call, a process to die or a reaper to scan.  In the job
queue every task of the event loop gets its turn (weak fairness per worker,
its heartbeat and watcher, delayed requeue, reaper and request in progress),
and a lease nobody keeps runs out; no request has to be made and no step has
to fail.

In the fan-out the tasks of a process take their turns and time passes for
claims nobody holds; in the registry a request or resolution that was begun
goes on and a time to live ends; in the stream the producer and the open
connections go on; of the agent's caller and process, the workers and the reaper one acts as long
as one can (a single weak fairness of them all); the event loop of the cancellation service runs what is ready; the simulation of
the traffic gateway and the troubleshooting agent are single threads that go on
as long as they can.  All of it is weak fairness.  Nowhere does a user,
a subscriber, a reviewer or a fault have to act.

**Every property can fail.**  For each property of a run `PROJECT.json` names a
mutant of the model, a bug one could plausibly write (SET without NX, a release
that does not compare owners, a dropped branch), under which TLC reports the
property violated.  The operators are in the modules, each marked "Mutant" or
placed before the definition it varies.

Every composed module also states its types (`TypeOK`, `IncidentTypeOK`).  They
are no run's property but theorems (section 5).

## 4. What modelling showed

These are behaviours of the code as it stands.  The models contain them, so a
property that forbids one would fail; where a document says otherwise it is
quoted.

*Tool platform.*

- A tool that must not be rerun is rerun (`scheduler/worker.py:500`).
  `_reclaim_stale` requeues every message without a live lease; the
  idempotency level is only asked in the reaper and in `decide`.  The
  project's README says such a tool always goes to a human (lines 214 and
  361-363).  NoBlindRerun fails with one death of a worker.  It fails without
  any fault if a run outlasts the 30 idle seconds (`LongTool`): the message is
  claimed by another worker while the run goes on, the run ends and gives its
  lease back before it settles the record, and the reclaim, which looks at the
  lease in between, puts the message back.
- A tool that is not crash-safe, not of high risk and retried is not safe even
  if nothing fails.  No tool comes that way, but an idempotency level may be
  overridden (`tools/registry.py:113`).  A caller that read FAILED goes on to
  `release_claim`; by then the retry's worker may have replaced the failed
  record by its own claim (`idempotency/state.py:349`), which the caller gives
  back and takes, and a second run starts beside the first.
- A claim may also be left behind without a fault when the same call id is
  submitted again while its retry's worker replaces the FAILED record, which
  takes a DEL and a SET NX: the caller claims in between, the worker finds a
  claim and skips, the caller's message is rejected because the worker still has
  the lease, and both messages are acknowledged.
- A job is forgotten (`scheduler/worker.py:489`).  Reclaim acknowledges a
  message whose call has an unexpired lease, also when the lease's holder is
  dead; the docstring says the message is put back.  NoOrphanClaim fails with
  one death.
- A finished row goes back to PROCESSING (`gateway/gateway.py:318`), against
  the state machine in `domain/enums.py`: submit writes the status after the
  job was published.  A worker that is faster has its SUCCESS or FAILED taken back,
  and nothing writes the row again.
- The reaper may delete a live lease (`lease/manager.py:253`), acting on a row
  it read before; the docstring of `force_release` rules it out.
- Between ZREM and XADD (`scheduler/async_executor.py:180`) a delayed job exists
  nowhere; a death there loses it.  `_apply_human` (`lease/reaper.py:363`) makes
  no approval record, so nobody can approve what it parked.

*Job queue.*

- A cancelled job is run (`executor/job_executor.py:133`).  `_run` reads the
  row a second time and moves it to RUNNING from whatever it read; a cancel
  answered between `acquire_lease` and that read is undone.  The state machine
  has no way out of CANCELLED (FollowsLifecycle fails with one cancel).
- A cancel request is forgotten (`service.py:84`).  One that read QUEUED and
  lost the race to a worker changes nothing and sets no flag, yet is answered;
  the reaper and the delayed requeue clear a flag that was set after they
  looked at it.  The README promises a direct or a cooperative cancel.
- After a crash of the process nothing publishes the QUEUED rows again
  (`queue/memory.py:59`), and a crash between FAILED and DEAD leaves a job out
  of the dead letters (`executor/job_executor.py:261`).

*Event fan-out.*  `drain_once` takes an event off the queue before its
deliveries are written, and the outbox entry is PUBLISHED by then
(`fanout_service.py:111`): a process that ends in between loses the event for
every subscriber.  This is why FanoutIsComplete excuses crashes.  A queue
message ignores `next_retry_at`, so a delivery may be retried at once.
Two requests for the same dead letter both read it as DLQ and nothing looks
again (`repository.py:407`): the second one may put a row back that a worker
has claimed, or delivered, since (`raced` in ClaimIsExclusive).

*Config registry.*  A rollout of the heaviest version to less than all traffic
leaves it alone with that weight, and the router gives it everything
(`publisher.py:153`).  Above half of the traffic the candidate becomes the
heavier rule and takes the lower buckets: raised from 30 to 70 percent, all
the users it had go back to the incumbent, which CanaryIsSticky leaves out.  Two requests at once lose a change and its undo table
(`lost` in RollbackUndoes).

*Event stream.*  `ensure_running` takes a producer that is being cancelled for a
running one (`stream.py:125`): a client that resumes then waits for ever
(`orphans` in ConnectionsEnd).  The provider's cursor counts the metadata event
as a token, so a resumed producer leaves one token out (`stream.py:151`).  A
client that asks with an id the buffer has lost is refused, but one that has no
event yet is not: it begins with what the buffer kept, and is not told.

*Agent runtime.*

- A rerun of the tool node records its own fresh call id as pending, which the
  platform never heard of when it answered for another call (`graph.py:582`);
  that run is never woken (`Calm` in RunEnds excludes the deaths it takes).
- A run may wait for ever although nothing fails: a worker that settles a call
  before `gateway/gateway.py:318` has its row put back to PROCESSING, which
  `_tool_ready` (`graph.py:1261`) takes for work in progress on every poll
  (`Stranded` in RunEnds).
- A step may be counted as done whose row says PROCESSING, without a review: the
  agent dies, its rerun is answered DEDUPLICATED from the record, and the mark of
  a submission took the row back (`putBack` in DoneStepsSucceeded).  Its result is
  stored all the same.
- The lease reaper requeues or parks only a row that says PROCESSING; a call that
  is marked after its lease was forgotten waits for another worker to reclaim its
  message (job "adrift").
- APPROVE given to the graph is asked for again each time: the gate is per call
  id and every rerun makes a new one.  A decision stays in the state for later
  steps.  REJECT given to the graph never cancels the platform's row.
- A run may be FAILED while its tool still goes on: the row says FAILED between
  two attempts.
- `plan_resume` looks at the lease of the pending call where the key may belong
  to another.  After a worker's death a retryable call may have two jobs, and
  the one that finds the work done leaves its row PROCESSING.
- A call that is handed out may be asked about again, and a reviewer who says
  no then takes the SUCCESS of a step back that the checkpoint counts as done
  (the last case of DoneStepsSucceeded; it takes two reviews of one call).

*Graceful cancellation.*  `shutdown_early` and the branch for a task without a
running handle cannot be reached.  A cooperative stop accepted after the last
boundary is without effect, although `research_agent.py:67` says that a
cancellation anywhere above is rolled back
(「若取消发生在上面任意一处，都会被回滚」).  A publish that fails behind
the commit leaves committed rows in a FAILED task.

*Traffic gateway.*

- Degraded answers are cached and served as OK, against README.md:77
  「每个降级响应都带 degraded=True」.
- The edge's token is spent also when the tenant's bucket refuses; HALF_OPEN
  admits without limit and takes results of earlier calls for probes; queued
  requests are dispatched while the breaker is OPEN; a 429 never reaches the
  breaker.
- The back-off only enters the deadline check, the retry is queued at once;
  retries break the order of FIFO.  A rider ends with its leader's time-out.
- `drain` leaves the semaphore and the upstream as they are, and
  `_inflight.pop(request_id)` removes nothing.

*Troubleshooting.*

- Every recovery of H_SOFTWARE ends in an exception: the case drafted by
  `create_defect_report` is VERIFIED and derived from nothing
  (`controller.py:247`, `models.py:311`).  The defect was created by then.
- The last allowed round is never judged (`agent.py:198-209`).
- Approvals are called temporary (临时授予, `controller.py:97`) and never
  revoked.  The plan that stands in after `sanitize` is not validated, and
  `sanitize` drops only direct dependents.
- A rerun counts as a try of its own: with the default two tries
  `restart_device` is out of reach.  The branch without a plan may name a cause
  on a check that moved it without supporting it, and hands it to a human; a
  cached result alone may be decisive there.
- A cached result can let the recovery touch the environment with no check run
  in the incident: `_reuse` passes the `evidence_ids` of the entry on
  (`executor.py:264`), `update` files them (`manager.py:239-248`), and the gate that
  touches nothing without objective evidence (没有客观证据就不动世界,
  `controller.py:117-127`) counts them, also when the store knows none of them.
  `conclusion_ready` does leave ids without a source out (`manager.py:371`), but
  one result that raises its cause by 0.20 is enough for it.  Neither
  the demo nor the tests write an entry with evidence.

## 5. Proofs

A theorem holds for all values of the constants its module's assumptions allow:
any number of workers, jobs, versions, connections, requests and faults.

| module | theorem | states | argument |
|---|---|---|---|
| ToolPlatformProofs | TypeCorrect | `Spec => []TypeOK` | `Typed`: every component step keeps every component's types |
| | SuccessIsBacked | `Spec => []SuccessHasResult` | `ResultStored`: the calls whose worker is between `finalize_success` and `complete_success` have a result row, and so has the call of a SUCCESS record.  The record becomes SUCCESS only from such a worker, and result rows never disappear |
| | ReapersExclude | `Spec => []OneReaperActs` | `LockHeld`: while no stall was spent, a reaper inside the lock's scope is the lock's owner; only an expiry under a live owner breaks it, which costs a stall |
| | RiskApproved | `Spec => []ApprovedOnly` | `Approved`: for a high-risk tool, queued calls, calls in a worker's hands, calls behind the gate in a thread, calls whose lease is indexed or whose reaper acts, and calls with an approved record are all granted |
| | ReleasesOwn | `Spec => ReleaseOnlyOwn` | the release script's comparison, step by step |
| | NothingRerunsBlindly | `Spec => [](Undisturbed => NoBlindRerun)` | `Sole`: one message is ever sent for the key.  It is with a thread that has the claim, in the stream, or with one worker (`OneJob`); as long as it is on its way the record is its claim (`OneClaim`); and nothing is due (`NothingDue`): each delivery has its worker, each live lease its holder, each indexed lease is alive, so that a reclaim or an expiry would cost a stall and a reaper finds nothing |
| | NothingIsOrphaned | `Spec => [](Undisturbed => NoOrphanClaim)` | the last part of `OneClaim`: a PROCESSING record has a thread, the message, a worker or a cancellation |
| JobQueueProofs | JobTypeCorrect | `Spec => []TypeOK` | `Typed` adds what the types rest on: a task that is not idle holds a job, an agent in a step has a step left, a snapshot entry is RUNNING or RETRYING |
| | DispatchesSingly | `Spec => []SingleDispatch` | inductive over `Typed`: a job gets a holder only in a transition to QUEUED from a status in which it has neither holder nor message, a message only replaces its holder, and a holder its message |
| | NothingIsStranded | `Spec => []NoLostMessage` | `Served`: a job becomes QUEUED together with a holder of its dispatch; and the status `_run` read is still the one it will ask for, or a cancelled one, so its transition does not put a job back that somebody else took |
| | RunsAreExclusive | `Spec => []RunnerOwnsJob` | `Owned`: without a stall, a worker in a run, before its start or on the way to the dead letters has the row as its own (status, worker, live lease), two workers are never in the life of one job, and what the reaper's snapshot says is abandoned is still abandoned.  The database asks for the status alone; this is why that is enough |
| | ToolsAreNotRepeated | `Spec => ToolNotRepeated` | `Knowing`: a running agent knows every tool call its job's checkpoint has recorded, since it loaded it and nobody else has saved since (RunsAreExclusive) |
| | DepartsOnlyToUndo | `Spec => [][stalls = 0 => [Lifecycle!LifeNext]_lifeVars \/ UndoesCancel]_vars` | `Counted` (a worker about to retry holds the row's retry count, one on the way to the dead letters has used the budget up) and `Owned`: every step is one of `JobLifecycle`, a stutter, or `_run` moving a job to RUNNING that it has read as CANCELLED |
| | LifecycleKept | `Spec /\ [](stalls = 0) /\ [][~UndoesCancel]_vars => FollowsLifecycle` | DepartsOnlyToUndo, and initial states that map to initial states |
| | LifecycleFollowed | `Spec /\ [](stalls = 0 /\ cancels = 0) => FollowsLifecycle` | corollary: `NeverCancelled`, without cancel requests no task is on a path of cancellation |
| EventFanoutProofs | FanoutTypeCorrect | `Spec => []TypeOK` | `Typed`: what a task is about to write is a real entry, delivery or outcome |
| | ClaimsExclude | `Spec => []ClaimIsExclusive` | `Exclusive`: a claimed row is DELIVERING, has the attempt that was claimed, is not ripe and is in no other batch; both claims skip it, and requests only have hold of dead rows |
| | PromiseKept | `Spec /\ [](stalls = 0 /\ ~raced) => KeepsPromise` | every step is one of `WebhookDelivery` or a stutter, over `Exclusive` and `Reached` (a worker about to write a success has seen the event arrive) |
| ConfigRegistryProofs | RegistryTypeCorrect | `Spec => []TypeOK` | `Typed`: between its read and its audit entry a request works on a table made from the one it read |
| | StalenessHasCause | `Spec => []StaleOnlyByRace` | `Fresh`: a resolver about to fill has read the row as it is, or its site was excused with the change that came in between |
| | RollbackRestores | `Spec => []RollbackUndoes` | inductive over `Typed`, from what `Published`, `RolledOut` and `RolledBack` make of `previous` |
| | CanarySticks | `Spec => []CanaryIsSticky` | lemmas about tables and buckets: up to half of the traffic the candidate has an upper interval of the buckets before and after a rollout, and of two such sets the smaller is part of the larger |
| EventStreamProofs | StreamTypeCorrect | `Spec => []TypeOK` | `Typed`: who publishes has a terminal event left, and what waits for room is in the log |
| | NothingIsSkipped | `Spec => []NothingSkipped` | `Gapless`: one connection is open at a time; the queue rises; what comes behind the last event delivered is in the queue, but for one that waits for room; a replay is an interval that begins behind the client's last event; while the producer is being stopped the connection has everything |
| AgentRuntimeProofs | AgentTypeCorrect | `Spec => []TypeOK` | `Placed`: a process in the tool node, and a run that waits, have a step of the plan left; a call in hand has a number already handed out |
| | OneJobEach | `Spec => []OneJobPerKey` | `OnceClaimed`: a key that was handed over and must not run twice has its record, and such a record never goes away |
| | OnlyReleased | `Spec => OnlyReleasedCallsRun` | every way a call is handed over (submission, approval, modification, resubmission) passes the gate with a released approval |
| | DoneMeansSuccess | `Spec => []DoneStepsSucceeded` | `Lived` (records name submitted calls of their step, a SUCCESS row has its result, a call with a job has none, what is at the desk has neither until a reviewer decides), `InHand` and `Answer` (what the node holds and was answered is about the step at hand), `Done`.  A mark may take any row back, so `Sound` rests on the result, which stays, and on `putBack` |
| SingleAgentProofs | CancelTypeCorrect | `Spec => []TypeOK` | `Sound` and `Joining` |
| | NothingIsLeft | `Spec => []EndLeavesNothing` | `Sound`: while the task runs, what is staged follows from its place in the script (`InPlace`); once it ended, it is `Settled`.  Every step of the coroutine goes on or comes to the end |
| | OneTerminalEvent | `Spec => []TerminalIsLast` | `Sound`: the log of a running task has no terminal event, that of an ended task exactly one, its last |
| | NoEventMissed | `Spec => NothingMissed` | `Joining`: a queue begins where the history that was read ends, and what was sent is the event before the next |
| | IncidentTyping | `IncidentSpec => []IncidentTypeOK` | `IncidentInv`, the invariant of all theorems about incidents: types; what supports a hypothesis is evidence of this incident (`Thinks`), because what a plan reuses and a round has seen is what the cache holds (`Remembers`); nothing is moved before the first round is over (`Unmoved`); `Closed`, `Planned`, `Paid`, `Climbed`, `Well`.  Typing rests on lemmas about the arithmetic of beliefs (`ShareBounds`, `TotalBounds`, `NormalizedBelief`: a normalised belief is again a natural number within the whole) and about plans (`SanitizedPlan`, `ScheduledPlan`: what is left of a plan of checks is a plan of checks, and not larger) |
| | ConclusionsAreWarranted | `IncidentSpec => []ConclusionIsWarranted` | `Unmoved` and what `ConclusionReady` and `Arguable` ask; a recovery leaves beliefs alone |
| | RecoveriesAreEarned | `IncidentSpec => []RecoveryIsEarned` | `Thinks`: every piece of support is of a check that was run or of a cache entry that carries evidence; `Climbed`: an action had support, and what was done is a prefix of the leader's ladder, each action permitted; `ProposedIsNext`: the action proposed is the next rung, because a ladder has no rung twice.  Approvals are only added to |
| | BudgetsHold | `IncidentSpec => []BudgetHolds` | `Paid`: the calls made and the nodes still to run are within the budget; every plan, also a cut one or a single check, has at most as many nodes as there are calls left |
| | ExperienceStaysVerified | `IncidentSpec => ExperienceIsVerified` | `Well`: the environment is well when a rerun is begun and when an incident is RESOLVED; `Extracted` |
| | IncidentsDescend | `IncidentSpec => [][phase # "idle" => <<Rank', Rank>> \in Descent]_incidentVars` | a rank of four numbers (stage; hints, rounds or actions left; checks or approvals left; observations left or a rerun) falls with every step; `DescentEnds`: the order is well-founded, so no incident has infinitely many steps, whatever the environment, the planner and the reviewer do |
| | IncidentsGoOn | `IncidentSpec => []WayOn` | no incident is stuck: some node is next (`SomeNodeIsNext`, the least id in the least layer) and can report; a recovery declines or has an action to propose, within a reviewer's reach if it needs one |
| TrafficGatewayProofs | TrafficTypeCorrect | `Spec => []TypeOK` | `Sane`: types, every entry's request is known, the semaphore counts the calls that are out, a key has one item in a tier, the index of meanings points to keys |
| | TrafficRetriesAreBudgeted | `Spec => []RetriesAreBudgeted` | `Paid`: what the budget holds and has paid out came from the initial tokens and the successes |
| | TrafficAnswersAreFresh | `Spec => []AnswersAreFresh` | `FreshCache`: an item in either tier was inserted in the past and has the life it was given then, however often it was copied |
| | TrafficOnePlace | `Spec => []OnePlace` | `Placed`: an entry is in one of three places (`Apart`); a request has an entry, waits with a leader or has ended (`Settled`); a leader has an entry and leads the flight of its key, and its riders are of that key (`Led`); at the end there is nothing left (`Over`) |

**How they are laid out.**  A step of a system is sorted by what it does before
it is looked at.  In `ToolPlatformProofs` and `JobQueueProofs` *footprint* lemmas
say which variables a component's steps leave alone, in `AgentRuntimeProofs`
`StepsSorted` splits the platform's steps from the agent's, in
`TrafficGatewayProofs` there are lemmas about each operator of a policy (what
`Got`, `Added`, `RemoveAt` return) and each part of the pipeline (`Answers`,
`Hands`, `Retries`) that the phases then cite.  Each inductive invariant was
checked by TLC on the instances of section 3 before it was proved.

**What they assume.**  The assumptions are those of the modules: sentinels are
not members of their sets, bounds are naturals, a memory queue has one process
(`EventFanoutAssumption`), the weights of a table are parts of `Whole`, a
configuration of the gateway has naturals where `GatewayConfig` has non-negative
numbers and, as it validates, a service time below the budget of a request; the
troubleshooting agent has at least one step (`AgentLimits`), and its tables
(priors, likelihoods, ladders, thresholds) are those of the code.
The theorems of refinement have hypotheses: no stall, and for the job queue no
start of a job read as CANCELLED (`UndoesCancel`; DepartsOnlyToUndo says this is
the only way out of the life cycle), for the fan-out no two requests for one
dead letter at once.  Section 4 has what the code does otherwise.  Cancel
requests, crashes, failures and retries are not excluded.
NothingRerunsBlindly and NothingIsOrphaned do need a platform in which nothing
dies, nothing stalls and no run outlasts the 30 seconds, and a tool that the code
does not dispatch again by itself: one of high risk, as `database_delete` is, or
one that is neither crash-safe nor retried (`Undisturbed`).  Section 4 has what
happens with a death, a long run or another tool; a stall is like a long run.
Callers, approvals, cancellations and workers are not limited.

**Why invariants had to be strengthened.**  What the databases check is weaker
than what is true: a status, not an owner (`JobQueue`), an id, not an attempt
(`EventFanout`), a key, not a call (`AgentRuntime`).  The invariants say where
everybody else is, and that is the part the code relies on without writing it
down.  Three properties turned out to be too strong, or to hold for another
reason than it seemed, when they were proved: two requests for one dead letter,
candidates above half of the traffic, and reviews of a call that is done already
are excluded by name now, and section 4 has the behaviour.  `NothingSkipped`
lost an assumption about the size of the replay buffer: a client that comes too
late is refused, whatever the size.

**Only model-checked.**

- Liveness (JobSettles, JobEnds, FanoutIsComplete, DeliverySettles,
  CachesConverge, ConnectionsEnd, RunEnds, StopEnds, SimEnds, IncidentEnds): the
  prover has neither liveness under fairness nor ENABLED.
- JobSettles says for a crash-safe tool what NoOrphanClaim says for the others,
  and stronger; it is liveness.
- The last step from IncidentsDescend and IncidentsGoOn to IncidentEnds: that
  weak fairness makes a run take the step that is possible is ENABLED again.
- That each implementation has some behaviour with stalls that leaves its life
  cycle: section 4, by TLC while the models were written.

- What recursive definitions compute: the layers of a plan (`RunBy`).  The proofs
  use only that a node that is run has a first layer, which is a number.  The
  sums over the five hypotheses are written out, so they need no induction.


## 6. What is not modelled

- tool platform: the synchronous path (`SyncExecutor.run`) and tools with a
  fallback; `modify` (in `AgentPlatform` only), and the checks in `submit` that
  only refuse a call; the 24 hour TTL of the record and of approvals, owner
  fields in the record; the shared map of `WorkerHeartbeat`: a live holder
  simply keeps its lease unless it stalls; `approve` and `reject` read and save
  the approval in one step; event and outbox rows, metrics, audit; failures of
  Redis or of the database themselves;
- job queue: the memory and PostgreSQL stores and the Redis queue,
  `update_progress`, events other than JOB_COMPLETED, priorities and tenants,
  back-off times, and the graceful stop (it abandons the tasks as a crash does);
- event fan-out: signatures, bodies, metrics; the branch for a deleted event or
  subscriber (nothing deletes one);
- config registry: prompts (the pattern of config versions), conditions and
  experiment names, audit queries, the other storages;
- event stream: the second queue of a WebSocket, heartbeats, the Redis buffer;
- agent runtime: synchronous tools, two processes on one run, `await_result`,
  the planner's choice of tools;
- graceful cancellation: the wording of partial results;
- traffic gateway: scaling on QPS and CPU (the CPU signal never triggers),
  operations nothing calls, metrics and reports;
- troubleshooting: the branching planner, parallel groups, checkpoints
  (written, never loaded), failure records, the scores of retrieval and its
  limit of three;
- whole systems: dynamic-workflow-router (one coroutine over a plan; what it
  retries and resumes repeats the job queue's patterns),
  guardrails-middleware (rules over texts; its approvals are close to
  `ToolGateway`'s), agent-tool-sandbox (operating-system isolation),
  risk-control-agent (a sequential investigation over simulated data),
  agent-memory and semantic-cache (scores over texts), langgraph-checkpoint,
  python_mini_mapreduce and the document tools (demonstrations).  They make up
  a third of the implementation; demonstrations, metrics, reports, alternative
  storages, tools and schemas inside the modelled systems make up most of the
  rest the map does not name.

## 7. Plan

The models are complete as planned, and every safety and action property that a
run checks, and the refinement of both abstract specifications, is a theorem.
What could be added: liveness, should the prover come to handle ENABLED (for the
troubleshooting agent, the rank is there), and the systems of section 6.
