---------------------------- MODULE AgentPlatform -----------------------------
(***************************************************************************)
(* agent-tool-execution-platform, the tool platform as the agent runtime   *)
(* sees it: idempotency records, execution rows, jobs, approval records    *)
(* and the cycle detector of one run.  A call of the gateway is two steps  *)
(* here: all of it up to the job in the queue, and the row's PROCESSING,   *)
(* which is written when the job may be done; ToolPlatform has the other   *)
(* interleavings inside it.  The tools are asynchronous.                   *)
(***************************************************************************)
EXTENDS Naturals, Sequences, FiniteSets

CONSTANTS
    PlanLength,    \* steps of the plan; every step names another tool
    CrashSafe,     \* steps whose tool may be run again after a crash
    HighRisk,      \* steps whose tool needs an approval
    MaxAttempts,   \* RetryPolicy.max_attempts
    CycleStop,     \* LoopPolicy.cycle_stop
    MaxCalls       \* bound: call ids handed out

Steps == 1 .. PlanLength
Calls == 1 .. MaxCalls
NoCall == 0

\* What the idempotency key is computed from: the step and its arguments,
\* those of the plan or those a reviewer gave.
Keys == Steps \X {"planned", "changed"}

ASSUME AgentPlatformAssumption ==
    /\ {PlanLength, MaxAttempts, CycleStop, MaxCalls} \subseteq Nat \ {0}
    /\ CrashSafe \cup HighRisk \subseteq Steps

VARIABLES
    record,       \* key -> idempotency record: its status and its call
    row,          \* call -> execution row: its status and its key
    job,          \* call -> "none", "queued", "running" under a lease, "lost" with
                  \* the lease still in the index, "adrift" without it
    tries,        \* call -> failed runs
    approval,     \* call -> status of its approval record
    lastCall,     \* the call id handed out last
    visits,       \* the tools submitted, as the cycle detector recorded them
    results,      \* the calls that have a result stored, which is for good
    late          \* call -> its submissions, the agent's apart, that put it in
                  \* the queue and have yet to write PROCESSING

\* History: the calls, with their keys, that were handed to an executor, and the
\* calls whose row a submission put back to PROCESSING and no worker wrote since.
VARIABLES dispatched, putBack

platformVars == <<record, row, job, tries, approval, lastCall, visits, results, late,
                  dispatched, putBack>>

NoRecord == [st |-> "absent", call |-> NoCall]

PlatformTypeOK ==
    /\ record \in [Keys -> [st : {"absent", "PROCESSING", "SUCCESS", "FAILED"},
                            call : Calls \cup {NoCall}]]
    /\ row \in [Calls -> [st : {"absent", "QUEUED", "PROCESSING", "SUCCESS", "FAILED",
                                "WAITING_HUMAN", "CANCELLED"},
                          key : Keys]]
    /\ job \in [Calls -> {"none", "queued", "running", "lost", "adrift"}]
    /\ tries \in [Calls -> Nat]
    /\ approval \in [Calls -> {"none", "WAITING", "APPROVED", "MODIFIED", "REJECTED"}]
    /\ lastCall \in 0 .. MaxCalls
    /\ visits \in Seq(Steps)
    /\ results \subseteq Calls /\ late \in [Calls -> Nat]
    /\ dispatched \subseteq Calls \X Keys /\ putBack \subseteq Calls

PlatformInit ==
    /\ record = [k \in Keys |-> NoRecord]
    /\ row = [c \in Calls |-> [st |-> "absent", key |-> <<1, "planned">>]]
    /\ job = [c \in Calls |-> "none"]
    /\ tries = [c \in Calls |-> 0]
    /\ approval = [c \in Calls |-> "none"]
    /\ lastCall = 0
    /\ visits = <<>>
    /\ results = {} /\ late = [c \in Calls |-> 0]
    /\ dispatched = {} /\ putBack = {}

(***************************************************************************)
(* query, by call id: an unknown call is answered with status CREATED.     *)
(***************************************************************************)
Query(c) == IF c = NoCall \/ row[c].st = "absent" THEN "CREATED" ELSE row[c].st

IsPending(st) == st \in {"CREATED", "QUEUED", "PROCESSING"}

IsAlive(c) == c # NoCall /\ job[c] = "running"

(***************************************************************************)
(* CycleDetector: only the first tool that comes back is counted, and how  *)
(* often it returns at the same distance.                                  *)
(***************************************************************************)
Revisits(path) == {j \in DOMAIN path : \E i \in 1 .. j - 1 : path[i] = path[j]}

Cyclic(path) ==
    \E j \in Revisits(path) :
        /\ \A k \in Revisits(path) : j <= k
        /\ \E i \in 1 .. j - 1 :
              /\ path[i] = path[j]
              /\ \A lap \in 0 .. CycleStop - 1 :
                    LET at == i + lap * (j - i)
                    IN at <= Len(path) /\ path[at] = path[i]

(***************************************************************************)
(* submit: call c of key k at attempt att, under the approvals app; old    *)
(* says that the claim in the way outlived its grace period.               *)
(***************************************************************************)
\* Mutant of IsApproved: an approval of one call opens the gate for its tool.
IsApprovedTool(c, app) == \E d \in Calls : app[d] \in {"APPROVED", "MODIFIED"}

IsApproved(c, app) == app[c] \in {"APPROVED", "MODIFIED"}

\* Mutant of Stale: a claim nobody works on is taken over, whatever the tool.
StaleRetries(step, att) == IF att < MaxAttempts THEN "reclaim" ELSE "fail"

\* IdempotencyManager.decide for a claim that nobody works on.
Stale(step, att) ==
    IF step \notin CrashSafe \/ step \in HighRisk THEN "ask"
    ELSE IF att < MaxAttempts THEN "reclaim" ELSE "fail"

\* A FAILED record refuses its key: release_claim gives back only PROCESSING.
Existing(k, att, old) ==
    CASE record[k].st = "SUCCESS" -> "reuse"
      [] record[k].st = "FAILED" -> "fail"
      [] OTHER -> IF IsAlive(record[k].call) \/ ~old THEN "wait" ELSE Stale(k[1], att)

Verdict(c, k, att, app, old) ==
    IF Cyclic(Append(visits, k[1])) THEN "stop"
    ELSE IF k[1] \in HighRisk /\ ~IsApproved(c, app) THEN "ask"
    ELSE IF record[k].st = "absent" THEN "claim"
    ELSE Existing(k, att, old)

\* A claim given back is submitted again, past the cycle detector once more.
Decision(c, k, att, app, old) ==
    LET verdict == Verdict(c, k, att, app, old)
    IN IF verdict # "reclaim" THEN verdict
    ELSE IF Cyclic(visits \o <<k[1], k[1]>>) THEN "stop" ELSE "claim"

\* The outcome and the call it names.
Reply(c, k, att, app, old) ==
    LET own(outcome) == [outcome |-> outcome, call |-> c]
        owner(outcome) == [outcome |-> outcome, call |-> record[k].call]
        verdict == Decision(c, k, att, app, old)
    IN CASE verdict = "claim" -> own("ACCEPTED")
         [] verdict = "reuse" -> owner("DEDUPLICATED")
         [] verdict = "wait" -> owner("WAITING")
         [] verdict = "fail" -> owner("FAILED")
         [] verdict = "ask" -> own("WAITING_HUMAN")
         [] verdict = "stop" -> own("REJECTED")

Upsert(c, k, st) == row' = [row EXCEPT ![c] = [st |-> st, key |-> k]]

Submit(c, k, att, app, old) ==
    \E verdict \in {Decision(c, k, att, app, old)},
      reclaims \in {Verdict(c, k, att, app, old) = "reclaim"} :
       /\ visits' = visits \o (IF reclaims THEN <<k[1], k[1]>> ELSE <<k[1]>>)
       /\ record' = CASE verdict = "claim" ->
                           [record EXCEPT ![k] = [st |-> "PROCESSING", call |-> c]]
                      [] verdict = "stop" /\ reclaims -> [record EXCEPT ![k] = NoRecord]
                      [] OTHER -> record
       /\ CASE verdict = "claim" -> Upsert(c, k, "QUEUED")
            [] verdict = "ask" -> Upsert(c, k, "WAITING_HUMAN")
            [] verdict = "stop" -> Upsert(c, k, "FAILED")
            [] OTHER -> UNCHANGED row
       /\ approval' = IF verdict = "ask" THEN [app EXCEPT ![c] = "WAITING"] ELSE app
       /\ job' = IF verdict = "claim" THEN [job EXCEPT ![c] = "queued"] ELSE job
       /\ dispatched' = IF verdict = "claim" THEN dispatched \cup {<<c, k>>} ELSE dispatched
       /\ UNCHANGED <<tries, results, putBack>>

\* The last write of a submission that put its job in the queue: whatever the row
\* says by then, it says PROCESSING.
Mark(c) ==
    /\ row' = [row EXCEPT ![c].st = "PROCESSING"]
    /\ putBack' = IF row[c].st \in {"QUEUED", "PROCESSING"} THEN putBack ELSE putBack \cup {c}
    /\ UNCHANGED <<record, job, tries, approval, lastCall, visits, results, dispatched>>

\* A submission by a process of its own, which marks the row when it gets to it.
DeskSubmit(c, k, att, app, old) ==
    /\ Submit(c, k, att, app, old)
    /\ late' = IF Decision(c, k, att, app, old) = "claim" THEN [late EXCEPT ![c] = @ + 1] ELSE late

DeskMarks(c) ==
    /\ late[c] > 0
    /\ Mark(c)
    /\ late' = [late EXCEPT ![c] = @ - 1]

(***************************************************************************)
(* The workers.                                                            *)
(***************************************************************************)
\* The lease, then ensure_owned: only a SUCCESS makes the worker skip the job.
Take(c) ==
    LET k == row[c].key
    IN /\ job[c] = "queued"
       /\ job' = [job EXCEPT ![c] = IF record[k].st = "SUCCESS" THEN "none" ELSE "running"]
       /\ record' = IF record[k].st \in {"absent", "FAILED"}
                    THEN [record EXCEPT ![k] = [st |-> "PROCESSING", call |-> c]] ELSE record
       /\ UNCHANGED <<row, tries, approval, lastCall, visits, results, late, dispatched, putBack>>

Succeed(c) ==
    /\ row' = [row EXCEPT ![c].st = "SUCCESS"]
    /\ record' = [record EXCEPT ![row[c].key] = [st |-> "SUCCESS", call |-> c]]
    /\ results' = results \cup {c}
    /\ job' = [job EXCEPT ![c] = "none"]
    /\ UNCHANGED <<tries, approval>>

\* A failure that may pass is tried again later; its row says FAILED meanwhile.
Fail(c, transient) ==
    LET risky == row[c].key[1] \in HighRisk
        again == transient /\ tries[c] + 1 < MaxAttempts
    IN /\ row' = [row EXCEPT ![c].st = "FAILED"]
       /\ record' = [record EXCEPT ![row[c].key] = [st |-> "FAILED", call |-> c]]
       /\ tries' = [tries EXCEPT ![c] = @ + 1]
       /\ job' = [job EXCEPT ![c] = IF again /\ ~risky THEN "queued" ELSE "none"]
       /\ approval' = IF again /\ risky THEN [approval EXCEPT ![c] = "WAITING"] ELSE approval
       /\ UNCHANGED results

Finish(c) ==
    /\ job[c] = "running"
    /\ Succeed(c) \/ \E transient \in BOOLEAN : Fail(c, transient)
    /\ putBack' = putBack \ {c}
    /\ UNCHANGED <<lastCall, visits, late, dispatched>>

Die(c) ==
    /\ job[c] = "running"
    /\ job' = [job EXCEPT ![c] = "lost"]
    /\ UNCHANGED <<record, row, tries, approval, lastCall, visits, results, late,
                   dispatched, putBack>>

\* The lease reaper forgets the lease.  A row that says PROCESSING is requeued and
\* its claim given back, or it is left to a human; of another row nothing is done.
Reap(c) ==
    /\ job[c] = "lost"
    /\ IF row[c].st = "PROCESSING" /\ row[c].key[1] \in CrashSafe \ HighRisk
       THEN /\ job' = [job EXCEPT ![c] = "queued"]
            /\ row' = [row EXCEPT ![c].st = "QUEUED"]
            /\ record' = IF record[row[c].key].st = "PROCESSING"
                         THEN [record EXCEPT ![row[c].key] = NoRecord] ELSE record
       ELSE /\ job' = [job EXCEPT ![c] = "adrift"]
            /\ row' = IF row[c].st = "PROCESSING" THEN [row EXCEPT ![c].st = "WAITING_HUMAN"] ELSE row
            /\ UNCHANGED record
    /\ UNCHANGED <<tries, approval, lastCall, visits, results, late, dispatched, putBack>>

\* Another worker takes the dead one's message over and requeues the job.
Reclaim(c) ==
    /\ job[c] \in {"lost", "adrift"}
    /\ job' = [job EXCEPT ![c] = "queued"]
    /\ UNCHANGED <<record, row, tries, approval, lastCall, visits, results, late,
                   dispatched, putBack>>

(***************************************************************************)
(* The reviewers of the platform: the call on the approval record is       *)
(* submitted again under its own id, with its own arguments or new ones.   *)
(***************************************************************************)
Approve(c) ==
    /\ approval[c] = "WAITING"
    /\ \E old \in BOOLEAN :
          DeskSubmit(c, row[c].key, 0, [approval EXCEPT ![c] = "APPROVED"], old)
    /\ UNCHANGED lastCall

Modify(c) ==
    /\ approval[c] = "WAITING"
    /\ \E old \in BOOLEAN :
          DeskSubmit(c, <<row[c].key[1], "changed">>, 0, [approval EXCEPT ![c] = "MODIFIED"], old)
    /\ UNCHANGED lastCall

Reject(c) ==
    /\ approval[c] = "WAITING"
    /\ approval' = [approval EXCEPT ![c] = "REJECTED"]
    /\ row' = [row EXCEPT ![c].st = "CANCELLED"]
    /\ UNCHANGED <<record, job, tries, lastCall, visits, results, late, dispatched, putBack>>
===============================================================================
