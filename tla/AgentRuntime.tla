----------------------------- MODULE AgentRuntime ------------------------------
(***************************************************************************)
(* agent-tool-execution-platform, app/agent: one run of the agent's graph  *)
(* (planner, then the tool node over and over), its checkpoint, the caller *)
(* who resumes it, and the recovery manager.  LangGraph persists a node's  *)
(* result when the node returns; interrupt() raises until the graph is     *)
(* resumed, then the node runs from its first line and ONE interrupt()     *)
(* returns.  The process may die between any two steps.                    *)
(***************************************************************************)
EXTENDS AgentPlatform

CONSTANTS
    MaxSteps,      \* the run's limit on completed tools
    MaxDeaths,     \* bound: deaths of the agent and of workers
    MaxRecoveries, \* bound: resubmissions by the recovery manager
    MaxReviews     \* bound: decisions at the platform's own review desk

ASSUME AgentRuntimeAssumption == {MaxSteps, MaxDeaths, MaxRecoveries, MaxReviews} \subseteq Nat

VARIABLES
    ck,           \* the checkpoint: what survives the process
    pc,           \* where the process is
    wake,         \* one interrupt() will return
    hand,         \* the call being submitted, its key, and whether a human decided
    got,          \* what the gateway answered
    interrupted   \* the process died in the middle of the graph

\* The recovery manager's verdict that was not carried out yet.
VARIABLE advice

VARIABLES crashes, deaths, recoveries, reviews

agentVars == <<ck, pc, wake, hand, got, interrupted>>
budgetVars == <<crashes, deaths, recoveries, reviews>>
vars == <<platformVars, agentVars, advice, budgetVars>>

Waits == {"WAITING_TOOL", "WAITING_HUMAN"}
Decisions == {"none", "APPROVE", "REJECT", "MODIFY"}
Outcomes == {"none", "ACCEPTED", "DEDUPLICATED", "WAITING",
             "WAITING_HUMAN", "REJECTED", "FAILED"}

NoHand == [call |-> NoCall, key |-> <<1, "planned">>, human |-> FALSE]
NoAnswer == [outcome |-> "none", call |-> NoCall]
NoAdvice == [act |-> "none", key |-> <<1, "planned">>, att |-> 0]

\* pending holds the pending_tool_call: its call and its key.
NoPending == [call |-> NoCall, key |-> <<1, "planned">>]

TypeOK ==
    /\ PlatformTypeOK
    /\ ck \in [status : {"none", "INIT", "PLANNING", "COMPLETED", "FAILED"} \cup Waits,
               index : 0 .. PlanLength, path : Seq(Steps), retries : 0 .. 1,
               pending : [call : Calls \cup {NoCall}, key : Keys],
               decision : Decisions, done : [Steps -> Calls \cup {NoCall}]]
    /\ pc \in {"idle", "planner", "tool", "published", "branch", "decide", "recheck", "record"}
    /\ wake \in BOOLEAN /\ interrupted \in BOOLEAN
    /\ hand \in [call : Calls \cup {NoCall}, key : Keys, human : BOOLEAN]
    /\ got \in [outcome : Outcomes, call : Calls \cup {NoCall}]
    /\ advice \in [act : {"none", "resubmit"}, key : Keys, att : Nat]
    /\ crashes \in Nat /\ deaths \in Nat /\ crashes + deaths <= MaxDeaths
    /\ recoveries \in 0 .. MaxRecoveries /\ reviews \in 0 .. MaxReviews

Init ==
    /\ PlatformInit
    /\ ck = [status |-> "none", index |-> 0, path |-> <<>>, retries |-> 0,
             pending |-> NoPending, decision |-> "none", done |-> [s \in Steps |-> NoCall]]
    /\ pc = "idle" /\ wake = FALSE /\ interrupted = FALSE
    /\ hand = NoHand /\ got = NoAnswer
    /\ advice = NoAdvice
    /\ crashes = 0 /\ deaths = 0 /\ recoveries = 0 /\ reviews = 0

At(p) == pc = p

\* The node is left; its locals are gone.
Leave(next) == pc' = next /\ wake' = FALSE /\ hand' = NoHand /\ got' = NoAnswer

(***************************************************************************)
(* The caller: run, and resume for the two kinds of wait.                  *)
(***************************************************************************)
\* run() starts the graph over on the same thread; execution_path only grows.
\* Nothing else helps a run that died before it recorded what it waits for.
Run ==
    /\ At("idle")
    /\ ck.status = "none" \/ (interrupted /\ ck.status \notin Waits)
    /\ ck' = [ck EXCEPT !.status = "INIT", !.index = 0, !.retries = 0,
                        !.pending = NoPending, !.decision = "none",
                        !.done = [s \in Steps |-> NoCall]]
    /\ interrupted' = FALSE
    /\ Leave("planner")
    /\ UNCHANGED <<platformVars, advice, budgetVars>>

\* Mutant of ToolReady: only a result wakes the graph.
ToolReadyResult(c) == c # NoCall /\ Query(c) = "SUCCESS"

ToolReady(c) == c # NoCall /\ Query(c) \in {"SUCCESS", "FAILED", "CANCELLED"}

ResumeTool ==
    /\ At("idle") /\ ck.status = "WAITING_TOOL"
    /\ ToolReady(ck.pending.call)
    /\ pc' = "tool" /\ wake' = TRUE /\ interrupted' = FALSE
    /\ UNCHANGED <<platformVars, ck, hand, got, advice, budgetVars>>

\* The decision is in the checkpoint before the graph is woken.
ResumeHuman(decision) ==
    /\ At("idle") /\ ck.status = "WAITING_HUMAN"
    /\ ck' = [ck EXCEPT !.decision = decision]
    /\ pc' = "tool" /\ wake' = TRUE /\ interrupted' = FALSE
    /\ UNCHANGED <<platformVars, hand, got, advice, budgetVars>>

(***************************************************************************)
(* The nodes.                                                              *)
(***************************************************************************)
Planner ==
    /\ At("planner")
    /\ ck' = [ck EXCEPT !.status = "PLANNING"]
    /\ Leave("tool")
    /\ UNCHANGED <<platformVars, interrupted, advice, budgetVars>>

\* _completed and _route_after_tool.
Complete(c) ==
    LET n == ck.index + 1
        path == Append(ck.path, n)
        loops == Cardinality({i \in DOMAIN path : path[i] = n}) >= CycleStop
        direct == hand.human /\ got.outcome = "DEDUPLICATED"
    IN /\ ck' = [ck EXCEPT !.status = "COMPLETED", !.index = n, !.path = path,
                           !.pending = NoPending, !.done[n] = c,
                           !.retries = IF direct /\ At("branch") THEN @ + 1 ELSE @]
       /\ Leave(IF loops \/ n >= PlanLength \/ Len(path) >= MaxSteps THEN "idle" ELSE "tool")

Failed ==
    /\ ck' = [ck EXCEPT !.status = "FAILED", !.pending = NoPending]
    /\ Leave("idle")

\* A call of the gateway: fresh ids come from the process, the answer goes to it.
Ask(c, k, human, old) ==
    /\ Submit(c, k, ck.retries, approval, old)
    /\ hand' = [call |-> c, key |-> k, human |-> human]
    /\ got' = Reply(c, k, ck.retries, approval, old)
    /\ pc' = IF got'.outcome = "ACCEPTED" THEN "published" ELSE "branch"
    /\ UNCHANGED <<late, ck, wake, interrupted, advice, budgetVars>>

\* The end of a call of the gateway that was accepted.
AgentMarks ==
    /\ At("published")
    /\ Mark(hand.call)
    /\ pc' = "branch"
    /\ UNCHANGED <<late, ck, wake, hand, got, interrupted, advice, budgetVars>>

\* The node woken to carry out a decision does not submit what it submitted before.
ToolNodeDecided ==
    /\ At("tool") /\ ck.status = "WAITING_HUMAN" /\ ck.decision # "none"
    /\ lastCall < MaxCalls
    /\ lastCall' = lastCall + 1
    /\ hand' = [call |-> lastCall + 1, key |-> <<ck.index + 1, "planned">>, human |-> FALSE]
    /\ pc' = "decide"
    /\ UNCHANGED <<record, row, job, tries, approval, visits, results, late, dispatched, putBack,
                   ck, wake, got, interrupted, advice, budgetVars>>

\* Every run of the node makes a new call; only its key is the same.
ToolNodeSubmits(old) ==
    /\ At("tool") /\ (ck.status # "WAITING_HUMAN" \/ ck.decision = "none")
    /\ lastCall < MaxCalls
    /\ lastCall' = lastCall + 1
    /\ Ask(lastCall + 1, <<ck.index + 1, "planned">>, FALSE, old)

(***************************************************************************)
(* What the node does with the answer.                                     *)
(***************************************************************************)
BranchCompletes ==
    /\ At("branch") /\ got.outcome = "DEDUPLICATED"
    /\ Complete(got.call)
    /\ UNCHANGED <<platformVars, interrupted, advice, budgetVars>>

\* interrupt(): persisted and raised, or, once per wake-up, it returns.
BranchWaits ==
    /\ At("branch") /\ got.outcome \in {"ACCEPTED", "WAITING"}
    /\ pc' = IF wake THEN "recheck" ELSE "record"
    /\ wake' = FALSE
    /\ UNCHANGED <<platformVars, ck, hand, got, interrupted, advice, budgetVars>>

\* A decision found in the state is taken at once, an older step's included.
BranchAsksHuman ==
    /\ At("branch") /\ got.outcome = "WAITING_HUMAN" /\ ~hand.human
    /\ pc' = IF ck.decision # "none" \/ wake THEN "decide" ELSE "record"
    /\ wake' = (wake /\ ck.decision # "none")
    /\ UNCHANGED <<platformVars, ck, hand, got, interrupted, advice, budgetVars>>

BranchFails ==
    /\ At("branch")
    /\ \/ got.outcome \in {"REJECTED", "FAILED"}
       \/ got.outcome = "WAITING_HUMAN" /\ hand.human
    /\ Failed
    /\ UNCHANGED <<platformVars, interrupted, advice, budgetVars>>

(***************************************************************************)
(* _apply_human_decision, once there is one.                               *)
(***************************************************************************)
DecideEnds ==
    /\ At("decide")
    /\ ck.decision = "REJECT" \/ ck.retries >= 1
    /\ Failed
    /\ UNCHANGED <<platformVars, interrupted, advice, budgetVars>>

DecideResubmits(old) ==
    /\ At("decide")
    /\ ck.decision # "REJECT" /\ ck.retries = 0
    /\ IF ck.decision = "MODIFY"
       THEN /\ lastCall < MaxCalls
            /\ lastCall' = lastCall + 1
            /\ Ask(lastCall + 1, <<ck.index + 1, "changed">>, TRUE, old)
       ELSE /\ Ask(hand.call, hand.key, TRUE, old)
            /\ UNCHANGED lastCall

(***************************************************************************)
(* _recheck_after_resume: what became of the call the answer named.        *)
(***************************************************************************)
\* Mutant of RecheckCompletes: being woken is taken for being done.
RecheckTrusts ==
    /\ At("recheck") /\ Query(got.call) \notin {"FAILED", "CANCELLED", "WAITING_HUMAN"}
    /\ Complete(got.call)
    /\ UNCHANGED <<platformVars, interrupted, advice, budgetVars>>

RecheckCompletes ==
    /\ At("recheck") /\ Query(got.call) = "SUCCESS"
    /\ Complete(got.call)
    /\ UNCHANGED <<platformVars, interrupted, advice, budgetVars>>

\* The second interrupt() of the run: its payload names the call asked about.
RecheckWaits ==
    /\ At("recheck") /\ IsPending(Query(got.call))
    /\ pc' = "record"
    /\ hand' = [hand EXCEPT !.call = got.call]
    /\ UNCHANGED <<platformVars, ck, wake, got, interrupted, advice, budgetVars>>

RecheckFails ==
    /\ At("recheck") /\ Query(got.call) \in {"FAILED", "CANCELLED", "WAITING_HUMAN"}
    /\ Failed
    /\ UNCHANGED <<platformVars, interrupted, advice, budgetVars>>

\* _record_wait, once invoke() came back with the interrupt: the pending call is
\* the one the node made, also when the answer named another.
RecordWait ==
    /\ At("record")
    /\ ck' = [ck EXCEPT !.status = IF got.outcome = "WAITING_HUMAN" THEN "WAITING_HUMAN"
                                   ELSE "WAITING_TOOL",
                        !.pending = [call |-> hand.call, key |-> hand.key]]
    /\ Leave("idle")
    /\ UNCHANGED <<platformVars, interrupted, advice, budgetVars>>

(***************************************************************************)
(* AgentRecoveryManager: plan_resume reads, apply acts on what was read.   *)
(***************************************************************************)
\* _pending_from_db: the last row of the run that is not settled.
Unsettled == {c \in Calls : row[c].st \in {"QUEUED", "PROCESSING", "FAILED"}}

PendingCalls ==
    IF ck.pending.call # NoCall THEN {ck.pending}
    ELSE {[call |-> c, key |-> row[c].key] : c \in {u \in Unsettled : \A v \in Unsettled : v <= u}}

\* lookup by key, else query by call id.
Found(p) == Query(IF record[p.key].st # "absent" THEN record[p.key].call ELSE p.call)

\* The branches of plan_resume that end in a resubmission.  The lease it looks at
\* is the pending call's, who holds the key does not matter.
Resubmits(p, att, transient) ==
    CASE Found(p) = "SUCCESS" -> FALSE
      [] Found(p) = "FAILED" -> transient /\ att < MaxAttempts /\ p.key[1] \notin HighRisk
      [] OTHER -> ~IsAlive(p.call) /\ p.key[1] \in CrashSafe \ HighRisk

PlanResume ==
    /\ At("idle") /\ advice.act = "none" /\ recoveries < MaxRecoveries
    /\ \E p \in PendingCalls, transient \in BOOLEAN :
          /\ Resubmits(p, ck.retries, transient)
          /\ advice' = [act |-> "resubmit", key |-> p.key, att |-> ck.retries]
    /\ recoveries' = recoveries + 1
    /\ UNCHANGED <<platformVars, agentVars, crashes, deaths, reviews>>

\* The key is pinned, the call id is new, and the graph hears nothing of it.
ApplyResubmits(old) ==
    /\ advice.act = "resubmit"
    /\ lastCall < MaxCalls
    /\ lastCall' = lastCall + 1
    /\ DeskSubmit(lastCall + 1, advice.key, advice.att + 1, approval, old)
    /\ advice' = NoAdvice
    /\ UNCHANGED <<agentVars, budgetVars>>

(***************************************************************************)
(* Deaths.                                                                 *)
(***************************************************************************)
Crash ==
    /\ ~At("idle") /\ crashes + deaths < MaxDeaths
    /\ interrupted' = TRUE
    /\ Leave("idle")
    /\ crashes' = crashes + 1
    /\ UNCHANGED <<platformVars, ck, advice, deaths, recoveries, reviews>>

WorkerDies(c) ==
    /\ crashes + deaths < MaxDeaths
    /\ Die(c)
    /\ deaths' = deaths + 1
    /\ UNCHANGED <<agentVars, advice, crashes, recoveries, reviews>>

ReviewerDecides(c) ==
    /\ reviews < MaxReviews
    /\ reviews' = reviews + 1
    /\ Approve(c) \/ Modify(c) \/ Reject(c)
    /\ UNCHANGED <<agentVars, advice, crashes, deaths, recoveries>>

WorkerStep(c) ==
    /\ Take(c) \/ Finish(c)
    /\ UNCHANGED <<agentVars, advice, budgetVars>>

MarkStep(c) ==
    /\ DeskMarks(c)
    /\ UNCHANGED <<agentVars, advice, budgetVars>>

ReaperStep(c) ==
    /\ Reap(c)
    /\ UNCHANGED <<agentVars, advice, budgetVars>>

ReclaimStep(c) ==
    /\ Reclaim(c)
    /\ UNCHANGED <<agentVars, advice, budgetVars>>

GraphStep ==
    \/ Planner \/ ToolNodeDecided \/ AgentMarks
    \/ \E old \in BOOLEAN : ToolNodeSubmits(old) \/ DecideResubmits(old)
    \/ BranchCompletes \/ BranchWaits \/ BranchAsksHuman \/ BranchFails
    \/ DecideEnds \/ RecheckCompletes \/ RecheckWaits \/ RecheckFails \/ RecordWait

Caller == Run \/ ResumeTool

Next ==
    \/ Caller \/ GraphStep
    \/ \E decision \in Decisions \ {"none"} : ResumeHuman(decision)
    \/ PlanResume \/ \E old \in BOOLEAN : ApplyResubmits(old)
    \/ Crash
    \/ \E c \in Calls : WorkerStep(c) \/ ReaperStep(c) \/ ReclaimStep(c)
                         \/ ReviewerDecides(c) \/ MarkStep(c) \/ WorkerDies(c)

AgentStep == Caller \/ GraphStep

PlatformStep == \E c \in Calls : WorkerStep(c) \/ ReaperStep(c)

\* The least that can be asked: while the caller can poll, the process can go on,
\* a worker can take a job or finish one, or the reaper can scan, one of them does.
\* Reviewers, recovery, reclaims and the marks of other submitters promise nothing.
Fairness == WF_vars(AgentStep \/ PlatformStep)

Spec == Init /\ [][Next]_vars /\ Fairness

(***************************************************************************)
(* Properties.                                                             *)
(***************************************************************************)
\* A call whose tool must not run twice is handed to an executor at most once
\* per key, whatever the agent, its restarts, its recovery manager and the
\* reviewers submit again.
OneJobPerKey ==
    \A k \in Keys : k[1] \notin CrashSafe \/ k[1] \in HighRisk =>
        \A d, e \in dispatched : d[2] = k /\ e[2] = k => d = e

\* Every step the checkpoint counts as done has a call of that step whose result
\* is stored, after any number of restarts.  Its row says SUCCESS, but for two
\* writes that ask nobody: the PROCESSING of a submission whose job was done
\* before (gateway.py:318), and the review desk's, where a call may be submitted
\* again after it has its job.
DoneStepsSucceeded ==
    \A s \in 1 .. ck.index :
        LET c == ck.done[s]
        IN /\ c \in results /\ row[c].key[1] = s
           /\ \/ row[c].st = "SUCCESS"
              \/ row[c].st = "PROCESSING" /\ c \in putBack
              \/ reviews > 0 /\ approval[c] # "none"

\* No path of the agent, its decisions, its reruns and its recovery manager
\* included, hands a high-risk call to an executor that no reviewer of the
\* platform released: a decision given to the graph does not open the gate.
OnlyReleasedCallsRun ==
    [][\A d \in dispatched' \ dispatched :
          d[2][1] \in HighRisk => approval'[d[1]] \in {"APPROVED", "MODIFIED"}]_vars

\* The call is settled and its row says PROCESSING again: nobody will write it.
Stranded(c) == c \in putBack /\ row[c].st = "PROCESSING" /\ job[c] = "none"

\* The run is over, a human has to say something, or the run waits for a call that
\* its own submission stranded: the code has no way out of that.
Ended ==
    \/ ck.status \in {"FAILED", "WAITING_HUMAN"}
    \/ ck.status = "COMPLETED" /\ At("idle")
    \/ ck.status = "WAITING_TOOL" /\ Query(ck.pending.call) = "WAITING_HUMAN"
    \/ ck.status = "WAITING_TOOL" /\ Stranded(ck.pending.call)

\* Nothing interfered with the run.  The death of a worker does: its call may then
\* have two jobs, and the one that finds the work done leaves its row as it is.
Calm == crashes = 0 /\ recoveries = 0 /\ deaths = 0

\* A run left alone comes to an end, through retries, decisions and reviews,
\* unless a worker is faster than the submission that put its call in the queue:
\* then the caller polls a settled call that says PROCESSING for ever.
RunEnds == []Calm => <>Ended

===============================================================================
