-------------------------- MODULE AgentRuntimeProofs ---------------------------
(***************************************************************************)
(* Theorems about AgentRuntime, for every plan, every choice of tools and  *)
(* any number of calls, deaths, resubmissions and reviews.                 *)
(***************************************************************************)
EXTENDS AgentRuntime, TLAPS

-------------------------------------------------------------------------------
(***************************************************************************)
(* Keys and visits.                                                        *)
(***************************************************************************)
\* A key names a step, and each step has its two keys.
LEMMA KeysOfSteps ==
  /\ \A k \in Keys : k[1] \in Steps
  /\ \A s \in Steps : /\ <<s, "planned">> \in Keys /\ <<s, "planned">>[1] = s
                      /\ <<s, "changed">> \in Keys /\ <<s, "changed">>[1] = s
  /\ <<1, "planned">> \in Keys
PROOF BY AgentPlatformAssumption DEF Keys, Steps

LEMMA CallNumbers == NoCall \notin Calls /\ Calls \subseteq Nat /\ NoCall \in Nat /\ MaxCalls \in Nat
PROOF BY AgentPlatformAssumption DEF Calls, NoCall

\* What a submission adds to the record of visits is made of steps.
LEMMA VisitsGrow ==
  ASSUME NEW v \in Seq(Steps), NEW s \in Steps
  PROVE  v \o <<s>> \in Seq(Steps) /\ v \o <<s, s>> \in Seq(Steps)
PROOF OBVIOUS

-------------------------------------------------------------------------------
(***************************************************************************)
(* What a submission may answer, and what it leaves behind.                *)
(***************************************************************************)
\* The ways a call may stand at the desk: its tool always asks, or its key is
\* claimed and its tool must not be run again.
Asked(k) == k[1] \in HighRisk \/ (k[1] \notin CrashSafe /\ record[k].st # "absent")

Retriable(k) == k[1] \in CrashSafe /\ k[1] \notin HighRisk

\* A claim is taken over only where the tool may run again.
LEMMA VerdictMeans ==
  ASSUME NEW c, NEW k, NEW att, NEW app, NEW old
  PROVE  /\ Verdict(c, k, att, app, old) \in {"claim", "reclaim", "reuse", "wait", "fail", "ask", "stop"}
         /\ Verdict(c, k, att, app, old) = "claim" =>
              (k[1] \in HighRisk => IsApproved(c, app)) /\ record[k].st = "absent"
         /\ Verdict(c, k, att, app, old) = "reclaim" =>
              Retriable(k) /\ record[k].st # "absent"
         /\ Verdict(c, k, att, app, old) = "reuse" => record[k].st = "SUCCESS"
         /\ Verdict(c, k, att, app, old) \in {"wait", "fail"} => record[k].st # "absent"
         /\ Verdict(c, k, att, app, old) = "ask" => Asked(k)
<1>1. /\ Stale(k[1], att) \in {"ask", "reclaim", "fail"}
      /\ Stale(k[1], att) = "reclaim" => Retriable(k)
      /\ Stale(k[1], att) = "ask" => k[1] \in HighRisk \/ k[1] \notin CrashSafe
  BY DEF Stale, Retriable
<1>2. /\ Existing(k, att, old) \in {"reuse", "fail", "wait", "ask", "reclaim"}
      /\ Existing(k, att, old) = "reclaim" => Retriable(k)
      /\ Existing(k, att, old) = "reuse" => record[k].st = "SUCCESS"
      /\ Existing(k, att, old) = "ask" => k[1] \in HighRisk \/ k[1] \notin CrashSafe
  BY <1>1 DEF Existing
<1> QED
  BY <1>2 DEF Verdict, Asked

LEMMA DecisionMeans ==
  ASSUME NEW c, NEW k, NEW att, NEW app, NEW old
  PROVE  /\ Decision(c, k, att, app, old) \in {"claim", "reuse", "wait", "fail", "ask", "stop"}
         /\ Decision(c, k, att, app, old) = "claim" =>
              /\ k[1] \in HighRisk => IsApproved(c, app)
              /\ record[k].st = "absent" \/ Retriable(k)
         /\ Verdict(c, k, att, app, old) = "reclaim" =>
              Retriable(k) /\ Decision(c, k, att, app, old) \in {"claim", "stop"}
         /\ Decision(c, k, att, app, old) = "reuse" => record[k].st = "SUCCESS"
         /\ Decision(c, k, att, app, old) \in {"wait", "fail"} => record[k].st # "absent"
         /\ Decision(c, k, att, app, old) = "ask" => Asked(k)
BY VerdictMeans DEF Decision, Retriable

\* A submission that is accepted puts a job in the queue and claims the key;
\* nothing else does either.
LEMMA SubmitClaims ==
  ASSUME NEW c \in Calls, NEW k \in Keys, NEW att, NEW old, NEW app, PlatformTypeOK,
         Submit(c, k, att, app, old)
  PROVE  \/ /\ UNCHANGED <<job, dispatched>>
            /\ \/ UNCHANGED record
               \/ Retriable(k) /\ record' = [record EXCEPT ![k] = NoRecord]
         \/ /\ job' = [job EXCEPT ![c] = "queued"]
            /\ dispatched' = dispatched \cup {<<c, k>>}
            /\ record' = [record EXCEPT ![k] = [st |-> "PROCESSING", call |-> c]]
            /\ Upsert(c, k, "QUEUED") /\ approval' = app
            /\ k[1] \in HighRisk => IsApproved(c, app)
            /\ record[k].st = "absent" \/ Retriable(k)
<1>1. CASE Decision(c, k, att, app, old) = "claim"
  <2>1. /\ job' = [job EXCEPT ![c] = "queued"]
        /\ dispatched' = dispatched \cup {<<c, k>>}
        /\ Upsert(c, k, "QUEUED")
    BY <1>1 DEF Submit
  <2>2. record' = [record EXCEPT ![k] = [st |-> "PROCESSING", call |-> c]] /\ approval' = app
    BY <1>1 DEF Submit
  <2> QED
    BY <1>1, <2>1, <2>2, DecisionMeans
<1>2. CASE Decision(c, k, att, app, old) # "claim"
  <2>1. UNCHANGED <<job, dispatched>>
    BY <1>2 DEF Submit
  <2>2. \/ UNCHANGED record
        \/ /\ Verdict(c, k, att, app, old) = "reclaim"
           /\ record' = [record EXCEPT ![k] = NoRecord]
    BY <1>2 DEF Submit
  <2> QED
    BY <2>1, <2>2, DecisionMeans
<1> QED
  BY <1>1, <1>2

\* A submission touches one row and one approval record, those of its call.
LEMMA SubmitMarks ==
  ASSUME NEW c \in Calls, NEW k \in Keys, NEW att, NEW old, NEW app, PlatformTypeOK,
         Submit(c, k, att, app, old)
  PROVE  \/ UNCHANGED row /\ approval' = app
         \/ Upsert(c, k, "QUEUED") /\ approval' = app
         \/ Upsert(c, k, "FAILED") /\ approval' = app
         \/ /\ Upsert(c, k, "WAITING_HUMAN") /\ approval' = [app EXCEPT ![c] = "WAITING"]
            /\ Asked(k) /\ UNCHANGED <<record, job, dispatched>>
PROOF BY DecisionMeans DEF Submit

\* What the answer says of the call it names.
LEMMA ReplyMeans ==
  ASSUME NEW c \in Calls, NEW k \in Keys, NEW att, NEW old, NEW app, PlatformTypeOK,
         Submit(c, k, att, app, old)
  PROVE  LET r == Reply(c, k, att, app, old)
         IN  /\ r \in [outcome : Outcomes, call : Calls \cup {NoCall}]
             /\ r.outcome = "DEDUPLICATED" =>
                  record[k].st = "SUCCESS" /\ r.call = record[k].call /\ UNCHANGED <<record, row, job>>
                  /\ approval' = app
             /\ r.outcome = "WAITING_HUMAN" =>
                  r.call = c /\ approval' = [app EXCEPT ![c] = "WAITING"]
                  /\ Upsert(c, k, "WAITING_HUMAN")
             /\ r.outcome = "ACCEPTED" => Upsert(c, k, "QUEUED")
             /\ \/ r.call = c /\ \E st \in {"QUEUED", "WAITING_HUMAN", "FAILED"} : Upsert(c, k, st)
                \/ r.call = record[k].call /\ record[k].st # "absent"
<1> DEFINE r == Reply(c, k, att, app, old)
           d == Decision(c, k, att, app, old)
<1>1. record[k].call \in Calls \cup {NoCall}
  BY DEF PlatformTypeOK
<1>2. d \in {"claim", "reuse", "wait", "fail", "ask", "stop"}
  BY DecisionMeans
<1>3. CASE d = "claim"
  <2>1. Upsert(c, k, "QUEUED")
    BY <1>3 DEF Submit
  <2> QED
    BY <1>3, <2>1 DEF Reply, Outcomes
<1>4. CASE d = "stop"
  <2>1. Upsert(c, k, "FAILED")
    BY <1>4 DEF Submit
  <2> QED
    BY <1>4, <2>1 DEF Reply, Outcomes
<1>5. CASE d = "ask"
  <2>1. approval' = [app EXCEPT ![c] = "WAITING"] /\ Upsert(c, k, "WAITING_HUMAN")
    BY <1>5 DEF Submit
  <2> QED
    BY <1>5, <2>1 DEF Reply, Outcomes
<1>6. CASE d = "reuse"
  <2>1. UNCHANGED <<row, job>> /\ approval' = app
    BY <1>6 DEF Submit
  <2>2. UNCHANGED record
    BY <1>6 DEF Submit
  <2> QED
    BY <1>1, <1>6, <2>1, <2>2, DecisionMeans DEF Reply, Outcomes
<1>7. CASE d \in {"wait", "fail"}
  BY <1>1, <1>7, DecisionMeans DEF Reply, Outcomes
<1> QED
  BY <1>2, <1>3, <1>4, <1>5, <1>6, <1>7

\* The types of a submission.
LEMMA SubmitTyped ==
  ASSUME PlatformTypeOK, NEW c \in Calls, NEW k \in Keys, NEW att, NEW old,
         NEW app \in [Calls -> {"none", "WAITING", "APPROVED", "MODIFIED", "REJECTED"}],
         Submit(c, k, att, app, old), lastCall' \in 0 .. MaxCalls, late' \in [Calls -> Nat]
  PROVE  PlatformTypeOK'
<1>1. record' \in [Keys -> [st : {"absent", "PROCESSING", "SUCCESS", "FAILED"},
                            call : Calls \cup {NoCall}]]
  BY DEF Submit, PlatformTypeOK, NoRecord
<1>2. row' \in [Calls -> [st : {"absent", "QUEUED", "PROCESSING", "SUCCESS", "FAILED",
                                "WAITING_HUMAN", "CANCELLED"},
                          key : Keys]]
  <2>1. \/ UNCHANGED row
        \/ \E st \in {"QUEUED", "WAITING_HUMAN", "FAILED"} : Upsert(c, k, st)
    BY DEF Submit
  <2>2. ASSUME NEW st \in {"QUEUED", "WAITING_HUMAN", "FAILED"}, Upsert(c, k, st)
        PROVE  row' \in [Calls -> [st : {"absent", "QUEUED", "PROCESSING", "SUCCESS", "FAILED",
                                          "WAITING_HUMAN", "CANCELLED"},
                                    key : Keys]]
    BY <2>2 DEF PlatformTypeOK, Upsert
  <2> QED
    BY <2>1, <2>2 DEF PlatformTypeOK
<1>3. job' \in [Calls -> {"none", "queued", "running", "lost", "adrift"}] /\ tries' \in [Calls -> Nat]
  BY DEF Submit, PlatformTypeOK
<1>4. approval' \in [Calls -> {"none", "WAITING", "APPROVED", "MODIFIED", "REJECTED"}]
  BY DEF Submit
<1>5. visits' \in Seq(Steps)
  BY KeysOfSteps, VisitsGrow DEF Submit, PlatformTypeOK
<1>6. /\ dispatched' \subseteq Calls \X Keys /\ results' \subseteq Calls /\ putBack' \subseteq Calls
  BY DEF Submit, PlatformTypeOK
<1> QED
  BY <1>1, <1>2, <1>3, <1>4, <1>5, <1>6 DEF PlatformTypeOK

\* A submission of the desk owes one mark more, if it was accepted.
LEMMA DeskSubmitMeans ==
  ASSUME PlatformTypeOK, NEW c \in Calls, NEW k, NEW att, NEW app, NEW old,
         DeskSubmit(c, k, att, app, old)
  PROVE  /\ Submit(c, k, att, app, old)
         /\ late' \in [Calls -> Nat]
         /\ \A d \in Calls : late'[d] = late[d] \/ (d = c /\ row'[c].st # "absent")
<1>1. late \in [Calls -> Nat] /\ c \in DOMAIN row
  BY DEF PlatformTypeOK
<1>2. CASE Decision(c, k, att, app, old) = "claim"
  <2>1. Upsert(c, k, "QUEUED") /\ late' = [late EXCEPT ![c] = @ + 1]
    BY <1>2 DEF DeskSubmit, Submit
  <2> QED
    BY <1>1, <2>1 DEF DeskSubmit, Upsert
<1>3. CASE Decision(c, k, att, app, old) # "claim"
  BY <1>1, <1>3 DEF DeskSubmit
<1> QED
  BY <1>2, <1>3

LEMMA MarkTyped ==
  ASSUME PlatformTypeOK, NEW c \in Calls, Mark(c), late' \in [Calls -> Nat]
  PROVE  PlatformTypeOK'
<1>1. row' \in [Calls -> [st : {"absent", "QUEUED", "PROCESSING", "SUCCESS", "FAILED",
                                "WAITING_HUMAN", "CANCELLED"},
                          key : Keys]]
  BY DEF Mark, PlatformTypeOK
<1> QED
  BY <1>1 DEF Mark, PlatformTypeOK

LEMMA WorkerTyped ==
  ASSUME PlatformTypeOK, NEW c \in Calls,
         Take(c) \/ Finish(c) \/ Reap(c) \/ Reclaim(c) \/ Die(c)
  PROVE  PlatformTypeOK'
<1>1. row[c].key \in Keys
  BY DEF PlatformTypeOK
<1>2. ASSUME Take(c) PROVE PlatformTypeOK'
  BY <1>1, <1>2 DEF Take, PlatformTypeOK
<1>3. ASSUME Reap(c) PROVE PlatformTypeOK'
  <2>1. /\ UNCHANGED <<tries, approval, lastCall, visits, results, late, dispatched, putBack>>
        /\ \E j \in {"queued", "adrift"} : job' = [job EXCEPT ![c] = j]
        /\ row' = row \/ \E st \in {"QUEUED", "WAITING_HUMAN"} : row' = [row EXCEPT ![c].st = st]
        /\ UNCHANGED record \/ record' = [record EXCEPT ![row[c].key] = NoRecord]
    BY <1>3 DEF Reap
  <2>2. row' \in [Calls -> [st : {"absent", "QUEUED", "PROCESSING", "SUCCESS", "FAILED",
                                   "WAITING_HUMAN", "CANCELLED"},
                             key : Keys]]
    <3>1. CASE row' = row
      BY <3>1 DEF PlatformTypeOK
    <3>2. ASSUME NEW st \in {"QUEUED", "WAITING_HUMAN"}, row' = [row EXCEPT ![c].st = st]
          PROVE  row' \in [Calls -> [st : {"absent", "QUEUED", "PROCESSING", "SUCCESS", "FAILED",
                                            "WAITING_HUMAN", "CANCELLED"},
                                     key : Keys]]
      BY <3>2 DEF PlatformTypeOK
    <3> QED
      BY <2>1, <3>1, <3>2
  <2>3. record' \in [Keys -> [st : {"absent", "PROCESSING", "SUCCESS", "FAILED"},
                              call : Calls \cup {NoCall}]]
    <3> DEFINE r == [record EXCEPT ![row[c].key] = NoRecord]
    <3>1. NoRecord \in [st : {"absent", "PROCESSING", "SUCCESS", "FAILED"}, call : Calls \cup {NoCall}]
      BY DEF NoRecord
    <3>2. record' = record \/ record' = r
      BY <2>1
    <3>3. r \in [Keys -> [st : {"absent", "PROCESSING", "SUCCESS", "FAILED"},
                         call : Calls \cup {NoCall}]]
      BY <3>1 DEF PlatformTypeOK
    <3> QED
      BY <3>2, <3>3, ZenonT(60) DEF PlatformTypeOK
  <2>4. job' \in [Calls -> {"none", "queued", "running", "lost", "adrift"}]
    BY <2>1 DEF PlatformTypeOK
  <2> QED
    BY <2>1, <2>2, <2>3, <2>4 DEF PlatformTypeOK
<1>4. ASSUME Reclaim(c) \/ Die(c) PROVE PlatformTypeOK'
  <2>1. /\ \E j \in {"queued", "lost"} : job' = [job EXCEPT ![c] = j]
        /\ UNCHANGED <<record, row, tries, approval, lastCall, visits, results, late,
                       dispatched, putBack>>
    BY <1>4 DEF Reclaim, Die
  <2>2. job' \in [Calls -> {"none", "queued", "running", "lost", "adrift"}]
    BY <2>1 DEF PlatformTypeOK
  <2> QED
    BY <2>1, <2>2 DEF PlatformTypeOK
<1>5. ASSUME Finish(c), Succeed(c) PROVE PlatformTypeOK'
  <2>1. row' = [row EXCEPT ![c].st = "SUCCESS"]
    BY <1>5 DEF Succeed
  <2>2. row' \in [Calls -> [st : {"absent", "QUEUED", "PROCESSING", "SUCCESS", "FAILED",
                                   "WAITING_HUMAN", "CANCELLED"},
                             key : Keys]]
    BY <2>1 DEF PlatformTypeOK
  <2>3. record' \in [Keys -> [st : {"absent", "PROCESSING", "SUCCESS", "FAILED"},
                              call : Calls \cup {NoCall}]]
    BY <1>1, <1>5 DEF Succeed, PlatformTypeOK
  <2>4. job' \in [Calls -> {"none", "queued", "running", "lost", "adrift"}]
    BY <1>5 DEF Succeed, PlatformTypeOK
  <2> QED
    BY <1>5, <2>2, <2>3, <2>4 DEF Finish, Succeed, PlatformTypeOK
<1>6. ASSUME Finish(c), NEW transient, Fail(c, transient) PROVE PlatformTypeOK'
  <2>1. /\ row' = [row EXCEPT ![c].st = "FAILED"]
        /\ record' = [record EXCEPT ![row[c].key] = [st |-> "FAILED", call |-> c]]
        /\ tries' = [tries EXCEPT ![c] = @ + 1]
        /\ \E j \in {"queued", "none"} : job' = [job EXCEPT ![c] = j]
        /\ UNCHANGED approval \/ approval' = [approval EXCEPT ![c] = "WAITING"]
        /\ UNCHANGED <<lastCall, visits, results, late, dispatched>> /\ putBack' = putBack \ {c}
    BY <1>6 DEF Finish, Fail
  <2>2. row' \in [Calls -> [st : {"absent", "QUEUED", "PROCESSING", "SUCCESS", "FAILED",
                                   "WAITING_HUMAN", "CANCELLED"},
                             key : Keys]]
    <3>1. row' = [row EXCEPT ![c].st = "FAILED"]
      BY <2>1
    <3> QED
      BY <3>1 DEF PlatformTypeOK
  <2>3. record' \in [Keys -> [st : {"absent", "PROCESSING", "SUCCESS", "FAILED"},
                              call : Calls \cup {NoCall}]]
    BY <1>1, <2>1 DEF PlatformTypeOK
  <2>4. job' \in [Calls -> {"none", "queued", "running", "lost", "adrift"}]
    BY <2>1 DEF PlatformTypeOK
  <2>5. tries' \in [Calls -> Nat]
    BY <2>1 DEF PlatformTypeOK
  <2>6. approval' \in [Calls -> {"none", "WAITING", "APPROVED", "MODIFIED", "REJECTED"}]
    BY <2>1 DEF PlatformTypeOK
  <2> QED
    BY <2>1, <2>2, <2>3, <2>4, <2>5, <2>6 DEF PlatformTypeOK
<1> QED
  BY <1>2, <1>3, <1>4, <1>5, <1>6 DEF Finish

LEMMA ReviewTyped ==
  ASSUME PlatformTypeOK, NEW c \in Calls, Approve(c) \/ Modify(c) \/ Reject(c)
  PROVE  PlatformTypeOK'
<1>1. row[c].key \in Keys /\ <<row[c].key[1], "changed">> \in Keys /\ lastCall \in 0 .. MaxCalls
  BY KeysOfSteps DEF PlatformTypeOK
<1>2. ASSUME Approve(c) PROVE PlatformTypeOK'
  <2>1. PICK old : /\ Submit(c, row[c].key, 0, [approval EXCEPT ![c] = "APPROVED"], old)
                   /\ late' \in [Calls -> Nat]
    BY <1>2, DeskSubmitMeans DEF Approve
  <2>2. [approval EXCEPT ![c] = "APPROVED"] \in
           [Calls -> {"none", "WAITING", "APPROVED", "MODIFIED", "REJECTED"}]
    BY DEF PlatformTypeOK
  <2> QED
    BY <1>1, <1>2, <2>1, <2>2, SubmitTyped DEF Approve
<1>3. ASSUME Modify(c) PROVE PlatformTypeOK'
  <2>1. PICK old : /\ Submit(c, <<row[c].key[1], "changed">>, 0, [approval EXCEPT ![c] = "MODIFIED"], old)
                   /\ late' \in [Calls -> Nat]
    BY <1>3, DeskSubmitMeans DEF Modify
  <2>2. [approval EXCEPT ![c] = "MODIFIED"] \in
           [Calls -> {"none", "WAITING", "APPROVED", "MODIFIED", "REJECTED"}]
    BY DEF PlatformTypeOK
  <2> QED
    BY <1>1, <1>3, <2>1, <2>2, SubmitTyped DEF Modify
<1>4. ASSUME Reject(c) PROVE PlatformTypeOK'
  <2>1. row' = [row EXCEPT ![c].st = "CANCELLED"]
    BY <1>4 DEF Reject
  <2>2. row' \in [Calls -> [st : {"absent", "QUEUED", "PROCESSING", "SUCCESS", "FAILED",
                                   "WAITING_HUMAN", "CANCELLED"},
                             key : Keys]]
    BY <2>1 DEF PlatformTypeOK
  <2>3. approval' \in [Calls -> {"none", "WAITING", "APPROVED", "MODIFIED", "REJECTED"}]
    BY <1>4 DEF Reject, PlatformTypeOK
  <2> QED
    BY <1>4, <2>2, <2>3 DEF Reject, PlatformTypeOK
<1> QED
  BY <1>2, <1>3, <1>4

-------------------------------------------------------------------------------
(***************************************************************************)
(* Types.  A process in the tool node, and a run that waits, have a step   *)
(* left; that is what keeps the plan's index within the plan.              *)
(***************************************************************************)
Checkpoints ==
  [status : {"none", "INIT", "PLANNING", "COMPLETED", "FAILED"} \cup Waits,
   index : 0 .. PlanLength, path : Seq(Steps), retries : 0 .. 1,
   pending : [call : Calls \cup {NoCall}, key : Keys],
   decision : Decisions, done : [Steps -> Calls \cup {NoCall}]]

AgentTypeOK ==
  /\ ck \in Checkpoints
  /\ pc \in {"idle", "planner", "tool", "published", "branch", "decide", "recheck", "record"}
  /\ wake \in BOOLEAN /\ interrupted \in BOOLEAN
  /\ hand \in [call : Calls \cup {NoCall}, key : Keys, human : BOOLEAN]
  /\ got \in [outcome : Outcomes, call : Calls \cup {NoCall}]

AdviceTypeOK == advice \in [act : {"none", "resubmit"}, key : Keys, att : Nat]

BudgetTypeOK ==
  /\ crashes \in Nat /\ deaths \in Nat /\ crashes + deaths <= MaxDeaths
  /\ recoveries \in 0 .. MaxRecoveries /\ reviews \in 0 .. MaxReviews

LEMMA TypesParted ==
  /\ TypeOK <=> PlatformTypeOK /\ AgentTypeOK /\ AdviceTypeOK /\ BudgetTypeOK
  /\ TypeOK' <=> PlatformTypeOK' /\ AgentTypeOK' /\ AdviceTypeOK' /\ BudgetTypeOK'
PROOF BY DEF TypeOK, AgentTypeOK, AdviceTypeOK, BudgetTypeOK, Checkpoints

InNode == {"tool", "published", "branch", "decide", "recheck", "record"}
Holding == {"published", "branch", "decide", "recheck"}

Placed ==
  /\ pc = "planner" => ck.index = 0
  /\ pc \in InNode \/ ck.status \in Waits => ck.index < PlanLength
  /\ pc \in Holding => /\ hand.call \in Calls /\ hand.call <= lastCall
                       /\ hand.key[1] = ck.index + 1
  /\ pc \in {"published", "branch"} /\ hand.human => ck.retries = 0

LEMMA Nothings ==
  /\ NoHand \in [call : Calls \cup {NoCall}, key : Keys, human : BOOLEAN] /\ ~NoHand.human
  /\ NoAnswer \in [outcome : Outcomes, call : Calls \cup {NoCall}] /\ NoAnswer.call = NoCall
  /\ NoPending \in [call : Calls \cup {NoCall}, key : Keys]
  /\ NoAdvice \in [act : {"none", "resubmit"}, key : Keys, att : Nat]
PROOF BY KeysOfSteps DEF NoHand, NoAnswer, NoPending, NoAdvice, Outcomes

LEMMA InitTyped == Init => TypeOK /\ Placed
<1> SUFFICES ASSUME Init PROVE TypeOK /\ Placed
  OBVIOUS
<1>1. PlatformTypeOK
  BY KeysOfSteps, CallNumbers, AgentPlatformAssumption DEF Init, PlatformInit, PlatformTypeOK, NoRecord
<1>2. AgentTypeOK
  <2>1. ck \in Checkpoints
    BY Nothings, AgentPlatformAssumption DEF Init, Checkpoints, Decisions
  <2> QED
    BY <2>1, Nothings DEF Init, AgentTypeOK
<1>3. AdviceTypeOK /\ BudgetTypeOK
  BY Nothings, AgentRuntimeAssumption DEF Init, AdviceTypeOK, BudgetTypeOK
<1>4. Placed
  BY DEF Init, Placed, InNode, Holding, Waits
<1> QED
  BY <1>1, <1>2, <1>3, <1>4, TypesParted

LEMMA CompleteTyped ==
  ASSUME AgentTypeOK, Placed, pc \in {"branch", "recheck"}, NEW c \in Calls \cup {NoCall},
         Complete(c), UNCHANGED interrupted
  PROVE  AgentTypeOK' /\ Placed'
<1> DEFINE n == ck.index + 1
<1>1. /\ ck \in Checkpoints /\ n \in Steps /\ ck.index \in Nat /\ PlanLength \in Nat
      /\ ck.path \in Seq(Steps) /\ Append(ck.path, n) \in Seq(Steps)
  BY AgentPlatformAssumption DEF AgentTypeOK, Placed, InNode, Checkpoints, Steps
<1>2. \E r \in 0 .. 1 :
        ck' = [ck EXCEPT !.status = "COMPLETED", !.index = n, !.path = Append(ck.path, n),
                         !.pending = NoPending, !.done[n] = c, !.retries = r]
  <2>1. ck.retries \in 0 .. 1
    BY <1>1 DEF Checkpoints
  <2>2. CASE hand.human /\ got.outcome = "DEDUPLICATED" /\ At("branch")
    <3>1. ck.retries = 0
      BY <2>2 DEF Placed, At
    <3>2. ck' = [ck EXCEPT !.status = "COMPLETED", !.index = n, !.path = Append(ck.path, n),
                           !.pending = NoPending, !.done[n] = c, !.retries = 0 + 1]
      BY <2>2, <3>1 DEF Complete
    <3> QED
      BY <3>2
  <2>3. CASE ~(hand.human /\ got.outcome = "DEDUPLICATED" /\ At("branch"))
    <3>1. ck' = [ck EXCEPT !.status = "COMPLETED", !.index = n, !.path = Append(ck.path, n),
                           !.pending = NoPending, !.done[n] = c, !.retries = ck.retries]
      BY <2>3 DEF Complete
    <3> QED
      BY <2>1, <3>1
  <2> QED
    BY <2>2, <2>3
<1>3. ck' \in Checkpoints /\ ck'.index = n /\ ck'.status = "COMPLETED"
  <2>1. PICK r \in 0 .. 1 :
           ck' = [ck EXCEPT !.status = "COMPLETED", !.index = n, !.path = Append(ck.path, n),
                            !.pending = NoPending, !.done[n] = c, !.retries = r]
    BY <1>2
  <2>2. ck' = [status |-> "COMPLETED", index |-> n, path |-> Append(ck.path, n), retries |-> r,
               pending |-> NoPending, decision |-> ck.decision, done |-> [ck.done EXCEPT ![n] = c]]
    BY <1>1, <2>1 DEF Checkpoints
  <2>3. [ck.done EXCEPT ![n] = c] \in [Steps -> Calls \cup {NoCall}] /\ ck.decision \in Decisions
    BY <1>1 DEF Checkpoints
  <2> QED
    BY <1>1, <2>2, <2>3, Nothings DEF Checkpoints, Steps
<1>4. /\ pc' \in {"idle", "tool"} /\ (pc' = "tool" => n < PlanLength)
      /\ wake' = FALSE /\ hand' = NoHand /\ got' = NoAnswer
  BY <1>1 DEF Complete, Leave
<1> QED
  BY <1>3, <1>4, Nothings DEF AgentTypeOK, Placed, InNode, Holding, Waits

\* The caller's steps and those of the nodes that leave the platform alone.
LEMMA NodeTyped ==
  ASSUME TypeOK, Placed,
         \/ Run \/ ResumeTool \/ Planner \/ BranchCompletes \/ BranchWaits \/ BranchAsksHuman
         \/ BranchFails \/ DecideEnds \/ RecheckCompletes \/ RecheckWaits \/ RecheckFails
         \/ RecordWait
         \/ \E decision \in Decisions \ {"none"} : ResumeHuman(decision)
  PROVE  AgentTypeOK' /\ Placed' /\ UNCHANGED <<platformVars, advice, budgetVars>>
<1>0. UNCHANGED <<platformVars, advice, budgetVars>>
  BY DEF Run, ResumeTool, Planner, BranchCompletes, BranchWaits, BranchAsksHuman, BranchFails,
         DecideEnds, RecheckCompletes, RecheckWaits, RecheckFails, RecordWait, ResumeHuman
<1>1. /\ AgentTypeOK /\ ck \in Checkpoints /\ ck.index \in 0 .. PlanLength
      /\ PlanLength \in Nat \ {0} /\ lastCall' = lastCall
  BY <1>0, TypesParted, AgentPlatformAssumption DEF AgentTypeOK, Checkpoints, platformVars
<1>2. ASSUME Run PROVE AgentTypeOK' /\ Placed'
  <2>1. ck' \in Checkpoints /\ ck'.index = 0 /\ ck'.status = "INIT"
    <3>1. ck' = [status |-> "INIT", index |-> 0, path |-> ck.path, retries |-> 0,
                 pending |-> NoPending, decision |-> "none", done |-> [s \in Steps |-> NoCall]]
      BY <1>1, <1>2 DEF Run, Checkpoints
    <3>2. ck.path \in Seq(Steps) /\ 0 \in 0 .. PlanLength
      BY <1>1 DEF Checkpoints
    <3> QED
      BY <3>1, <3>2, Nothings DEF Checkpoints, Decisions
  <2> QED
    BY <1>1, <1>2, <2>1, Nothings DEF Run, Leave, AgentTypeOK, Placed, InNode, Holding, Waits
<1>3. ASSUME ResumeTool PROVE AgentTypeOK' /\ Placed'
  BY <1>1, <1>3 DEF ResumeTool, AgentTypeOK, Placed, InNode, Holding, Waits
<1>4. ASSUME NEW decision \in Decisions \ {"none"}, ResumeHuman(decision)
      PROVE  AgentTypeOK' /\ Placed'
  <2>1. ck' \in Checkpoints /\ ck'.index = ck.index /\ ck'.status = "WAITING_HUMAN"
    BY <1>1, <1>4 DEF ResumeHuman, Checkpoints
  <2> QED
    BY <1>1, <1>4, <2>1 DEF ResumeHuman, AgentTypeOK, Placed, InNode, Holding, Waits
<1>5. ASSUME Planner PROVE AgentTypeOK' /\ Placed'
  <2>1. ck' \in Checkpoints /\ ck'.index = 0 /\ ck'.status = "PLANNING"
    BY <1>1, <1>5 DEF Planner, At, Checkpoints, Placed
  <2>2. /\ pc' = "tool" /\ wake' = FALSE /\ hand' = NoHand /\ got' = NoAnswer
        /\ interrupted' = interrupted
    BY <1>5 DEF Planner, Leave
  <2>3. AgentTypeOK'
    BY <1>1, <2>1, <2>2, Nothings DEF AgentTypeOK
  <2>4. 0 < PlanLength
    BY <1>1
  <2> QED
    BY <2>1, <2>2, <2>3, <2>4, Nothings DEF Placed, InNode, Holding
<1>6. ASSUME BranchCompletes \/ RecheckCompletes PROVE AgentTypeOK' /\ Placed'
  <2>1. /\ Complete(got.call) /\ UNCHANGED interrupted
        /\ pc \in {"branch", "recheck"} /\ got.call \in Calls \cup {NoCall}
    BY <1>1, <1>6 DEF BranchCompletes, RecheckCompletes, At, AgentTypeOK
  <2> QED
    BY <1>1, <2>1, CompleteTyped
<1>7. ASSUME BranchWaits PROVE AgentTypeOK' /\ Placed'
  BY <1>1, <1>7 DEF BranchWaits, At, AgentTypeOK, Placed, InNode, Holding
<1>8. ASSUME BranchAsksHuman PROVE AgentTypeOK' /\ Placed'
  <2>1. wake' \in BOOLEAN
    BY <1>8 DEF BranchAsksHuman
  <2> QED
    BY <1>1, <1>8, <2>1 DEF BranchAsksHuman, At, AgentTypeOK, Placed, InNode, Holding
<1>9. ASSUME Failed, UNCHANGED interrupted PROVE AgentTypeOK' /\ Placed'
  <2>1. ck' \in Checkpoints /\ ck'.status = "FAILED"
    BY <1>1, <1>9, Nothings DEF Failed, Checkpoints
  <2> QED
    BY <1>1, <1>9, <2>1, Nothings DEF Failed, Leave, AgentTypeOK, Placed, InNode, Holding, Waits
<1>10. ASSUME RecheckWaits PROVE AgentTypeOK' /\ Placed'
  BY <1>1, <1>10 DEF RecheckWaits, At, AgentTypeOK, Placed, InNode, Holding
<1>11. ASSUME RecordWait PROVE AgentTypeOK' /\ Placed'
  <2>1. ck' \in Checkpoints /\ ck'.index = ck.index
    BY <1>1, <1>11 DEF RecordWait, Checkpoints, AgentTypeOK, Waits
  <2> QED
    BY <1>1, <1>11, <2>1, Nothings DEF RecordWait, At, Leave, AgentTypeOK, Placed, InNode, Holding
<1> QED
  BY <1>2, <1>3, <1>4, <1>5, <1>6, <1>7, <1>8, <1>9, <1>10, <1>11, <1>0
  DEF BranchFails, DecideEnds, RecheckFails

\* What a submission of the node is, and what it means for the node.
LEMMA AskTyped ==
  ASSUME TypeOK, Placed, NEW c \in Calls, NEW k \in Keys, NEW human \in BOOLEAN, NEW old,
         pc \in InNode, human => ck.retries = 0, k[1] = ck.index + 1, c <= lastCall',
         Ask(c, k, human, old), lastCall' \in 0 .. MaxCalls
  PROVE  TypeOK' /\ Placed'
<1>1. PlatformTypeOK /\ AgentTypeOK
  BY TypesParted
<1>2. PlatformTypeOK'
  <2>1. Submit(c, k, ck.retries, approval, old) /\ late' \in [Calls -> Nat]
    BY <1>1 DEF Ask, PlatformTypeOK
  <2> QED
    BY <1>1, <2>1, SubmitTyped DEF PlatformTypeOK
<1>3. got' \in [outcome : Outcomes, call : Calls \cup {NoCall}]
  BY <1>1, ReplyMeans DEF Ask
<1>4. pc' \in {"published", "branch"}
  BY DEF Ask
<1>5. AgentTypeOK' /\ Placed'
  BY <1>1, <1>3, <1>4 DEF Ask, AgentTypeOK, Placed, InNode, Holding
<1> QED
  BY <1>2, <1>5, TypesParted DEF Ask, AdviceTypeOK, BudgetTypeOK, budgetVars

\* The steps that take a call number and submit, with the call and its key.
LEMMA NodeSubmits ==
  ASSUME TypeOK, Placed, NEW old, ToolNodeSubmits(old) \/ DecideResubmits(old)
  PROVE  /\ lastCall' \in 0 .. MaxCalls /\ pc \in InNode
         /\ \E c \in Calls, k \in Keys, human \in BOOLEAN :
              /\ Ask(c, k, human, old)
              /\ human => ck.retries = 0 /\ pc = "decide"
              /\ k[1] = ck.index + 1 /\ c <= lastCall'
              /\ \/ c = lastCall + 1 /\ lastCall' = lastCall + 1
                 \/ c = hand.call /\ k = hand.key /\ pc = "decide" /\ UNCHANGED lastCall
<1>1. /\ PlatformTypeOK /\ AgentTypeOK /\ lastCall \in 0 .. MaxCalls /\ MaxCalls \in Nat
  BY TypesParted, CallNumbers DEF PlatformTypeOK
<1>2. At("tool") \/ At("decide") => ck.index + 1 \in Steps
  BY <1>1, AgentPlatformAssumption DEF At, Placed, InNode, AgentTypeOK, Checkpoints, Steps
<1>3. lastCall < MaxCalls => lastCall + 1 \in Calls /\ lastCall + 1 \in 0 .. MaxCalls
  BY <1>1 DEF Calls
<1>4. CASE ToolNodeSubmits(old)
  <2> DEFINE k == <<ck.index + 1, "planned">>
  <2>1. /\ Ask(lastCall + 1, k, FALSE, old)
        /\ At("tool") /\ lastCall < MaxCalls /\ lastCall' = lastCall + 1
    BY <1>4 DEF ToolNodeSubmits
  <2>2. /\ lastCall + 1 \in Calls /\ lastCall' \in 0 .. MaxCalls /\ pc \in InNode
        /\ lastCall + 1 <= lastCall'
    BY <1>1, <1>3, <2>1 DEF At, InNode
  <2>3. k \in Keys /\ k[1] = ck.index + 1
    BY <1>2, <2>1, KeysOfSteps
  <2>4. pc = "decide" \/ FALSE = FALSE
    BY <2>1 DEF At
  <2> HIDE DEF k
  <2> QED
    BY <2>1, <2>2, <2>3, <2>4
<1>5. CASE DecideResubmits(old) /\ ck.decision = "MODIFY"
  <2> DEFINE k == <<ck.index + 1, "changed">>
  <2>1. /\ Ask(lastCall + 1, k, TRUE, old) /\ ck.retries = 0
        /\ At("decide") /\ lastCall < MaxCalls /\ lastCall' = lastCall + 1
    BY <1>5 DEF DecideResubmits
  <2>2. /\ lastCall + 1 \in Calls /\ lastCall' \in 0 .. MaxCalls /\ pc \in InNode
        /\ lastCall + 1 <= lastCall'
    BY <1>1, <1>3, <2>1 DEF At, InNode
  <2>3. k \in Keys /\ k[1] = ck.index + 1
    BY <1>2, <2>1, KeysOfSteps
  <2>4. pc = "decide" \/ TRUE = FALSE
    BY <2>1 DEF At
  <2> HIDE DEF k
  <2> QED
    BY <2>1, <2>2, <2>3, <2>4
<1>6. CASE DecideResubmits(old) /\ ck.decision # "MODIFY"
  <2>1. /\ Ask(hand.call, hand.key, TRUE, old) /\ ck.retries = 0
        /\ At("decide") /\ lastCall' = lastCall
    BY <1>6 DEF DecideResubmits
  <2> QED
    BY <1>1, <2>1 DEF At, InNode, Holding, Placed, AgentTypeOK
<1> QED
  BY <1>4, <1>5, <1>6

\* The platform's own steps: workers, reaper, reviewers.  The agent stands still.
PlatformMoves(c) ==
  /\ Take(c) \/ Finish(c) \/ Reap(c) \/ Reclaim(c) \/ Die(c)
  /\ UNCHANGED <<agentVars, advice, reviews>>

Marked(c) ==
  /\ DeskMarks(c)
  /\ UNCHANGED <<agentVars, advice, reviews>>

Reviewed(c) ==
  /\ reviews' = reviews + 1
  /\ Approve(c) \/ Modify(c) \/ Reject(c)
  /\ UNCHANGED <<agentVars, advice>>

\* Next, sorted by what a step may change.
Alone ==
  \/ Run \/ ResumeTool \/ Planner \/ BranchCompletes \/ BranchWaits \/ BranchAsksHuman
  \/ BranchFails \/ DecideEnds \/ RecheckCompletes \/ RecheckWaits \/ RecheckFails
  \/ RecordWait
  \/ \E decision \in Decisions \ {"none"} : ResumeHuman(decision)

LEMMA StepsSorted ==
  ASSUME [Next]_vars
  PROVE  \/ Alone
         \/ ToolNodeDecided
         \/ \E old \in BOOLEAN : ToolNodeSubmits(old) \/ DecideResubmits(old)
         \/ AgentMarks
         \/ PlanResume
         \/ \E old \in BOOLEAN : ApplyResubmits(old)
         \/ Crash
         \/ \E c \in Calls : PlatformMoves(c)
         \/ \E c \in Calls : Reviewed(c)
         \/ \E c \in Calls : Marked(c)
         \/ UNCHANGED vars
<1>1. ASSUME NEW c \in Calls, WorkerStep(c) \/ ReaperStep(c) \/ ReclaimStep(c) \/ WorkerDies(c)
      PROVE  PlatformMoves(c)
  BY <1>1 DEF WorkerStep, ReaperStep, ReclaimStep, WorkerDies, PlatformMoves, budgetVars
<1>2. ASSUME NEW c \in Calls, ReviewerDecides(c) PROVE Reviewed(c)
  BY <1>2 DEF ReviewerDecides, Reviewed
<1>3. ASSUME NEW c \in Calls, MarkStep(c) PROVE Marked(c)
  BY <1>3 DEF MarkStep, Marked, budgetVars
<1> QED
  BY <1>1, <1>2, <1>3 DEF Next, Caller, GraphStep, Alone

LEMMA NextTyped ==
  ASSUME TypeOK, Placed, [Next]_vars
  PROVE  TypeOK' /\ Placed'
<1>1. PlatformTypeOK /\ AgentTypeOK /\ AdviceTypeOK /\ BudgetTypeOK
  BY TypesParted
<1>2. CASE Alone
  <2>1. AgentTypeOK' /\ Placed' /\ UNCHANGED <<platformVars, advice, budgetVars>>
    BY <1>2, NodeTyped DEF Alone
  <2>2. PlatformTypeOK' /\ AdviceTypeOK' /\ BudgetTypeOK'
    BY <1>1, <2>1 DEF PlatformTypeOK, platformVars, AdviceTypeOK, BudgetTypeOK, budgetVars
  <2> QED
    BY <2>1, <2>2, TypesParted
<1>3. CASE ToolNodeDecided
  <2>1. /\ lastCall + 1 \in Calls /\ lastCall' = lastCall + 1 /\ lastCall' \in 0 .. MaxCalls
        /\ lastCall + 1 <= lastCall' /\ ck.index + 1 \in Steps /\ pc' = "decide" /\ ck' = ck
    <3>1. lastCall \in 0 .. MaxCalls /\ MaxCalls \in Nat
      BY <1>1, CallNumbers DEF PlatformTypeOK
    <3>2. /\ lastCall < MaxCalls /\ lastCall' = lastCall + 1 /\ pc' = "decide" /\ ck' = ck
          /\ pc = "tool"
      BY <1>3 DEF ToolNodeDecided, At
    <3>3. ck.index \in 0 .. PlanLength /\ ck.index < PlanLength /\ PlanLength \in Nat
      BY <1>1, <3>2, AgentPlatformAssumption DEF AgentTypeOK, Checkpoints, Placed, InNode
    <3> QED
      BY <3>1, <3>2, <3>3 DEF Calls, Steps
  <2>2. PlatformTypeOK'
    BY <1>1, <1>3, <2>1 DEF ToolNodeDecided, PlatformTypeOK
  <2>3. /\ hand'.call = lastCall + 1 /\ hand'.key[1] = ck.index + 1
        /\ hand' \in [call : Calls \cup {NoCall}, key : Keys, human : BOOLEAN]
    BY <1>3, <2>1, KeysOfSteps DEF ToolNodeDecided
  <2>4. AgentTypeOK' /\ AdviceTypeOK' /\ BudgetTypeOK'
    BY <1>1, <1>3, <2>1, <2>3 DEF ToolNodeDecided, AgentTypeOK, AdviceTypeOK, BudgetTypeOK, budgetVars
  <2>5. ck.index < PlanLength
    BY <1>3 DEF ToolNodeDecided, At, Placed, InNode
  <2>6. Placed'
    BY <2>1, <2>3, <2>5 DEF Placed, InNode, Holding
  <2> QED
    BY <2>2, <2>4, <2>6, TypesParted
<1>4. ASSUME NEW old \in BOOLEAN, ToolNodeSubmits(old) \/ DecideResubmits(old)
      PROVE  TypeOK' /\ Placed'
  BY <1>4, NodeSubmits, AskTyped
<1>5. CASE PlanResume
  <2>1. AdviceTypeOK'
    <3>1. PICK p \in PendingCalls : advice' = [act |-> "resubmit", key |-> p.key, att |-> ck.retries]
      BY <1>5 DEF PlanResume
    <3>2. p.key \in Keys
      BY <1>1, <3>1 DEF PendingCalls, Unsettled, AgentTypeOK, Checkpoints, PlatformTypeOK
    <3>3. ck.retries \in Nat
      BY <1>1 DEF AgentTypeOK, Checkpoints
    <3> QED
      BY <3>1, <3>2, <3>3 DEF AdviceTypeOK
  <2>2. BudgetTypeOK'
    BY <1>1, <1>5, AgentRuntimeAssumption DEF PlanResume, BudgetTypeOK
  <2>3. UNCHANGED <<platformVars, agentVars>>
    BY <1>5 DEF PlanResume
  <2>4. PlatformTypeOK' /\ AgentTypeOK' /\ Placed'
    BY <1>1, <2>3 DEF PlatformTypeOK, platformVars, AgentTypeOK, agentVars, Placed
  <2> QED
    BY <2>1, <2>2, <2>4, TypesParted
<1>6. ASSUME NEW old \in BOOLEAN, ApplyResubmits(old) PROVE TypeOK' /\ Placed'
  <2>1. /\ lastCall + 1 \in Calls /\ lastCall' = lastCall + 1 /\ lastCall' \in 0 .. MaxCalls
        /\ lastCall <= lastCall' /\ lastCall \in Nat
    BY <1>1, <1>6, CallNumbers DEF ApplyResubmits, PlatformTypeOK, Calls
  <2>2. PlatformTypeOK'
    <3>1. /\ Submit(lastCall + 1, advice.key, advice.att + 1, approval, old)
          /\ late' \in [Calls -> Nat]
      BY <1>1, <1>6, <2>1, DeskSubmitMeans DEF ApplyResubmits
    <3> QED
      BY <1>1, <2>1, <3>1, SubmitTyped DEF PlatformTypeOK, AdviceTypeOK
  <2>3. AgentTypeOK' /\ AdviceTypeOK' /\ BudgetTypeOK'
    BY <1>1, <1>6, Nothings
    DEF ApplyResubmits, AgentTypeOK, agentVars, AdviceTypeOK, BudgetTypeOK, budgetVars
  <2>4. Placed'
    <3>1. UNCHANGED <<ck, pc, hand>>
      BY <1>6 DEF ApplyResubmits, agentVars
    <3>2. ASSUME NEW n \in Nat, n <= lastCall PROVE n <= lastCall'
      <4>1. lastCall' = lastCall + 1 /\ lastCall \in Nat
        BY <2>1
      <4> QED
        BY <3>2, <4>1
    <3> QED
      BY <3>1, <3>2, CallNumbers DEF Placed
  <2> QED
    BY <2>2, <2>3, <2>4, TypesParted
<1>7. CASE Crash
  <2>1. PlatformTypeOK' /\ AdviceTypeOK' /\ BudgetTypeOK'
    BY <1>1, <1>7, AgentRuntimeAssumption, SMTT(30)
    DEF Crash, PlatformTypeOK, platformVars, AdviceTypeOK, BudgetTypeOK
  <2>2. AgentTypeOK' /\ Placed'
    BY <1>1, <1>7, Nothings DEF Crash, Leave, AgentTypeOK, Placed, InNode, Holding
  <2> QED
    BY <2>1, <2>2, TypesParted
<1>8. ASSUME NEW c \in Calls, WorkerStep(c) \/ ReaperStep(c) \/ ReclaimStep(c) \/ WorkerDies(c)
                                \/ ReviewerDecides(c) \/ MarkStep(c)
      PROVE  TypeOK' /\ Placed'
  <2>1. PlatformTypeOK'
    <3>1. ASSUME MarkStep(c) PROVE PlatformTypeOK'
      <4>1. Mark(c) /\ late' \in [Calls -> Nat]
        BY <1>1, <3>1 DEF MarkStep, DeskMarks, PlatformTypeOK
      <4> QED
        BY <1>1, <4>1, MarkTyped
    <3> QED
      BY <1>1, <1>8, <3>1, WorkerTyped, ReviewTyped
      DEF WorkerStep, ReaperStep, ReclaimStep, WorkerDies, ReviewerDecides
  <2>2. BudgetTypeOK'
    BY <1>1, <1>8, AgentRuntimeAssumption
    DEF WorkerStep, ReaperStep, ReclaimStep, WorkerDies, ReviewerDecides, MarkStep, BudgetTypeOK, budgetVars
  <2>3. UNCHANGED <<agentVars, advice>>
    BY <1>8 DEF WorkerStep, ReaperStep, ReclaimStep, WorkerDies, ReviewerDecides, MarkStep
  <2>4. lastCall' = lastCall
    BY <1>8 DEF WorkerStep, ReaperStep, ReclaimStep, WorkerDies, ReviewerDecides, MarkStep,
                Take, Finish, Reap, Reclaim, Die, Approve, Modify, Reject, DeskMarks, Mark
  <2>5. AgentTypeOK' /\ AdviceTypeOK' /\ Placed'
    BY <1>1, <2>3, <2>4 DEF AgentTypeOK, AdviceTypeOK, agentVars, Placed
  <2> QED
    BY <2>1, <2>2, <2>5, TypesParted
<1>9. CASE AgentMarks
  <2>1. hand.call \in Calls /\ Mark(hand.call) /\ late' \in [Calls -> Nat] /\ lastCall' = lastCall
    BY <1>1, <1>9 DEF AgentMarks, At, Placed, Holding, PlatformTypeOK, Mark
  <2>2. PlatformTypeOK'
    BY <1>1, <2>1, MarkTyped
  <2>3. AgentTypeOK' /\ AdviceTypeOK' /\ BudgetTypeOK'
    BY <1>1, <1>9 DEF AgentMarks, AgentTypeOK, AdviceTypeOK, BudgetTypeOK, budgetVars
  <2>4. Placed'
    BY <1>9, <2>1 DEF AgentMarks, At, Placed, InNode, Holding
  <2> QED
    BY <2>2, <2>3, <2>4, TypesParted
<1>10. CASE UNCHANGED vars
  BY <1>10, SMTT(30) DEF vars, platformVars, agentVars, budgetVars, TypeOK, PlatformTypeOK, Placed
<1> QED
  BY <1>2, <1>3, <1>4, <1>5, <1>6, <1>7, <1>8, <1>9, <1>10 DEF Next, Caller, GraphStep, Alone

\* Every reachable state is well typed: the plan's index stays within the
\* plan, no call number is used before it is handed out, budgets hold.
THEOREM AgentTypeCorrect == Spec => []TypeOK
<1>1. TypeOK /\ Placed /\ [Next]_vars => (TypeOK /\ Placed)'
  BY NextTyped
<1> QED
  BY InitTyped, <1>1, PTL DEF Spec

-------------------------------------------------------------------------------
(***************************************************************************)
(* One job per key.  Only a record that is not there opens a key, and that *)
(* of a tool that must not run twice, once written, never goes away.       *)
(***************************************************************************)
\* A call is handed to an executor.
Dispatches(c, k) ==
  /\ dispatched' = dispatched \cup {<<c, k>>}
  /\ record' = [record EXCEPT ![k] = [st |-> "PROCESSING", call |-> c]]
  /\ record[k].st = "absent" \/ Retriable(k)
  /\ k[1] \in HighRisk => approval'[c] \in {"APPROVED", "MODIFIED"}

Kept == \A k \in Keys : record[k].st # "absent" /\ ~Retriable(k) => record'[k].st # "absent"

LEMMA SubmitDispatches ==
  ASSUME PlatformTypeOK, NEW c \in Calls, NEW k \in Keys, NEW att, NEW old, NEW app,
         Submit(c, k, att, app, old)
  PROVE  /\ UNCHANGED dispatched \/ Dispatches(c, k)
         /\ Kept
<1>1. record \in [Keys -> [st : {"absent", "PROCESSING", "SUCCESS", "FAILED"},
                           call : Calls \cup {NoCall}]]
  BY DEF PlatformTypeOK
<1>2. CASE /\ UNCHANGED <<job, dispatched>>
           /\ \/ UNCHANGED record
              \/ Retriable(k) /\ record' = [record EXCEPT ![k] = NoRecord]
  BY <1>1, <1>2 DEF Kept
<1>3. CASE /\ dispatched' = dispatched \cup {<<c, k>>}
           /\ record' = [record EXCEPT ![k] = [st |-> "PROCESSING", call |-> c]]
           /\ approval' = app
           /\ k[1] \in HighRisk => IsApproved(c, app)
           /\ record[k].st = "absent" \/ Retriable(k)
  BY <1>1, <1>3 DEF Kept, Dispatches, IsApproved
<1> QED
  BY <1>2, <1>3, SubmitClaims

LEMMA WorkerDispatches ==
  ASSUME PlatformTypeOK, NEW c \in Calls,
         Take(c) \/ Finish(c) \/ Reap(c) \/ Reclaim(c) \/ Die(c)
  PROVE  UNCHANGED dispatched /\ Kept
<1>1. /\ record \in [Keys -> [st : {"absent", "PROCESSING", "SUCCESS", "FAILED"},
                              call : Calls \cup {NoCall}]]
      /\ row[c].key \in Keys
  BY DEF PlatformTypeOK
<1>2. UNCHANGED dispatched
  BY DEF Take, Finish, Reap, Reclaim, Die
<1>3. \/ UNCHANGED record
      \/ \E st \in {"PROCESSING", "SUCCESS", "FAILED"} :
           record' = [record EXCEPT ![row[c].key] = [st |-> st, call |-> c]]
      \/ Retriable(row[c].key) /\ record' = [record EXCEPT ![row[c].key] = NoRecord]
  BY DEF Take, Finish, Succeed, Fail, Reap, Reclaim, Die, Retriable
<1>4. Kept
  BY <1>1, <1>3 DEF Kept
<1> QED
  BY <1>2, <1>4

\* Whoever moves, a step hands over one call at most, and keeps the records.
LEMMA StepDispatches ==
  ASSUME TypeOK, Placed, [Next]_vars
  PROVE  /\ UNCHANGED dispatched \/ \E c \in Calls, k \in Keys : Dispatches(c, k)
         /\ Kept
<1>1. PlatformTypeOK /\ AdviceTypeOK
  BY TypesParted
<1>2. ASSUME UNCHANGED <<record, dispatched>>
      PROVE  UNCHANGED dispatched /\ Kept
  BY <1>2 DEF Kept
<1>3. CASE Alone \/ ToolNodeDecided \/ AgentMarks \/ PlanResume \/ Crash \/ UNCHANGED vars
  <2>1. Alone => UNCHANGED platformVars
    BY NodeTyped DEF Alone
  <2> QED
    BY <1>2, <1>3, <2>1 DEF ToolNodeDecided, AgentMarks, Mark, PlanResume, Crash, vars, platformVars
<1>4. ASSUME NEW old \in BOOLEAN, ToolNodeSubmits(old) \/ DecideResubmits(old)
      PROVE  /\ UNCHANGED dispatched \/ \E c \in Calls, k \in Keys : Dispatches(c, k)
             /\ Kept
  <2>1. PICK c \in Calls, k \in Keys, human \in BOOLEAN : Ask(c, k, human, old)
    BY <1>4, NodeSubmits
  <2> QED
    BY <1>1, <2>1, SubmitDispatches DEF Ask
<1>5. ASSUME NEW old \in BOOLEAN, ApplyResubmits(old)
      PROVE  /\ UNCHANGED dispatched \/ \E c \in Calls, k \in Keys : Dispatches(c, k)
             /\ Kept
  <2>1. lastCall + 1 \in Calls /\ advice.key \in Keys
    BY <1>1, <1>5, CallNumbers DEF ApplyResubmits, PlatformTypeOK, AdviceTypeOK, Calls
  <2>2. Submit(lastCall + 1, advice.key, advice.att + 1, approval, old)
    BY <1>5 DEF ApplyResubmits, DeskSubmit
  <2> QED
    BY <1>1, <2>1, <2>2, SubmitDispatches
<1>6. ASSUME NEW c \in Calls, PlatformMoves(c) PROVE UNCHANGED dispatched /\ Kept
  BY <1>1, <1>6, WorkerDispatches DEF PlatformMoves
<1>7. ASSUME NEW c \in Calls, Reviewed(c)
      PROVE  /\ UNCHANGED dispatched \/ \E d \in Calls, k \in Keys : Dispatches(d, k)
             /\ Kept
  <2>1. row[c].key \in Keys /\ <<row[c].key[1], "changed">> \in Keys
    BY <1>1, KeysOfSteps DEF PlatformTypeOK
  <2>2. CASE Reject(c)
    BY <1>2, <2>2 DEF Reject
  <2>3. CASE Approve(c) \/ Modify(c)
    BY <1>1, <2>1, <2>3, SubmitDispatches DEF Approve, Modify, DeskSubmit
  <2> QED
    BY <1>7, <2>2, <2>3 DEF Reviewed
<1>8. ASSUME NEW c \in Calls, Marked(c) PROVE UNCHANGED dispatched /\ Kept
  BY <1>2, <1>8 DEF Marked, DeskMarks, Mark
<1> QED
  BY <1>3, <1>4, <1>5, <1>6, <1>7, <1>8, StepsSorted

\* Every key of such a tool that was handed over has its record.
OnceClaimed == \A d \in dispatched : ~Retriable(d[2]) => record[d[2]].st # "absent"

LEMMA OncePreserved ==
  ASSUME TypeOK, Placed, OnceClaimed, OneJobPerKey, [Next]_vars
  PROVE  OnceClaimed' /\ OneJobPerKey'
<1>1. PlatformTypeOK /\ dispatched \subseteq Calls \X Keys
      /\ record \in [Keys -> [st : {"absent", "PROCESSING", "SUCCESS", "FAILED"},
                              call : Calls \cup {NoCall}]]
  BY TypesParted DEF PlatformTypeOK
<1>2. \A d \in dispatched : d[2] \in Keys
  BY <1>1
<1>3. CASE UNCHANGED dispatched
  BY <1>2, <1>3, StepDispatches DEF Kept, OnceClaimed, OneJobPerKey, Retriable
<1>4. ASSUME NEW c \in Calls, NEW k \in Keys, Dispatches(c, k)
      PROVE  OnceClaimed' /\ OneJobPerKey'
  <2>1. \A d \in dispatched' : d \in dispatched \/ d = <<c, k>>
    BY <1>4 DEF Dispatches
  <2>2. <<c, k>>[2] = k
    OBVIOUS
  <2>3. record'[k].st # "absent"
    BY <1>1, <1>4 DEF Dispatches
  <2>4. OnceClaimed'
    BY <1>2, <2>1, <2>2, <2>3, StepDispatches DEF Kept, OnceClaimed, Retriable
  <2>5. \A d \in dispatched : d[2] = k => Retriable(k)
    BY <1>4 DEF OnceClaimed, Dispatches
  <2>6. ASSUME NEW key \in Keys, key[1] \notin CrashSafe \/ key[1] \in HighRisk,
               NEW d \in dispatched', NEW e \in dispatched', d[2] = key, e[2] = key
        PROVE  d = e
    <3>1. ~Retriable(key)
      BY <2>6 DEF Retriable
    <3>2. CASE key = k
      BY <2>1, <2>5, <2>6, <3>1, <3>2
    <3>3. CASE key # k
      BY <2>1, <2>2, <2>6, <3>3 DEF OneJobPerKey
    <3> QED
      BY <3>2, <3>3
  <2> QED
    BY <2>4, <2>6 DEF OneJobPerKey
<1> QED
  BY <1>3, <1>4, StepDispatches

\* A call whose tool must not run twice is handed to an executor at most once
\* per key, whatever the agent, its restarts, its recovery manager and the
\* reviewers submit again (IdempotencyManager.decide).
THEOREM OneJobEach == Spec => []OneJobPerKey
<1>1. Init => TypeOK /\ Placed /\ OnceClaimed /\ OneJobPerKey
  BY InitTyped DEF Init, PlatformInit, OnceClaimed, OneJobPerKey
<1>2. TypeOK /\ Placed /\ OnceClaimed /\ OneJobPerKey /\ [Next]_vars
        => (TypeOK /\ Placed /\ OnceClaimed /\ OneJobPerKey)'
  BY NextTyped, OncePreserved
<1> QED
  BY <1>1, <1>2, PTL DEF Spec

\* Whoever submits a high-risk call, it reaches an executor only if a reviewer
\* of the platform released it: a decision given to the graph is not enough.
THEOREM OnlyReleased == Spec => OnlyReleasedCallsRun
<1>1. ASSUME TypeOK, Placed, [Next]_vars
      PROVE  \A d \in dispatched' \ dispatched :
               d[2][1] \in HighRisk => approval'[d[1]] \in {"APPROVED", "MODIFIED"}
  <2>1. ASSUME NEW c \in Calls, NEW k \in Keys, Dispatches(c, k),
               NEW d \in dispatched' \ dispatched, d[2][1] \in HighRisk
        PROVE  approval'[d[1]] \in {"APPROVED", "MODIFIED"}
    <3>1. d = <<c, k>>
      BY <2>1 DEF Dispatches
    <3>2. d[1] = c /\ d[2] = k
      BY <3>1
    <3> QED
      BY <2>1, <3>2 DEF Dispatches
  <2> QED
    BY <1>1, <2>1, StepDispatches
<1>2. TypeOK /\ Placed /\ [Next]_vars => (TypeOK /\ Placed)'
  BY NextTyped
<1>3. TypeOK /\ Placed /\ [Next]_vars
        => [\A d \in dispatched' \ dispatched :
              d[2][1] \in HighRisk => approval'[d[1]] \in {"APPROVED", "MODIFIED"}]_vars
  BY <1>1
<1> QED
  BY InitTyped, <1>2, <1>3, PTL DEF Spec, OnlyReleasedCallsRun

-------------------------------------------------------------------------------
(***************************************************************************)
(* Done steps.  The row of a call keeps its step, and a result is stored   *)
(* for good.  Once the row says SUCCESS, only the PROCESSING of its own    *)
(* submission and a reviewer who is asked about the call can change it.    *)
(***************************************************************************)
\* A call that has been at the desk may be taken up again.
Decided(c) == reviews # 0 /\ approval[c] # "none"

\* What the row of a call that succeeded says, as long as nobody takes it up again.
Shown(c) == row[c].st = "SUCCESS" \/ (row[c].st = "PROCESSING" /\ c \in putBack)

\* The call succeeded.
Sound(c) == c \in results /\ (~Decided(c) => Shown(c))

\* Before a call is submitted it has no row, no approval record, no job, no
\* result, and no submission that will mark its row.
Unheard ==
  \A c \in Calls :
    /\ c > lastCall => row[c].st = "absent"
    /\ row[c].st = "absent" =>
         /\ approval[c] = "none" /\ job[c] = "none" /\ c \notin results
         /\ late[c] = 0

Stored == \A c \in Calls : row[c].st = "SUCCESS" => c \in results

\* A record names a call that was submitted for its step.
Owners ==
  \A k \in Keys : record[k].st # "absent" =>
    /\ record[k].call \in Calls /\ row[record[k].call].st # "absent"
    /\ row[record[k].call].key[1] = k[1]

\* A call with a job is not done, unless it was taken up again.
Open == \A c \in Calls : job[c] # "none" /\ c \in results => Decided(c)

\* Until a reviewer decides, what is at the desk has no job, is not done, and
\* would be refused again.
AtDesk ==
  reviews = 0 =>
    \A c \in Calls : approval[c] # "none" =>
      /\ approval[c] = "WAITING" /\ job[c] = "none" /\ c \notin results
      /\ Asked(row[c].key)

Paid == \A k \in Keys : record[k].st = "SUCCESS" => Sound(record[k].call)

Lived == Unheard /\ Owners /\ Open /\ AtDesk /\ Paid /\ Stored

\* What a step does to the rows: call c's own may change, all others stay.
Leaves(c) ==
  \A d \in Calls \ {c} :
    /\ row'[d] = row[d] /\ approval'[d] = approval[d]
    /\ row[d].st # "absent" /\ Sound(d) => Sound(d)'

Carries(c) ==
  row[c].st # "absent" =>
    /\ row'[c].st # "absent" /\ row'[c].key[1] = row[c].key[1]
    /\ reviews' = 0 => row'[c].key = row[c].key
    /\ approval[c] # "none" => approval'[c] # "none"
    /\ Sound(c) => Sound(c)'

LEMMA SubmitLives ==
  ASSUME PlatformTypeOK, Lived, NEW c \in Calls, NEW k \in Keys, NEW att, NEW old, NEW app,
         Submit(c, k, att, app, old), app \in [Calls -> {"none", "WAITING", "APPROVED", "MODIFIED", "REJECTED"}],
         \A d \in Calls \ {c} : app[d] = approval[d],
         reviews \in Nat, reviews' \in Nat, reviews' = 0 => reviews = 0 /\ app = approval,
         lastCall' \in Nat, lastCall \in Nat, lastCall <= lastCall', c <= lastCall',
         row[c].st = "absent" => app = approval,
         row[c].st # "absent" => k[1] = row[c].key[1] /\ approval[c] # "none" /\ app[c] # "none",
         reviews' = 0 => c \notin results /\ (row[c].st # "absent" => k = row[c].key),
         \A d \in Calls : late'[d] = late[d] \/ (d = c /\ row'[c].st # "absent")
  PROVE  Lived' /\ Leaves(c) /\ Carries(c)
<1>1. /\ record \in [Keys -> [st : {"absent", "PROCESSING", "SUCCESS", "FAILED"},
                              call : Calls \cup {NoCall}]]
      /\ row \in [Calls -> [st : {"absent", "QUEUED", "PROCESSING", "SUCCESS", "FAILED",
                                  "WAITING_HUMAN", "CANCELLED"},
                            key : Keys]]
      /\ job \in [Calls -> {"none", "queued", "running", "lost", "adrift"}]
      /\ approval \in [Calls -> {"none", "WAITING", "APPROVED", "MODIFIED", "REJECTED"}]
  BY DEF PlatformTypeOK
<1>2. \/ row' = row
      \/ \E st \in {"QUEUED", "WAITING_HUMAN", "FAILED"} :
           row' = [row EXCEPT ![c] = [st |-> st, key |-> k]]
  BY SubmitMarks DEF Upsert
<1>3. approval' = app \/ approval' = [app EXCEPT ![c] = "WAITING"]
  BY SubmitMarks
<1>0. results' = results /\ putBack' = putBack
  BY DEF Submit
<1>4. Leaves(c)
  <2>1. \A d \in Calls \ {c} : row'[d] = row[d]
    BY <1>1, <1>2
  <2>2. \A d \in Calls \ {c} : approval'[d] = approval[d]
    BY <1>3
  <2> QED
    BY <1>0, <2>1, <2>2 DEF Leaves, Sound, Shown, Decided
<1>5. row'[c] = row[c] \/ (row'[c].st \in {"QUEUED", "WAITING_HUMAN", "FAILED"} /\ row'[c].key = k)
  BY <1>1, <1>2
<1>6. Carries(c)
  <2>1. approval[c] # "none" /\ row[c].st # "absent" => approval'[c] # "none"
    BY <1>3
  <2>2. row[c].st # "absent" /\ Sound(c) => Sound(c)'
    BY <1>0, <2>1 DEF Sound, Decided
  <2> QED
    BY <1>5, <2>1, <2>2 DEF Carries
<1>7. Kept
  BY SubmitDispatches
<1>8. Unheard'
  <2>1. job' = job \/ (job' = [job EXCEPT ![c] = "queued"] /\ row'[c].st = "QUEUED")
    BY <1>1, SubmitClaims DEF Upsert
  <2>2. approval' = app \/ row'[c].st = "WAITING_HUMAN"
    BY <1>1, SubmitMarks DEF Upsert
  <2>3. ASSUME NEW d \in Calls PROVE (d > lastCall' => row'[d].st = "absent")
    <3>1. d > lastCall' => d > lastCall /\ d # c
      BY CallNumbers
    <3> QED
      BY <1>4, <3>1 DEF Lived, Unheard, Leaves
  <2>4. ASSUME NEW d \in Calls, row'[d].st = "absent"
        PROVE  approval'[d] = "none" /\ job'[d] = "none" /\ d \notin results' /\ late'[d] = 0
    <3>1. CASE d = c
      BY <1>0, <1>5, <2>1, <2>2, <2>4, <3>1 DEF Lived, Unheard
    <3>2. CASE d # c
      BY <1>0, <1>1, <1>4, <2>1, <2>4, <3>2 DEF Lived, Unheard, Leaves
    <3> QED
      BY <3>1, <3>2
  <2> QED
    BY <2>3, <2>4 DEF Unheard
<1>9. \A d \in Calls : row[d].st # "absent" =>
          row'[d].st # "absent" /\ row'[d].key[1] = row[d].key[1] /\ (Sound(d) => Sound(d)')
  BY <1>4, <1>6 DEF Leaves, Carries
<1>10. \A key \in Keys : record'[key].st # "absent" =>
          \/ record'[key] = record[key]
          \/ key = k /\ record'[key] = [st |-> "PROCESSING", call |-> c] /\ row'[c].st = "QUEUED"
             /\ row'[c].key = k
  BY <1>1, SubmitClaims DEF Upsert, NoRecord
<1>11. Owners' /\ Paid'
  <2>1. Owners'
    BY <1>9, <1>10 DEF Lived, Owners
  <2>2. ASSUME NEW key \in Keys, record'[key].st = "SUCCESS" PROVE Sound(record[key].call)' /\ record'[key] = record[key]
    BY <1>9, <1>10, <2>2 DEF Lived, Owners, Paid
  <2> QED
    BY <2>1, <2>2 DEF Paid, Sound, Shown, Decided
<1>12. Open' /\ Stored'
  <2>1. job' = job \/ job' = [job EXCEPT ![c] = "queued"]
    BY <1>1, SubmitClaims
  <2>2. ASSUME NEW d \in Calls \ {c}, job'[d] # "none", d \in results PROVE Decided(d)'
    BY <1>1, <1>4, <2>1, <2>2 DEF Lived, Open, Leaves, Decided
  <2>3. c \in results => Decided(c)'
    BY <1>3 DEF Lived, Unheard, Decided
  <2>4. Stored'
    BY <1>0, <1>4, <1>5 DEF Lived, Stored, Leaves
  <2> QED
    BY <1>0, <2>2, <2>3, <2>4 DEF Open, Decided
<1>13. AtDesk'
  <2> SUFFICES ASSUME reviews' = 0, NEW d \in Calls, approval'[d] # "none"
               PROVE  /\ approval'[d] = "WAITING" /\ job'[d] = "none" /\ d \notin results'
                      /\ \/ row'[d].key[1] \in HighRisk
                         \/ row'[d].key[1] \notin CrashSafe /\ record'[row'[d].key].st # "absent"
    BY DEF AtDesk, Asked
  <2>1. reviews = 0 /\ app = approval
    OBVIOUS
  <2>2. \A key \in Keys : Asked(key) =>
           key[1] \in HighRisk \/ (key[1] \notin CrashSafe /\ record'[key].st # "absent")
    BY <1>7 DEF Kept, Asked, Retriable
  <2>3. CASE d # c
    <3>1. job'[d] = job[d]
      BY <1>1, <2>3, SubmitClaims
    <3> QED
      BY <1>0, <1>1, <1>4, <2>1, <2>2, <2>3, <3>1 DEF Lived, AtDesk, Leaves
  <2>4. CASE d = c /\ approval[c] # "none"
    <3>1. /\ approval[c] = "WAITING" /\ job[c] = "none" /\ Asked(k)
          /\ row[c].st # "absent" /\ k = row[c].key
      BY <2>1, <2>4 DEF Lived, AtDesk, Unheard
    <3>2. job' = job
      BY <2>1, <3>1, SubmitClaims DEF IsApproved, Asked, Retriable
    <3> QED
      BY <1>0, <1>3, <1>5, <2>1, <2>2, <2>4, <3>1, <3>2
  <2>5. CASE d = c /\ approval[c] = "none"
    <3>1. approval' # app
      BY <2>1, <2>5
    <3>2. /\ row'[c].st = "WAITING_HUMAN" /\ row'[c].key = k /\ approval'[c] = "WAITING"
          /\ Asked(k) /\ job' = job
      BY <1>1, <3>1, SubmitMarks DEF Upsert
    <3>3. job[c] = "none"
      BY <2>5 DEF Lived, Unheard
    <3> QED
      BY <1>0, <2>2, <2>5, <3>2, <3>3
  <2> QED
    BY <2>3, <2>4, <2>5
<1> QED
  BY <1>4, <1>6, <1>8, <1>11, <1>12, <1>13 DEF Lived

\* What a worker, the reaper or a reclaim does to the call it works on.
LEMMA WorkerLives ==
  ASSUME PlatformTypeOK, Lived, NEW c \in Calls, reviews' = reviews,
         Take(c) \/ Finish(c) \/ Reap(c) \/ Reclaim(c) \/ Die(c)
  PROVE  Lived' /\ Leaves(c) /\ Carries(c) /\ row[c].st # "absent"
<1> DEFINE key == row[c].key
<1>1. /\ record \in [Keys -> [st : {"absent", "PROCESSING", "SUCCESS", "FAILED"},
                              call : Calls \cup {NoCall}]]
      /\ row \in [Calls -> [st : {"absent", "QUEUED", "PROCESSING", "SUCCESS", "FAILED",
                                  "WAITING_HUMAN", "CANCELLED"},
                            key : Keys]]
      /\ job \in [Calls -> {"none", "queued", "running", "lost", "adrift"}]
      /\ approval \in [Calls -> {"none", "WAITING", "APPROVED", "MODIFIED", "REJECTED"}]
      /\ key \in Keys
  BY DEF PlatformTypeOK
<1>2. /\ job[c] # "none" /\ row[c].st # "absent" /\ lastCall' = lastCall /\ late' = late
      /\ c \in results => Decided(c)
  BY DEF Take, Finish, Reap, Reclaim, Die, Lived, Unheard, Open
<1>0. /\ results' = results \/ (results' = results \cup {c} /\ row'[c].st = "SUCCESS" /\ job'[c] = "none"
                                /\ approval' = approval)
      /\ putBack' = putBack \/ putBack' = putBack \ {c}
  <2>1. ASSUME Succeed(c) PROVE row'[c].st = "SUCCESS" /\ job'[c] = "none"
    BY <1>1, <2>1 DEF Succeed
  <2> QED
    BY <2>1 DEF Take, Finish, Succeed, Fail, Reap, Reclaim, Die
<1>3. row' = row \/ \E st \in {"QUEUED", "SUCCESS", "FAILED", "WAITING_HUMAN"} :
                       row' = [row EXCEPT ![c].st = st]
  BY DEF Take, Finish, Succeed, Fail, Reap, Reclaim, Die
<1>4. \/ row'[c] = row[c]
      \/ row'[c].st \in {"QUEUED", "SUCCESS", "FAILED", "WAITING_HUMAN"} /\ row'[c].key = key
  BY <1>1, <1>3
<1>5. approval' = approval \/ (/\ approval' = [approval EXCEPT ![c] = "WAITING"] /\ job'[c] = "none"
                               /\ row'[c].st = "FAILED" /\ key[1] \in HighRisk)
  <2>1. ASSUME NEW transient, Fail(c, transient)
        PROVE  \/ approval' = approval
               \/ /\ approval' = [approval EXCEPT ![c] = "WAITING"] /\ job'[c] = "none"
                  /\ row'[c].st = "FAILED" /\ key[1] \in HighRisk
    BY <1>1, <2>1 DEF Fail
  <2> QED
    BY <2>1 DEF Take, Finish, Succeed, Reap, Reclaim, Die
<1>6. \A d \in Calls \ {c} : job'[d] = job[d] /\ row'[d] = row[d] /\ approval'[d] = approval[d]
  <2>1. \E j \in {"none", "queued", "running", "lost", "adrift"} : job' = [job EXCEPT ![c] = j] \/ job' = job
    BY DEF Take, Finish, Succeed, Fail, Reap, Reclaim, Die
  <2> QED
    BY <1>1, <1>3, <1>5, <2>1
<1>7. row'[c].st = "SUCCESS" => c \in results'
  <2>1. ASSUME Finish(c), NEW transient, Fail(c, transient) PROVE row'[c].st = "FAILED"
    BY <1>1, <2>1 DEF Fail
  <2>2. ASSUME Succeed(c) PROVE c \in results'
    BY <2>2 DEF Succeed
  <2>3. ASSUME Take(c) \/ Reap(c) \/ Reclaim(c) \/ Die(c), row'[c].st = "SUCCESS"
        PROVE  row[c].st = "SUCCESS" /\ results' = results
    BY <1>1, <2>3 DEF Take, Reap, Reclaim, Die
  <2> QED
    BY <2>1, <2>2, <2>3 DEF Finish, Lived, Stored
<1>8. Leaves(c) /\ Carries(c)
  <2>1. Leaves(c)
    BY <1>0, <1>6 DEF Leaves, Sound, Shown, Decided
  <2>2. approval[c] # "none" => approval'[c] # "none"
    BY <1>1, <1>5
  <2>3. row'[c].st # "absent" /\ row'[c].key = row[c].key
    BY <1>2, <1>4
  <2>4. Sound(c) => Sound(c)'
    BY <1>0, <1>2, <2>2 DEF Sound, Decided
  <2> QED
    BY <2>1, <2>2, <2>3, <2>4 DEF Carries
<1>9. \A d \in Calls : row[d].st # "absent" =>
          row'[d].st # "absent" /\ row'[d].key[1] = row[d].key[1] /\ (Sound(d) => Sound(d)')
  BY <1>8 DEF Leaves, Carries
<1>10. /\ Kept
       /\ \/ UNCHANGED record
          \/ record' = [record EXCEPT ![key] = [st |-> "PROCESSING", call |-> c]]
          \/ record' = [record EXCEPT ![key] = [st |-> "FAILED", call |-> c]]
          \/ record' = [record EXCEPT ![key] = [st |-> "SUCCESS", call |-> c]] /\ row'[c].st = "SUCCESS"
          \/ record' = [record EXCEPT ![key] = NoRecord]
  <2>1. Succeed(c) => row'[c].st = "SUCCESS"
    BY <1>1 DEF Succeed
  <2> QED
    BY <2>1, WorkerDispatches DEF Take, Finish, Succeed, Fail, Reap, Reclaim, Die
<1>11. \A k \in Keys : record'[k].st # "absent" =>
          \/ record'[k] = record[k]
          \/ /\ k = key /\ record'[k].call = c
             /\ record'[k].st = "SUCCESS" => row'[c].st = "SUCCESS"
  BY <1>1, <1>10 DEF NoRecord
<1>12. row'[c].st # "absent" /\ row'[c].key = key
  BY <1>2, <1>4
<1>13. Owners'
  BY <1>9, <1>11, <1>12 DEF Lived, Owners
<1>14. Paid'
  <2> SUFFICES ASSUME NEW k \in Keys, record'[k].st = "SUCCESS" PROVE Sound(record[k].call)'
    BY DEF Paid
  <2>1. CASE record'[k] = record[k]
    <3>1. PICK d : d = record[k].call
      OBVIOUS
    <3>2. d \in Calls /\ row[d].st # "absent" /\ Sound(d)
      BY <2>1, <3>1 DEF Lived, Owners, Paid
    <3>3. record'[k].call = d /\ Sound(d)'
      BY <1>9, <2>1, <3>1, <3>2
    <3> QED
      BY <3>3 DEF Sound, Shown, Decided
  <2>2. CASE record'[k].call = c /\ row'[c].st = "SUCCESS"
    BY <1>7, <2>2 DEF Sound, Shown
  <2> QED
    BY <1>11, <2>1, <2>2
<1>15. Unheard'
  BY <1>0, <1>2, <1>6, <1>12 DEF Lived, Unheard
<1>16. Open' /\ Stored'
  <2>1. ASSUME NEW d \in Calls, job'[d] # "none", d \in results' PROVE Decided(d)'
    <3>1. CASE d = c
      BY <1>0, <1>1, <1>2, <1>5, <2>1, <3>1 DEF Decided
    <3>2. CASE d # c
      BY <1>0, <1>6, <2>1, <3>2 DEF Lived, Open, Decided
    <3> QED
      BY <3>1, <3>2
  <2>2. ASSUME NEW d \in Calls, row'[d].st = "SUCCESS" PROVE d \in results'
    BY <1>0, <1>6, <1>7, <2>2 DEF Lived, Stored
  <2> QED
    BY <2>1, <2>2 DEF Open, Decided, Stored
<1>17. AtDesk'
  <2> SUFFICES ASSUME reviews' = 0, NEW d \in Calls, approval'[d] # "none"
               PROVE  /\ approval'[d] = "WAITING" /\ job'[d] = "none" /\ d \notin results'
                      /\ \/ row'[d].key[1] \in HighRisk
                         \/ row'[d].key[1] \notin CrashSafe /\ record'[row'[d].key].st # "absent"
    BY DEF AtDesk, Asked
  <2>1. CASE d = c
    <3>1. approval[c] = "none" /\ c \notin results
      BY <1>2 DEF Lived, AtDesk, Decided
    <3> QED
      BY <1>0, <1>1, <1>5, <1>12, <2>1, <3>1
  <2>2. CASE d # c
    <3>1. Asked(row[d].key) /\ row[d].key \in Keys
      BY <1>1, <1>6, <2>2 DEF Lived, AtDesk
    <3> QED
      BY <1>0, <1>6, <1>10, <2>2, <3>1 DEF Lived, AtDesk, Asked, Kept, Retriable
  <2> QED
    BY <2>1, <2>2
<1> QED
  BY <1>2, <1>8, <1>13, <1>14, <1>15, <1>16, <1>17 DEF Lived

\* The late PROCESSING of a submission is written over whatever the row says.
LEMMA MarkLives ==
  ASSUME PlatformTypeOK, Lived, NEW c \in Calls, reviews' = reviews, Mark(c),
         row[c].st # "absent", \A d \in Calls \ {c} : late'[d] = late[d]
  PROVE  Lived' /\ Leaves(c) /\ Carries(c)
<1>1. /\ row' = [row EXCEPT ![c].st = "PROCESSING"]
      /\ row \in [Calls -> [st : {"absent", "QUEUED", "PROCESSING", "SUCCESS", "FAILED",
                                  "WAITING_HUMAN", "CANCELLED"},
                            key : Keys]]
      /\ UNCHANGED <<record, job, approval, lastCall, results>>
  BY DEF Mark, PlatformTypeOK
<1>2. /\ row'[c].st = "PROCESSING" /\ row'[c].key = row[c].key
      /\ \A d \in Calls \ {c} : row'[d] = row[d]
  BY <1>1
<1>3. /\ \A d \in Calls : d \in putBack => d \in putBack'
      /\ row[c].st = "SUCCESS" => c \in putBack'
  BY DEF Mark
<1>4. \A d \in Calls : Sound(d) => Sound(d)'
  BY <1>1, <1>2, <1>3 DEF Sound, Shown, Decided
<1>5. Leaves(c) /\ Carries(c)
  BY <1>1, <1>2, <1>4 DEF Leaves, Carries
<1>6. Unheard' /\ Open' /\ Stored' /\ AtDesk'
  BY <1>1, <1>2 DEF Lived, Unheard, Open, Stored, AtDesk, Asked, Decided
<1>7. Owners'
  BY <1>1, <1>2 DEF Lived, Owners
<1>8. Paid'
  <2> SUFFICES ASSUME NEW k \in Keys, record[k].st = "SUCCESS" PROVE Sound(record[k].call)'
    BY <1>1 DEF Paid
  <2>1. PICK d : d = record[k].call
    OBVIOUS
  <2>2. d \in Calls /\ Sound(d)
    BY <2>1 DEF Lived, Owners, Paid
  <2>3. record'[k].call = d /\ Sound(d)'
    BY <1>1, <1>4, <2>1, <2>2
  <2> QED
    BY <2>3 DEF Sound, Shown, Decided
<1> QED
  BY <1>5, <1>6, <1>7, <1>8 DEF Lived

\* A reviewer decides about a call that was asked about, and no other.
LEMMA ReviewLives ==
  ASSUME PlatformTypeOK, Lived, NEW c \in Calls, reviews \in Nat, reviews' = reviews + 1,
         Approve(c) \/ Modify(c) \/ Reject(c)
  PROVE  Lived' /\ Leaves(c) /\ Carries(c) /\ row[c].st # "absent"
<1>1. /\ approval \in [Calls -> {"none", "WAITING", "APPROVED", "MODIFIED", "REJECTED"}]
      /\ row[c].key \in Keys /\ lastCall \in Nat /\ c \in Nat
      /\ row \in [Calls -> [st : {"absent", "QUEUED", "PROCESSING", "SUCCESS", "FAILED",
                                  "WAITING_HUMAN", "CANCELLED"},
                            key : Keys]]
  BY CallNumbers DEF PlatformTypeOK
<1>2. /\ approval[c] = "WAITING" /\ row[c].st # "absent" /\ lastCall' = lastCall
      /\ reviews' \in Nat /\ reviews' # 0 /\ c <= lastCall
  BY <1>1 DEF Approve, Modify, Reject, Lived, Unheard
<1>3. CASE Approve(c)
  <2>1. PICK old : /\ Submit(c, row[c].key, 0, [approval EXCEPT ![c] = "APPROVED"], old)
                   /\ \A d \in Calls : late'[d] = late[d] \/ (d = c /\ row'[c].st # "absent")
    BY <1>3, DeskSubmitMeans DEF Approve
  <2> DEFINE app == [approval EXCEPT ![c] = "APPROVED"]
  <2>2. /\ app \in [Calls -> {"none", "WAITING", "APPROVED", "MODIFIED", "REJECTED"}]
        /\ \A d \in Calls \ {c} : app[d] = approval[d]
        /\ app[c] # "none"
    BY <1>1
  <2>3. PICK k \in Keys : k = row[c].key
    BY <1>1
  <2>5. /\ Submit(c, k, 0, app, old)
        /\ \A d \in Calls : late'[d] = late[d] \/ (d = c /\ row'[c].st # "absent")
    BY <2>1, <2>3
  <2> HIDE DEF app
  <2>4. Lived' /\ Leaves(c) /\ Carries(c)
    <3>1. k[1] = row[c].key[1] /\ c <= lastCall' /\ lastCall' \in Nat /\ lastCall <= lastCall'
      BY <1>1, <1>2, <2>3
    <3> QED
      BY <1>1, <1>2, <2>2, <2>5, <3>1, SubmitLives
  <2> QED
    BY <1>2, <2>4
<1>4. CASE Modify(c)
  <2>1. PICK old : /\ Submit(c, <<row[c].key[1], "changed">>, 0, [approval EXCEPT ![c] = "MODIFIED"], old)
                   /\ \A d \in Calls : late'[d] = late[d] \/ (d = c /\ row'[c].st # "absent")
    BY <1>4, DeskSubmitMeans DEF Modify
  <2> DEFINE app == [approval EXCEPT ![c] = "MODIFIED"]
             k == <<row[c].key[1], "changed">>
  <2>2. /\ app \in [Calls -> {"none", "WAITING", "APPROVED", "MODIFIED", "REJECTED"}]
        /\ \A d \in Calls \ {c} : app[d] = approval[d]
        /\ app[c] # "none"
    BY <1>1
  <2>3. k \in Keys /\ k[1] = row[c].key[1]
    BY <1>1, KeysOfSteps
  <2>4. /\ Submit(c, k, 0, app, old)
        /\ \A d \in Calls : late'[d] = late[d] \/ (d = c /\ row'[c].st # "absent")
    BY <2>1
  <2> HIDE DEF k, app
  <2>5. Lived' /\ Leaves(c) /\ Carries(c)
    BY <1>1, <1>2, <2>2, <2>3, <2>4, SubmitLives
  <2> QED
    BY <1>2, <2>5
<1>5. CASE Reject(c)
  <2>1. /\ approval' = [approval EXCEPT ![c] = "REJECTED"]
        /\ row' = [row EXCEPT ![c].st = "CANCELLED"]
        /\ UNCHANGED <<record, job, results, late, putBack>>
    BY <1>5 DEF Reject
  <2>2. \A d \in Calls \ {c} : row'[d] = row[d] /\ approval'[d] = approval[d]
    BY <1>1, <2>1
  <2>3. approval'[c] = "REJECTED" /\ row'[c].st = "CANCELLED" /\ row'[c].key = row[c].key
    BY <1>1, <2>1
  <2>4. Leaves(c) /\ Carries(c)
    BY <1>2, <2>1, <2>2, <2>3 DEF Leaves, Carries, Sound, Shown, Decided
  <2>5. Unheard' /\ Open' /\ AtDesk' /\ Stored'
    BY <1>2, <2>1, <2>2, <2>3 DEF Lived, Unheard, Open, AtDesk, Stored, Decided
  <2>6. Owners'
    BY <2>1, <2>4 DEF Lived, Owners, Leaves, Carries
  <2>7. Paid'
    <3> SUFFICES ASSUME NEW k \in Keys, record[k].st = "SUCCESS" PROVE Sound(record[k].call)'
      BY <2>1 DEF Paid
    <3>1. PICK d : d = record[k].call
      OBVIOUS
    <3>2. d \in Calls /\ row[d].st # "absent" /\ Sound(d)
      BY <3>1 DEF Lived, Owners, Paid
    <3>3. record'[k].call = d /\ Sound(d)'
      BY <2>1, <2>4, <3>1, <3>2 DEF Leaves, Carries
    <3> QED
      BY <3>3 DEF Sound, Shown, Decided
  <2> QED
    BY <1>2, <2>4, <2>5, <2>6, <2>7 DEF Lived
<1> QED
  BY <1>3, <1>4, <1>5

\* The call the node holds is of the step at hand, and it is submitted a second
\* time only if it was asked about, or never submitted.
InHand ==
  pc \in Holding =>
    /\ row[hand.call].st # "absent" => /\ row[hand.call].key[1] = ck.index + 1
                                       /\ reviews = 0 => hand.key = row[hand.call].key
    /\ pc = "decide" /\ row[hand.call].st # "absent" => approval[hand.call] # "none"
    /\ pc = "branch" /\ got.outcome = "WAITING_HUMAN" => approval[hand.call] # "none"
    /\ pc = "published" => row[hand.call].st # "absent" /\ got.outcome = "ACCEPTED"

\* The answer names a call of the step at hand; one that is reused is done.
Answer ==
  /\ pc \in {"published", "branch", "recheck"} /\ got.call # NoCall =>
       row[got.call].st # "absent" /\ row[got.call].key[1] = ck.index + 1
  /\ pc = "branch" /\ got.outcome = "DEDUPLICATED" => got.call # NoCall /\ Sound(got.call)

Done ==
  \A s \in 1 .. ck.index :
    /\ ck.done[s] \in Calls
    /\ row[ck.done[s]].st # "absent" /\ row[ck.done[s]].key[1] = s
    /\ Sound(ck.done[s])

\* What holds for the agent survives a step of others.
LEMMA AgentStands ==
  ASSUME AgentTypeOK, Placed, InHand, Answer, Done, NEW c \in Calls, Leaves(c), Carries(c),
         UNCHANGED agentVars, reviews' = 0 => reviews = 0,
         row[c].st # "absent" \/ (pc \in Holding => hand.call # c)
  PROVE  InHand' /\ Answer' /\ Done'
<1>1. /\ ck' = ck /\ pc' = pc /\ hand' = hand /\ got' = got
      /\ got.call \in Calls \cup {NoCall}
      /\ pc \in Holding => hand.call \in Calls
  BY DEF agentVars, AgentTypeOK, Placed
<1>2. \A d \in Calls : row[d].st # "absent" =>
         /\ row'[d].st # "absent" /\ row'[d].key[1] = row[d].key[1]
         /\ reviews' = 0 => row'[d].key = row[d].key
         /\ approval[d] # "none" => approval'[d] # "none"
         /\ Sound(d) => Sound(d)'
  BY DEF Leaves, Carries
<1>3. \A d \in Calls \ {c} : row'[d] = row[d] /\ approval'[d] = approval[d]
  BY DEF Leaves
<1>4. InHand'
  <2> SUFFICES ASSUME pc \in Holding
               PROVE  /\ row'[hand.call].st # "absent" =>
                           /\ row'[hand.call].key[1] = ck.index + 1
                           /\ reviews' = 0 => hand.key = row'[hand.call].key
                      /\ pc = "decide" /\ row'[hand.call].st # "absent" => approval'[hand.call] # "none"
                      /\ pc = "branch" /\ got.outcome = "WAITING_HUMAN" => approval'[hand.call] # "none"
                      /\ pc = "published" => row'[hand.call].st # "absent" /\ got.outcome = "ACCEPTED"
    BY <1>1 DEF InHand, Holding
  <2>1. CASE hand.call = c
    BY <1>1, <1>2, <2>1 DEF InHand, Carries
  <2>2. CASE hand.call # c
    BY <1>1, <1>3, <2>2 DEF InHand
  <2> QED
    BY <2>1, <2>2
<1>5. Answer'
  <2>1. PICK d : d = got.call
    OBVIOUS
  <2>2. ASSUME pc = "branch", got.outcome = "DEDUPLICATED" PROVE d # NoCall /\ Sound(d)'
    BY <1>1, <1>2, <2>1, <2>2 DEF Answer
  <2> QED
    BY <1>1, <1>2, <2>1, <2>2 DEF Answer, Sound, Shown, Decided
<1>6. Done'
  <2> SUFFICES ASSUME NEW s \in 1 .. ck.index
               PROVE  /\ ck.done[s] \in Calls
                      /\ row'[ck.done[s]].st # "absent" /\ row'[ck.done[s]].key[1] = s
                      /\ ck.done[s] \in results'
                      /\ ~(reviews' # 0 /\ approval'[ck.done[s]] # "none") =>
                           \/ row'[ck.done[s]].st = "SUCCESS"
                           \/ row'[ck.done[s]].st = "PROCESSING" /\ ck.done[s] \in putBack'
    BY <1>1 DEF Done, Sound, Shown, Decided
  <2>1. PICK d : d = ck.done[s]
    OBVIOUS
  <2>2. d \in Calls /\ row[d].st # "absent" /\ row[d].key[1] = s /\ Sound(d)
    BY <2>1 DEF Done, Sound
  <2>3. Sound(d)' /\ row'[d].st # "absent" /\ row'[d].key[1] = s
    BY <1>2, <2>2
  <2> QED
    BY <2>1, <2>2, <2>3 DEF Sound, Shown, Decided
<1> QED
  BY <1>4, <1>5, <1>6

\* The steps of the caller and of the nodes that leave the platform alone.
LEMMA AloneKeeps ==
  ASSUME AgentTypeOK, Placed, Lived, InHand, Answer, Done, Alone,
         UNCHANGED <<platformVars, advice, budgetVars>>
  PROVE  InHand' /\ Answer' /\ Done'
<1>1. /\ UNCHANGED <<row, approval, reviews, results, putBack>>
      /\ ck \in Checkpoints /\ ck.index \in 0 .. PlanLength /\ PlanLength \in Nat
      /\ got.call \in Calls \cup {NoCall}
  BY AgentPlatformAssumption DEF platformVars, budgetVars, AgentTypeOK, Checkpoints
<1>2. CASE BranchWaits
  <2>1. ck' = ck /\ hand' = hand /\ got' = got /\ pc' \in {"recheck", "record"} /\ pc = "branch"
    BY <1>2 DEF BranchWaits, At
  <2> QED
    BY <1>1, <2>1 DEF InHand, Answer, Done, Sound, Shown, Decided, Holding
<1>3. CASE BranchAsksHuman
  <2>1. /\ ck' = ck /\ hand' = hand /\ got' = got /\ pc' \in {"decide", "record"}
        /\ pc = "branch" /\ got.outcome = "WAITING_HUMAN"
    BY <1>3 DEF BranchAsksHuman, At
  <2> QED
    BY <1>1, <2>1 DEF InHand, Answer, Done, Sound, Shown, Decided, Holding
<1>4. ASSUME pc' \notin Holding, ck'.index = 0 \/ (ck'.index = ck.index /\ ck'.done = ck.done)
      PROVE  InHand' /\ Answer' /\ Done'
  <2>1. InHand' /\ Answer'
    BY <1>4 DEF InHand, Answer, Holding
  <2>2. CASE ck'.index = 0
    BY <2>1, <2>2 DEF Done
  <2>3. CASE ck'.index = ck.index /\ ck'.done = ck.done
    BY <1>1, <2>1, <2>3 DEF Done, Sound, Shown, Decided
  <2> QED
    BY <1>4, <2>1, <2>2, <2>3
<1>5. ASSUME NEW c \in Calls, Complete(c), pc \in {"branch", "recheck"},
             row[c].st # "absent", row[c].key[1] = ck.index + 1, Sound(c)
      PROVE  InHand' /\ Answer' /\ Done'
  <2> DEFINE n == ck.index + 1
  <2>1. ck'.index = n /\ ck'.done = [ck.done EXCEPT ![n] = c] /\ pc' \in {"idle", "tool"}
    BY <1>1, <1>5 DEF Complete, Leave, Checkpoints
  <2>2. InHand' /\ Answer'
    BY <2>1 DEF InHand, Answer, Holding
  <2>3. \A s \in 1 .. n : s \in 1 .. ck.index \/ s = n
    BY <1>1
  <2>4. ck.done \in [Steps -> Calls \cup {NoCall}] /\ n \in Steps
    BY <1>1, <1>5 DEF Checkpoints, Placed, InNode, Steps
  <2>5. ck'.done[n] = c /\ \A s \in 1 .. ck.index : ck'.done[s] = ck.done[s]
    BY <1>1, <2>1, <2>4 DEF Steps
  <2>6. Done'
    <3> SUFFICES ASSUME NEW s \in 1 .. n
                 PROVE  /\ ck'.done[s] \in Calls
                        /\ row[ck'.done[s]].st # "absent" /\ row[ck'.done[s]].key[1] = s
                        /\ Sound(ck'.done[s])
      BY <1>1, <2>1 DEF Done, Sound, Shown, Decided
    <3>1. CASE s = n
      BY <1>5, <2>5, <3>1
    <3>2. CASE s \in 1 .. ck.index
      BY <2>5, <3>2 DEF Done
    <3> QED
      BY <2>3, <3>1, <3>2
  <2> QED
    BY <2>2, <2>6
<1>6. CASE BranchCompletes
  <2>1. Complete(got.call) /\ pc = "branch" /\ got.outcome = "DEDUPLICATED"
    BY <1>6 DEF BranchCompletes, At
  <2>2. /\ got.call \in Calls /\ row[got.call].st # "absent" /\ row[got.call].key[1] = ck.index + 1
        /\ Sound(got.call)
    BY <1>1, <2>1 DEF Answer
  <2> QED
    BY <1>5, <2>1, <2>2
<1>7. CASE RecheckCompletes
  <2>1. Complete(got.call) /\ pc = "recheck" /\ Query(got.call) = "SUCCESS"
    BY <1>7 DEF RecheckCompletes, At
  <2>2. got.call \in Calls /\ row[got.call].st = "SUCCESS"
    BY <1>1, <2>1 DEF Query
  <2>3. row[got.call].key[1] = ck.index + 1 /\ Sound(got.call)
    BY <2>1, <2>2, CallNumbers DEF Answer, Sound, Shown, Lived, Stored
  <2> QED
    BY <1>5, <2>1, <2>2, <2>3
<1>8. CASE Run
  BY <1>1, <1>4, <1>8 DEF Run, Leave, Checkpoints, Holding
<1>9. CASE Planner
  BY <1>1, <1>4, <1>9 DEF Planner, Leave, Checkpoints, Holding
<1>10. CASE ResumeTool \/ \E decision \in Decisions \ {"none"} : ResumeHuman(decision)
  BY <1>1, <1>4, <1>10 DEF ResumeTool, ResumeHuman, Checkpoints, Holding
<1>11. CASE BranchFails \/ DecideEnds \/ RecheckFails \/ RecordWait \/ RecheckWaits
  <2>1. pc' \notin Holding /\ ck'.index = ck.index /\ ck'.done = ck.done
    BY <1>1, <1>11 DEF BranchFails, DecideEnds, RecheckFails, RecordWait, RecheckWaits, Failed,
                       Leave, Checkpoints, Holding
  <2> QED
    BY <1>4, <2>1
<1> QED
  BY <1>2, <1>3, <1>6, <1>7, <1>8, <1>9, <1>10, <1>11 DEF Alone

\* A submission of the node.
LEMMA AskKeeps ==
  ASSUME TypeOK, Placed, Lived, InHand, Answer, Done, NEW old,
         ToolNodeSubmits(old) \/ DecideResubmits(old)
  PROVE  Lived' /\ InHand' /\ Answer' /\ Done'
<1>1. /\ PlatformTypeOK /\ AgentTypeOK /\ lastCall \in Nat /\ reviews \in Nat
      /\ approval \in [Calls -> {"none", "WAITING", "APPROVED", "MODIFIED", "REJECTED"}]
      /\ row \in [Calls -> [st : {"absent", "QUEUED", "PROCESSING", "SUCCESS", "FAILED",
                                  "WAITING_HUMAN", "CANCELLED"},
                            key : Keys]]
  <2>1. PlatformTypeOK /\ AgentTypeOK /\ BudgetTypeOK
    BY TypesParted
  <2> QED
    BY <2>1, CallNumbers, AgentRuntimeAssumption, SMTT(30) DEF PlatformTypeOK, BudgetTypeOK
<1>2. lastCall' \in Nat /\ pc \in InNode
  BY NodeSubmits
<1>3. PICK c \in Calls, k \in Keys, human \in BOOLEAN :
        /\ Ask(c, k, human, old)
        /\ k[1] = ck.index + 1 /\ c <= lastCall'
        /\ \/ c = lastCall + 1 /\ lastCall' = lastCall + 1
           \/ c = hand.call /\ k = hand.key /\ pc = "decide" /\ UNCHANGED lastCall
  BY NodeSubmits
<1>4. PICK att : Submit(c, k, att, approval, old) /\ got' = Reply(c, k, att, approval, old)
  BY <1>3 DEF Ask
<1>5. /\ ck' = ck /\ reviews' = reviews /\ late' = late
      /\ pc' = IF got'.outcome = "ACCEPTED" THEN "published" ELSE "branch"
      /\ hand' = [call |-> c, key |-> k, human |-> human]
  BY <1>3 DEF Ask, budgetVars
<1>7. /\ row[c].st # "absent" => /\ k[1] = row[c].key[1] /\ approval[c] # "none"
                                 /\ reviews = 0 => k = row[c].key
      /\ reviews = 0 => c \notin results
      /\ lastCall <= lastCall'
  <2>1. CASE c = lastCall + 1 /\ lastCall' = lastCall + 1
    BY <1>1, <2>1 DEF Lived, Unheard
  <2>2. CASE c = hand.call /\ k = hand.key /\ pc = "decide" /\ UNCHANGED lastCall
    BY <1>1, <1>3, <2>2 DEF InHand, Holding, Lived, AtDesk, Unheard
  <2> QED
    BY <1>3, <2>1, <2>2
<1>8. Lived' /\ Leaves(c) /\ Carries(c)
  <2>1. reviews \in Nat /\ reviews' \in Nat
    BY <1>1, <1>5
  <2> QED
    BY <1>1, <1>2, <1>3, <1>4, <1>5, <1>7, <2>1, SubmitLives
<1>9. /\ got'.outcome = "DEDUPLICATED" =>
           record[k].st = "SUCCESS" /\ got'.call = record[k].call /\ UNCHANGED <<row, approval>>
      /\ got'.outcome = "WAITING_HUMAN" => approval' = [approval EXCEPT ![c] = "WAITING"]
      /\ \/ got'.call = c /\ \E st \in {"QUEUED", "WAITING_HUMAN", "FAILED"} : Upsert(c, k, st)
         \/ got'.call = record[k].call /\ record[k].st # "absent"
      /\ got'.outcome = "ACCEPTED" => Upsert(c, k, "QUEUED")
  BY <1>1, <1>4, ReplyMeans
<1>10. row'[c] = row[c] \/ (row'[c].st # "absent" /\ row'[c].key = k)
  BY <1>1, <1>4, SubmitMarks DEF Upsert
<1>11. InHand'
  <2>1. row'[c].st # "absent" => row'[c].key[1] = ck.index + 1 /\ (reviews = 0 => k = row'[c].key)
    BY <1>3, <1>7, <1>10
  <2>2. got'.outcome = "WAITING_HUMAN" => approval'[c] # "none"
    BY <1>1, <1>9
  <2>3. got'.outcome = "ACCEPTED" => row'[c].st # "absent"
    BY <1>1, <1>9 DEF Upsert
  <2> QED
    BY <1>5, <2>1, <2>2, <2>3 DEF InHand
<1>12. \A d \in Calls : row[d].st # "absent" =>
         row'[d].st # "absent" /\ row'[d].key[1] = row[d].key[1]
  BY <1>8 DEF Leaves, Carries
<1>13. Answer'
  <2>1. PICK d : d = got'.call
    OBVIOUS
  <2>2. d # NoCall => row'[d].st # "absent" /\ row'[d].key[1] = ck.index + 1
    <3>1. CASE d = c /\ \E st \in {"QUEUED", "WAITING_HUMAN", "FAILED"} : Upsert(c, k, st)
      BY <1>1, <1>3, <3>1 DEF Upsert
    <3>2. CASE d = record[k].call /\ record[k].st # "absent"
      BY <1>3, <1>12, <3>2 DEF Lived, Owners
    <3> QED
      BY <1>9, <2>1, <3>1, <3>2
  <2>3. ASSUME got'.outcome = "DEDUPLICATED" PROVE d # NoCall /\ Sound(d)'
    <3>1. /\ record[k].st = "SUCCESS" /\ d = record[k].call
          /\ UNCHANGED <<row, approval, reviews, results, putBack>>
      BY <1>4, <1>5, <1>9, <2>1, <2>3 DEF Submit
    <3>2. d \in Calls /\ Sound(d)
      BY <3>1 DEF Lived, Owners, Paid, Sound, Shown, Decided
    <3> QED
      BY <3>1, <3>2, CallNumbers DEF Sound, Shown, Decided
  <2> QED
    BY <1>5, <2>1, <2>2, <2>3 DEF Answer, Sound, Shown, Decided
<1>14. Done'
  <2> SUFFICES ASSUME NEW s \in 1 .. ck.index
               PROVE  /\ ck.done[s] \in Calls
                      /\ row'[ck.done[s]].st # "absent" /\ row'[ck.done[s]].key[1] = s
                      /\ ck.done[s] \in results'
                      /\ ~(reviews' # 0 /\ approval'[ck.done[s]] # "none") =>
                           \/ row'[ck.done[s]].st = "SUCCESS"
                           \/ row'[ck.done[s]].st = "PROCESSING" /\ ck.done[s] \in putBack'
    BY <1>5 DEF Done, Sound, Shown, Decided
  <2>1. PICK d : d = ck.done[s]
    OBVIOUS
  <2>2. d \in Calls /\ row[d].st # "absent" /\ row[d].key[1] = s /\ Sound(d)
    BY <2>1 DEF Done, Sound
  <2>3. Sound(d)'
    BY <1>8, <2>2 DEF Leaves, Carries
  <2> QED
    BY <1>12, <2>1, <2>2, <2>3 DEF Sound, Shown, Decided
<1> QED
  BY <1>8, <1>11, <1>13, <1>14

LEMMA NextKeeps ==
  ASSUME TypeOK, Placed, Lived, InHand, Answer, Done, [Next]_vars
  PROVE  Lived' /\ InHand' /\ Answer' /\ Done'
<1>1. /\ PlatformTypeOK /\ AgentTypeOK /\ AdviceTypeOK /\ lastCall \in Nat /\ reviews \in Nat
      /\ approval \in [Calls -> {"none", "WAITING", "APPROVED", "MODIFIED", "REJECTED"}]
      /\ MaxCalls \in Nat
  <2>1. PlatformTypeOK /\ AgentTypeOK /\ AdviceTypeOK /\ BudgetTypeOK
    BY TypesParted
  <2>2. reviews \in Nat
    BY <2>1, AgentRuntimeAssumption DEF BudgetTypeOK
  <2>3. /\ lastCall \in Nat
        /\ approval \in [Calls -> {"none", "WAITING", "APPROVED", "MODIFIED", "REJECTED"}]
    BY <2>1, CallNumbers DEF PlatformTypeOK
  <2> QED
    BY <2>1, <2>2, <2>3, CallNumbers
<1>2. ASSUME UNCHANGED <<record, row, job, approval, lastCall, reviews, results, late, putBack>>
      PROVE  Lived'
  BY <1>2 DEF Lived, Unheard, Owners, Open, AtDesk, Asked, Paid, Sound, Shown, Decided, Stored
<1>3. CASE Alone
  <2>1. UNCHANGED <<platformVars, advice, budgetVars>>
    BY <1>3, NodeTyped DEF Alone
  <2> QED
    BY <1>1, <1>2, <1>3, <2>1, AloneKeeps DEF platformVars, budgetVars
<1>4. CASE ToolNodeDecided
  <2>1. /\ lastCall' = lastCall + 1 /\ pc' = "decide" /\ ck' = ck
        /\ UNCHANGED <<record, row, job, approval, reviews, results, late, putBack>>
        /\ hand'.call = lastCall + 1 /\ lastCall + 1 \in Calls
    BY <1>1, <1>4 DEF ToolNodeDecided, budgetVars, Calls
  <2>2. row[lastCall + 1].st = "absent"
    BY <1>1, <2>1 DEF Lived, Unheard
  <2>3. Lived'
    <3>1. \A d \in Calls : d > lastCall + 1 => d > lastCall
      BY <1>1, CallNumbers
    <3> QED
      BY <2>1, <3>1 DEF Lived, Unheard, Owners, Open, AtDesk, Asked, Paid, Sound, Shown, Decided,
                        Stored
  <2>4. InHand' /\ Answer'
    BY <2>1, <2>2 DEF InHand, Answer
  <2>5. Done'
    BY <2>1 DEF Done, Sound, Shown, Decided
  <2> QED
    BY <2>3, <2>4, <2>5
<1>5. ASSUME NEW old \in BOOLEAN, ToolNodeSubmits(old) \/ DecideResubmits(old)
      PROVE  Lived' /\ InHand' /\ Answer' /\ Done'
  BY <1>5, AskKeeps
<1>6. ASSUME NEW old \in BOOLEAN, ApplyResubmits(old) PROVE Lived' /\ InHand' /\ Answer' /\ Done'
  <2>1. PICK c, k, att : c = lastCall + 1 /\ k = advice.key /\ att = advice.att + 1
    OBVIOUS
  <2>2. /\ Submit(c, k, att, approval, old) /\ lastCall' = c /\ c \in Calls /\ k \in Keys
        /\ UNCHANGED agentVars /\ reviews' = reviews
        /\ \A d \in Calls : late'[d] = late[d] \/ (d = c /\ row'[c].st # "absent")
    <3>1. /\ DeskSubmit(c, k, att, approval, old) /\ lastCall' = c /\ lastCall < MaxCalls
          /\ UNCHANGED agentVars /\ reviews' = reviews
      BY <1>6, <2>1 DEF ApplyResubmits, budgetVars
    <3>2. c \in Calls /\ k \in Keys
      BY <1>1, <2>1, <3>1 DEF AdviceTypeOK, Calls
    <3> QED
      BY <1>1, <3>1, <3>2, DeskSubmitMeans
  <2>3. row[c].st = "absent" /\ c \notin results /\ lastCall <= c /\ (pc \in Holding => hand.call # c)
    BY <1>1, <2>1, <2>2, CallNumbers DEF Lived, Unheard, Placed
  <2>4. Lived' /\ Leaves(c) /\ Carries(c)
    <3>1. /\ c <= lastCall' /\ lastCall' \in Nat /\ lastCall <= lastCall'
          /\ reviews \in Nat /\ reviews' \in Nat
      BY <1>1, <2>1, <2>2
    <3> QED
      BY <1>1, <2>2, <2>3, <3>1, SubmitLives
  <2>5. \A d \in Calls \ {c} : row'[d] = row[d] /\ approval'[d] = approval[d]
    BY <2>4 DEF Leaves
  <2> QED
    BY <1>1, <2>2, <2>3, <2>4, AgentStands
<1>7. CASE PlanResume \/ UNCHANGED vars
  <2>1. UNCHANGED <<platformVars, agentVars, reviews>>
    BY <1>7 DEF PlanResume, vars, budgetVars
  <2> QED
    BY <1>2, <2>1 DEF platformVars, agentVars, InHand, Answer, Done, Sound, Shown, Decided
<1>8. CASE Crash
  <2>1. /\ UNCHANGED <<platformVars, reviews>> /\ pc' = "idle" /\ ck' = ck
    BY <1>8 DEF Crash, Leave
  <2> QED
    BY <1>2, <2>1 DEF platformVars, InHand, Answer, Done, Sound, Shown, Decided, Holding
<1>9. ASSUME NEW c \in Calls, PlatformMoves(c) PROVE Lived' /\ InHand' /\ Answer' /\ Done'
  <2>1. Lived' /\ Leaves(c) /\ Carries(c) /\ row[c].st # "absent"
    BY <1>1, <1>9, WorkerLives DEF PlatformMoves
  <2> QED
    BY <1>1, <1>9, <2>1, AgentStands DEF PlatformMoves
<1>10. ASSUME NEW c \in Calls, Reviewed(c) PROVE Lived' /\ InHand' /\ Answer' /\ Done'
  <2>1. Lived' /\ Leaves(c) /\ Carries(c) /\ row[c].st # "absent"
    BY <1>1, <1>10, ReviewLives DEF Reviewed
  <2>2. reviews' # 0
    BY <1>1, <1>10 DEF Reviewed
  <2> QED
    BY <1>1, <1>10, <2>1, <2>2, AgentStands DEF Reviewed
<1>11. ASSUME NEW c \in Calls, Marked(c) PROVE Lived' /\ InHand' /\ Answer' /\ Done'
  <2>1. /\ Mark(c) /\ late[c] > 0 /\ \A d \in Calls \ {c} : late'[d] = late[d]
        /\ UNCHANGED <<agentVars, reviews>>
    BY <1>1, <1>11 DEF Marked, DeskMarks, PlatformTypeOK
  <2>2. row[c].st # "absent"
    BY <2>1 DEF Lived, Unheard
  <2>3. Lived' /\ Leaves(c) /\ Carries(c)
    BY <1>1, <2>1, <2>2, MarkLives
  <2> QED
    BY <1>1, <2>1, <2>2, <2>3, AgentStands
<1>12. CASE AgentMarks
  <2>1. /\ Mark(hand.call) /\ UNCHANGED <<late, ck, hand, got, reviews>>
        /\ pc = "published" /\ pc' = "branch"
    BY <1>12 DEF AgentMarks, At, budgetVars
  <2>2. PICK c \in Calls : c = hand.call
    BY <1>1, <2>1 DEF Placed, Holding
  <2>3. row[c].st # "absent" /\ got.outcome = "ACCEPTED"
    BY <2>1, <2>2 DEF InHand, Holding
  <2>4. Lived' /\ Leaves(c) /\ Carries(c)
    BY <1>1, <2>1, <2>2, <2>3, MarkLives
  <2>5. \A d \in Calls : row[d].st # "absent" =>
           /\ row'[d].st # "absent" /\ row'[d].key = row[d].key
           /\ Sound(d) => Sound(d)'
    <3>1. row'[c].key = row[c].key
      BY <1>1, <2>1, <2>2 DEF Mark, PlatformTypeOK
    <3> QED
      BY <2>4, <3>1 DEF Leaves, Carries
  <2>6. InHand'
    BY <2>1, <2>2, <2>3, <2>5 DEF InHand, Holding
  <2>7. Answer'
    <3>1. got.call # NoCall => got.call \in Calls
      BY <1>1 DEF AgentTypeOK
    <3> QED
      BY <2>1, <2>3, <2>5, <3>1 DEF Answer
  <2>8. Done'
    <3> SUFFICES ASSUME NEW s \in 1 .. ck.index
                 PROVE  /\ ck.done[s] \in Calls
                        /\ row'[ck.done[s]].st # "absent" /\ row'[ck.done[s]].key[1] = s
                        /\ ck.done[s] \in results'
                        /\ ~(reviews' # 0 /\ approval'[ck.done[s]] # "none") =>
                             \/ row'[ck.done[s]].st = "SUCCESS"
                             \/ row'[ck.done[s]].st = "PROCESSING" /\ ck.done[s] \in putBack'
      BY <2>1 DEF Done, Sound, Shown, Decided
    <3>1. PICK d : d = ck.done[s]
      OBVIOUS
    <3>2. d \in Calls /\ row[d].st # "absent" /\ row[d].key[1] = s /\ Sound(d)
      BY <3>1 DEF Done, Sound
    <3>3. Sound(d)' /\ row'[d].st # "absent" /\ row'[d].key[1] = s
      BY <2>5, <3>2
    <3> QED
      BY <3>1, <3>2, <3>3 DEF Sound, Shown, Decided
  <2> QED
    BY <2>4, <2>6, <2>7, <2>8
<1> QED
  BY <1>3, <1>4, <1>5, <1>6, <1>7, <1>8, <1>9, <1>10, <1>11, <1>12, StepsSorted

LEMMA LivedAlways == Spec => [](TypeOK /\ Lived /\ Done)
<1>1. Init => TypeOK /\ Placed /\ Lived /\ InHand /\ Answer /\ Done
  <2> SUFFICES ASSUME Init PROVE Lived /\ InHand /\ Answer /\ Done
    BY InitTyped
  <2>1. Lived
    BY CallNumbers DEF Init, PlatformInit, NoRecord, Lived, Unheard, Owners, Open, AtDesk, Paid, Stored
  <2>2. InHand /\ Answer
    BY DEF Init, InHand, Answer, Holding
  <2>3. Done
    <3>1. \A s \in 1 .. 0 : FALSE
      OBVIOUS
    <3> QED
      BY <3>1 DEF Init, Done
  <2> QED
    BY <2>1, <2>2, <2>3
<1>2. TypeOK /\ Placed /\ Lived /\ InHand /\ Answer /\ Done /\ [Next]_vars
        => (TypeOK /\ Placed /\ Lived /\ InHand /\ Answer /\ Done)'
  BY NextTyped, NextKeeps
<1> QED
  BY <1>1, <1>2, PTL DEF Spec

\* A checkpoint never counts a step as done that no call of it did, after any
\* number of deaths of the agent and of workers, reruns, resubmissions and late
\* marks: the result of its call is stored, and the row of the call says so but
\* for the two writes DoneStepsSucceeded names (AgentRuntime._completed,
\* IdempotencyManager.decide, ToolGateway.submit).
THEOREM DoneMeansSuccess == Spec => []DoneStepsSucceeded
<1>1. TypeOK /\ Done => DoneStepsSucceeded
  <2> SUFFICES ASSUME TypeOK, Done, NEW s \in 1 .. ck.index
               PROVE  /\ ck.done[s] \in results /\ row[ck.done[s]].key[1] = s
                      /\ \/ row[ck.done[s]].st = "SUCCESS"
                         \/ row[ck.done[s]].st = "PROCESSING" /\ ck.done[s] \in putBack
                         \/ reviews > 0 /\ approval[ck.done[s]] # "none"
    BY DEF DoneStepsSucceeded
  <2>1. reviews \in Nat
    BY TypesParted, AgentRuntimeAssumption DEF BudgetTypeOK
  <2> QED
    BY <2>1 DEF Done, Sound, Shown, Decided
<1> QED
  BY <1>1, LivedAlways, PTL

===============================================================================
