-------------------------- MODULE Troubleshooting ----------------------------
(***************************************************************************)
(* The troubleshooting agent.  An incident is diagnosed in rounds: the     *)
(* conclusion gate, the budget, a plan, its validation, its checks, and    *)
(* the update of the beliefs; an identified cause is then recovered step   *)
(* by step up a ladder of actions, each followed by a rerun of the test    *)
(* once the environment is well; and what was learnt is kept for the next  *)
(* incident.  The agent is one thread; what is open is what the            *)
(* environment, the tools, the planner's ranking and the reviewer do.      *)
(***************************************************************************)
EXTENDS DiagnosticPlan

CONSTANTS MaxSteps,        \* Budget.max_steps
          MaxTries,        \* Budget.max_recovery_attempts
          PermissionSets,  \* the permissions a platform may be given
          Symptoms,        \* what incidents look like: the category, the
                           \* hypotheses the trace hints at, in order, and
                           \* what the cache of the incident holds
          MaxIncidents,    \* bound on the incidents of one agent
          MaxMisses        \* bound on the checks of one incident that say nothing

ASSUME AgentLimits ==
  /\ MaxSteps \in Nat \ {0} /\ MaxTries \in Nat
  /\ MaxIncidents \in Nat /\ MaxMisses \in Nat
  /\ Symptoms \subseteq Categories \X Seq(Hypotheses) \X Memories

VARIABLES
  permissions, \* what the platform may do
  approved,    \* RecoveryController.approved_actions: outlive the incident
  cases,       \* the experience: the status of the case of each cause
  incidents,   \* how many incidents were opened
  phase,       \* where the agent is
  hints,       \* the hypotheses the trace hints at, still to be taken up
  category,    \* the classification of the incident
  cache,       \* cached_checks of its context: earlier results of the checks
  mind,        \* the hypothesis manager
  steps, calls, tries,  \* BudgetUsage
  misses,      \* checks that said nothing
  executed,    \* executed_skills
  todo,        \* the nodes of the plan still to run, a set
  seen,        \* the observations of the round: check, outcome, origin
  world,       \* the status of the environment; INCONCLUSIVE: nothing can be read
  tried,       \* attempted_recoveries
  acted,       \* the actions of them that were carried out
  terminal     \* the terminal state, or NONE

platform == <<permissions, approved, cases, incidents>>
context  == <<category, cache>>
usage    == <<steps, calls, tries>>
incidentVars == <<platform, phase, hints, context, mind, usage, misses, executed, todo, seen,
                  world, tried, acted, terminal>>

Phases == {"idle", "trace", "round", "checks", "recovery", "rerun", "final", "crashed"}
Terminals == {"NONE", "RESOLVED", "ROOT_CAUSE_IDENTIFIED", "UNRESOLVED",
              "NEEDS_HUMAN", "INVALID_INPUT"}
Outcomes == {"ANOMALY", "NORMAL", "INCONCLUSIVE", "TIMED_OUT", "FAILED"}
Statuses == {"NONE", "CANDIDATE", "VERIFIED"}

Verified == {h \in Hypotheses : cases[h] = "VERIFIED"}
Fresh == Seeded("UNKNOWN", {})

IncidentInit ==
  /\ permissions \in PermissionSets
  /\ approved = {}
  /\ cases = [h \in Hypotheses |-> "NONE"]
  /\ incidents = 0
  /\ phase = "idle" /\ hints = <<>> /\ category = "UNKNOWN" /\ cache = Blank /\ mind = Fresh
  /\ steps = 0 /\ calls = 0 /\ tries = 0 /\ misses = 0
  /\ executed = {} /\ todo = {} /\ seen = <<>>
  /\ world = "READY" /\ tried = <<>> /\ acted = <<>>
  /\ terminal = "NONE"

\* troubleshoot() returns, or raises: its DiagnosisState is gone.
Returns ==
  /\ phase' = "idle" /\ hints' = <<>> /\ category' = "UNKNOWN" /\ cache' = Blank /\ mind' = Fresh
  /\ steps' = 0 /\ calls' = 0 /\ tries' = 0 /\ misses' = 0
  /\ executed' = {} /\ todo' = {} /\ seen' = <<>>
  /\ world' = "READY" /\ tried' = <<>> /\ acted' = <<>>
  /\ terminal' = "NONE"

-----------------------------------------------------------------------------
(* The diagnosis *)

Closes(result) == phase' = "final" /\ terminal' = result

\* troubleshoot() begins: all of DiagnosisState is new, and the cache comes
\* with the incident; verified cases are used when they fit it and experience
\* is wanted.
Start ==
  /\ phase = "idle" /\ incidents < MaxIncidents
  /\ incidents' = incidents + 1
  /\ world' \in {"READY", "NOT_READY", "INCONCLUSIVE"}
  /\ \/ /\ \E symptom \in Symptoms, known \in {{}, Verified} :
              /\ category' = symptom[1]
              /\ hints' = symptom[2]
              /\ cache' = symptom[3]
              /\ mind' = Seeded(symptom[1], known)
        /\ phase' = "trace" /\ UNCHANGED terminal
     \/ Closes("INVALID_INPUT") /\ UNCHANGED <<hints, context, mind>>
  /\ UNCHANGED <<permissions, approved, cases, usage, misses, executed, todo, seen, tried, acted>>

\* The hints of the trace are taken up one by one, before the first round.
TakesHint ==
  /\ phase = "trace"
  /\ IF hints # <<>>
     THEN /\ mind' = Hinted(mind, Head(hints)) /\ hints' = Tail(hints)
          /\ UNCHANGED phase
     ELSE phase' = "round" /\ UNCHANGED <<hints, mind>>
  /\ UNCHANGED <<platform, context, usage, misses, executed, todo, seen, world, tried, acted, terminal>>

\* The cause is known; whether it is also cured is judged anew.
Identifies == phase' = "recovery" /\ UNCHANGED terminal

Unplanned == UNCHANGED <<platform, hints, context, mind, usage, misses, executed, todo, seen,
                         world, tried, acted>>

\* The conclusion gate opens.
Concludes ==
  /\ phase = "round" /\ ConclusionReady(mind)
  /\ Identifies
  /\ Unplanned

Exhausted == calls >= MaxToolCalls \/ tries >= MaxTries

\* The calls are used up, or the time is: any round after the first.
RunsOut ==
  /\ phase = "round" /\ ~ ConclusionReady(mind)
  /\ Exhausted \/ steps > 0
  /\ Closes("UNRESOLVED")
  /\ Unplanned

Plans == phase = "round" /\ ~ ConclusionReady(mind) /\ ~ Exhausted

Run(plan) ==
  /\ todo' = Scheduled(plan)
  /\ seen' = <<>>
  /\ phase' = "checks"
  /\ UNCHANGED <<platform, hints, context, mind, usage, misses, executed, world, tried, acted, terminal>>

Unexecuted == Relevant(mind) \ executed

\* build_dynamic with one node.  Which check ranks first, and whether its
\* gain is worth a call, is left open.
FallsBack ==
  \/ \E check \in Unexecuted : Run(Single(check))
  \/ Closes("UNRESOLVED") /\ Unplanned

\* The plan is run if the validator accepts it, what is left of it if not;
\* when nothing is left the planner's own single check is run as it is.
Adopt(plan) ==
  \/ IsValid(plan, permissions, calls) /\ Run(plan)
  \/ /\ ~ IsValid(plan, permissions, calls)
     /\ LET rest == Sanitized(plan, permissions, calls)
        IN  IF rest # {} THEN Run(rest) ELSE FallsBack

\* Templates are for the first round.
PlansByTemplate ==
  /\ Plans /\ steps = 0 /\ Template(category) # {}
  /\ Adopt(Trimmed(Template(category), cache))

\* A model's plan that is valid is taken; else the planner chooses a check.
PlansByModel ==
  /\ Plans
  /\ \E style \in DOMAIN Proposals :
       IsValid(Proposals[style], permissions, calls) /\ Adopt(Proposals[style])

PlansDynamically ==
  /\ Plans
  /\ \E check \in Unexecuted : Adopt(Single(check))

\* Nothing left to look at: the leader stands if some check has moved it.
HasNoPlan ==
  /\ Plans
  /\ IF Arguable(mind) THEN Identifies ELSE Closes("UNRESOLVED")
  /\ Unplanned

\* What a check may report.  A tool may fail, or answer past its time.
Reports(node) ==
  IF world = "INCONCLUSIVE" THEN {"INCONCLUSIVE"}
  ELSE (IF misses < MaxMisses THEN {"INCONCLUSIVE", "TIMED_OUT", "FAILED"} ELSE {})
       \cup (IF node.skill = "check_environment_state"
             THEN {IF world = "READY" THEN "NORMAL" ELSE "ANOMALY"}
             ELSE {"ANOMALY", "NORMAL"})

RunNode ==
  /\ phase = "checks"
  /\ \E node \in todo :
       /\ IsNext(node, todo)
       /\ todo' = todo \ {node}
       /\ IF node.origin # "run"
          THEN /\ \E outcome \in {"ANOMALY", "NORMAL", "INCONCLUSIVE"} :
                    seen' = Append(seen, <<node.skill, outcome, node.origin>>)
               /\ UNCHANGED <<calls, misses>>
          ELSE \E outcome \in Reports(node) :
                 /\ seen' = Append(seen, <<node.skill, outcome, "run">>)
                 /\ calls' = IF outcome = "FAILED" THEN calls ELSE calls + 1
                 /\ misses' = IF outcome \in {"ANOMALY", "NORMAL"} \/ world = "INCONCLUSIVE"
                              THEN misses ELSE misses + 1
  /\ UNCHANGED <<platform, phase, hints, context, mind, steps, tries, executed, world, tried, acted, terminal>>

\* When all nodes have run their observations are taken in one by one; a
\* check that failed or came late is not an observation.
Learn ==
  /\ phase = "checks" /\ todo = {} /\ seen # <<>>
  /\ LET check == Head(seen)[1]
         outcome == Head(seen)[2]
         origin == Head(seen)[3]
     IN  /\ mind' = Updated(mind, check, outcome, origin)
         /\ executed' = IF origin # "run" \/ outcome \in {"FAILED", "TIMED_OUT"}
                        THEN executed ELSE executed \cup {check}
  /\ seen' = Tail(seen)
  /\ UNCHANGED <<platform, phase, hints, context, usage, misses, todo, world, tried, acted, terminal>>

\* After the last allowed round nothing is judged any more.
EndRound ==
  /\ phase = "checks" /\ todo = {} /\ seen = <<>>
  /\ steps' = steps + 1
  /\ IF steps' < MaxSteps
     THEN phase' = "round" /\ UNCHANGED terminal
     ELSE phase' = "final" /\ terminal' = "UNRESOLVED"
  /\ UNCHANGED <<platform, hints, context, mind, calls, tries, misses, executed, todo, seen, world, tried, acted>>

-----------------------------------------------------------------------------
(* The recovery *)

Ladder == RecoveryLadder[Leader(mind)]

Stays == UNCHANGED <<permissions, cases, incidents, hints, context, mind, steps, misses,
                     executed, todo, seen>>

\* No evidence, or no action for the cause, or none left.
Declines ==
  /\ phase = "recovery"
  /\ mind.support[Leader(mind)] = {} \/ ToSet(Ladder) \subseteq ToSet(tried)
  /\ Closes(IF mind.support[Leader(mind)] = {} THEN "NEEDS_HUMAN" ELSE "ROOT_CAUSE_IDENTIFIED")
  /\ Stays /\ UNCHANGED <<approved, calls, tries, world, tried, acted>>

\* The first action of the ladder that was not tried.
Proposed(action) ==
  /\ phase = "recovery"
  /\ mind.support[Leader(mind)] # {}
  /\ \E i \in DOMAIN Ladder :
       /\ action = Ladder[i] /\ action \notin ToSet(tried)
       /\ \A j \in 1 .. i - 1 : Ladder[j] \in ToSet(tried)

Affordable == tries < MaxTries

NeedsApproval(action) == Recoveries[action].tier = "R3" /\ action \notin approved

\* Approved by the evaluation: within the budget, and approved, harmless or
\* permitted as the action's tier asks.
Allowed(action) ==
  /\ Affordable
  /\ CASE Recoveries[action].tier = "R1" -> TRUE
       [] Recoveries[action].tier = "R2" -> Recoveries[action].permission \in permissions
       [] Recoveries[action].tier = "R3" -> action \in approved
       [] OTHER -> FALSE

\* A reviewer is asked.  With auto_approve the answer is yes, for good.
AsksApproval ==
  \E action \in Grantable :
    /\ Proposed(action) /\ Affordable /\ NeedsApproval(action)
    /\ \/ approved' = approved \cup {action} /\ UNCHANGED <<phase, terminal>>
       \/ Closes("NEEDS_HUMAN") /\ UNCHANGED approved
    /\ Stays /\ UNCHANGED <<calls, tries, world, tried, acted>>

\* The budget is used up or the permission is missing.
IsDenied ==
  \E action \in RecoveryActions :
    /\ Proposed(action)
    /\ ~ Allowed(action) /\ ~ (Affordable /\ NeedsApproval(action))
    /\ tried' = Append(tried, action)
    /\ Closes("NEEDS_HUMAN")
    /\ Stays /\ UNCHANGED <<approved, calls, tries, world, acted>>

\* What the environment may be after an action.
EnvironmentAfter(action) ==
  IF action = "refresh_environment_state" THEN {world} ELSE {world, "READY"}

\* The action is carried out; when the environment is then well the test is
\* run again.  (An action without effect is recorded, and the record never read.)
Recovers ==
  \E action \in RecoveryActions \ {"create_defect_report"} :
    /\ Proposed(action) /\ Allowed(action)
    /\ acted' = Append(acted, action)
    /\ calls' = calls + 1 /\ tries' = tries + 1
    /\ world' \in EnvironmentAfter(action)
    /\ tried' = Append(tried, action)
    /\ IF world' = "READY"
       THEN phase' = "rerun"
       ELSE UNCHANGED phase
    /\ Stays /\ UNCHANGED <<approved, terminal>>

\* A tool that fails is not counted, and the action not tried again.
RecoveryToolFails ==
  \E action \in RecoveryActions :
    /\ Proposed(action) /\ Allowed(action)
    /\ acted' = Append(acted, action)
    /\ tried' = Append(tried, action)
    /\ Stays /\ UNCHANGED <<approved, phase, calls, tries, world, terminal>>

\* The defect is reported, but the evidence of it has nothing to point back
\* to and is refused: the exception ends troubleshoot().
ReportsDefect ==
  /\ Proposed("create_defect_report") /\ Allowed("create_defect_report")
  /\ acted' = Append(acted, "create_defect_report")
  /\ calls' = calls + 1 /\ tries' = tries + 1
  /\ phase' = "crashed"
  /\ Stays /\ UNCHANGED <<approved, world, tried, terminal>>

\* The test is run again on an environment that is well.
Reruns ==
  /\ phase = "rerun"
  /\ calls' = calls + 1 /\ tries' = tries + 1
  /\ \/ phase' = "final" /\ terminal' = "RESOLVED"
     \/ phase' = "recovery" /\ UNCHANGED terminal
  /\ Stays /\ UNCHANGED <<approved, world, tried, acted>>

-----------------------------------------------------------------------------
(* What is kept *)

\* As if a candidate could take the place of a verified case.
ExtractedAnew ==
  IF terminal \in {"INVALID_INPUT", "UNRESOLVED"} THEN cases
  ELSE [cases EXCEPT ![Leader(mind)] = IF terminal = "RESOLVED" THEN "VERIFIED" ELSE "CANDIDATE"]

\* extract(): a resolved incident makes a verified case, an identified one a
\* candidate; a verified case replaces a candidate of the same signature.
Extracted ==
  LET h == Leader(mind)
      status == IF terminal = "RESOLVED" THEN "VERIFIED" ELSE "CANDIDATE"
  IN  IF \/ terminal \in {"INVALID_INPUT", "UNRESOLVED"}
         \/ cases[h] = "VERIFIED"
         \/ cases[h] = status
      THEN cases
      ELSE [cases EXCEPT ![h] = status]

\* As if a conclusion with too little evidence for a case were an error.
FinalizeWithEvidence ==
  /\ phase = "final"
  /\ \/ cases' = Extracted
     \/ UNCHANGED cases
  /\ terminal = "UNRESOLVED" \/ Cardinality(Sources(mind, Leader(mind))) >= 2
  /\ Returns
  /\ UNCHANGED <<permissions, approved, incidents>>

\* The evidence of the conclusion, with that of the trace, has to be two
\* pieces with one of them raw; two checks the store has evidence of always
\* bring that, evidence that is lost is not raw.
Finalize ==
  /\ phase = "final"
  /\ \/ cases' = Extracted
     \/ Cardinality(Sources(mind, Leader(mind))) < 2 /\ UNCHANGED cases
  /\ Returns
  /\ UNCHANGED <<permissions, approved, incidents>>

\* The caller of a run that raised goes on with the next incident.
Abandon ==
  /\ phase = "crashed"
  /\ Returns
  /\ UNCHANGED platform

Diagnose == TakesHint \/ Concludes \/ RunsOut \/ PlansByTemplate \/ PlansByModel
            \/ PlansDynamically \/ HasNoPlan \/ RunNode \/ Learn \/ EndRound
Recover == Declines \/ AsksApproval \/ IsDenied \/ Recovers \/ RecoveryToolFails
           \/ ReportsDefect \/ Reruns
IncidentNext == Start \/ Diagnose \/ Recover \/ Finalize \/ Abandon

\* A run, once begun, is carried through by its one thread.
IncidentFairness ==
  /\ WF_incidentVars(Diagnose) /\ WF_incidentVars(Recover)
  /\ WF_incidentVars(Finalize) /\ WF_incidentVars(Abandon)

IncidentSpec == IncidentInit /\ [][IncidentNext]_incidentVars /\ IncidentFairness

-----------------------------------------------------------------------------
(* Properties *)

Nodes == [id : Nat, skill : Checks, deps : SUBSET Nat, from : Nat, origin : Origins,
          layer : Nat]

\* Every variable has a value of its kind: the beliefs stay within the whole
\* through every rounding, and what a plan runs is checks only, never a
\* recovery or a skill nobody knows, also after the validator's cuts.
IncidentTypeOK ==
  /\ phase \in Phases /\ terminal \in Terminals /\ category \in Categories
  /\ hints \in Seq(Hypotheses) /\ mind \in Minds
  /\ cases \in [Hypotheses -> Statuses]
  /\ {steps, calls, tries, misses, incidents} \subseteq Nat
  /\ executed \subseteq Checks /\ approved \subseteq Grantable
  /\ cache \in Memories
  /\ todo \subseteq Nodes /\ seen \in Seq(Checks \X Outcomes \X Origins)
  /\ tried \in Seq(RecoveryActions) /\ acted \in Seq(RecoveryActions)
  /\ world \in {"READY", "NOT_READY", "INCONCLUSIVE"}

\* The agent has named a cause.
Named ==
  \/ phase \in {"recovery", "rerun", "crashed"}
  \/ terminal \in {"RESOLVED", "ROOT_CAUSE_IDENTIFIED", "NEEDS_HUMAN"}

\* No cause is named on priors, experience and hints alone, however high they
\* put it: the cause that is named has the belief the gate asks for, and some
\* check of this incident, fresh or remembered, has moved that very belief, on
\* both ways to a conclusion (conclusion_ready and the branch without a plan).
ConclusionIsWarranted ==
  Named => LET h == Leader(mind)
           IN  /\ mind.belief[h] >= AcceptProbability
               /\ h \in mind.moved
               /\ steps > 0

\* The evidence there may be in an incident: of the checks that were run and
\* said something, and of those whose cached results came with evidence.
Evidence ==
  {result \in Checks \X Origins :
     CASE result[2] = "run"  -> result[1] \in executed
       [] result[2] = "bare" -> FALSE
       [] OTHER -> result[1] \in Cacheable /\ cache[result[1]] = result[2]}

\* The environment is touched only for a cause that evidence speaks for: of a
\* check run in this incident, or handed over with a cached result, never a
\* bare one, a hint or an experience (the gate of evaluate()); only by the
\* actions of that cause's ladder from the mildest on and none of them twice;
\* and by each only as its tier asks: permitted (R2) or approved (R3), in this
\* incident or an earlier one.
RecoveryIsEarned ==
  acted # <<>> =>
    LET h == Leader(mind)
    IN  /\ mind.support[h] # {} /\ mind.support[h] \subseteq Evidence
        /\ IsPrefix(acted, RecoveryLadder[h])
        /\ \A a \in ToSet(acted) :
             CASE Recoveries[a].tier = "R1" -> TRUE
               [] Recoveries[a].tier = "R2" -> Recoveries[a].permission \in permissions
               [] Recoveries[a].tier = "R3" -> a \in approved
               [] OTHER -> FALSE

\* No round starts a plan it cannot pay for, also when nodes were cut or the
\* planner's unvalidated check stands in; a recovery overdraws its budget by
\* one rerun at most.
BudgetHolds ==
  /\ phase \in {"round", "checks"} => calls + Cardinality({n \in todo : n.origin = "run"}) <= MaxToolCalls
  /\ tries <= MaxTries + 1
  /\ calls <= MaxToolCalls + tries

\* A case becomes verified only by an incident of the same cause whose test
\* passed again in an environment that is well, and stays so.
ExperienceIsVerified ==
  [][\A h \in Hypotheses :
       cases'[h] # cases[h] =>
         /\ cases[h] # "VERIFIED"
         /\ h = Leader(mind)
         /\ cases'[h] = "VERIFIED" => terminal = "RESOLVED" /\ world = "READY"
         /\ h \in mind.moved]_incidentVars

\* Every incident that is opened is closed.
IncidentEnds == phase # "idle" ~> phase = "idle"

=============================================================================
