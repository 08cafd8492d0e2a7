------------------------- MODULE DiagnosticKnowledge -------------------------
(***************************************************************************)
(* What the troubleshooting agent knows before it looks: the hypotheses    *)
(* and their priors, how likely each check is to report an anomaly under   *)
(* each of them, the thresholds of the conclusion gate, the workflow       *)
(* templates and the recovery ladder; and how a belief moves when a check  *)
(* reports.                                                                *)
(*                                                                         *)
(* A probability is a number of parts of Whole, rounded after every        *)
(* normalisation (the code has floats).  Priors and likelihoods are in     *)
(* percent.                                                                *)
(***************************************************************************)
EXTENDS Integers, FiniteSets, Sequences, SequencesExt

Whole == 2000
Percent(n) == (n * Whole) \div 100

Hypotheses == {"H_CONFIG", "H_ENV", "H_SOFTWARE", "H_CASE", "H_TOOL"}

Priors ==
  [ENVIRONMENT    |-> [H_ENV |-> 45, H_TOOL |-> 20, H_CONFIG |-> 15, H_SOFTWARE |-> 15, H_CASE |-> 5],
   CONFIG         |-> [H_ENV |-> 15, H_TOOL |-> 15, H_CONFIG |-> 55, H_SOFTWARE |-> 10, H_CASE |-> 5],
   TEST_CASE      |-> [H_ENV |-> 10, H_TOOL |-> 5,  H_CONFIG |-> 20, H_SOFTWARE |-> 15, H_CASE |-> 50],
   SOFTWARE       |-> [H_ENV |-> 20, H_TOOL |-> 15, H_CONFIG |-> 10, H_SOFTWARE |-> 50, H_CASE |-> 5],
   TOOL_EXECUTION |-> [H_ENV |-> 25, H_TOOL |-> 50, H_CONFIG |-> 5,  H_SOFTWARE |-> 15, H_CASE |-> 5],
   UNKNOWN        |-> [H_ENV |-> 22, H_TOOL |-> 20, H_CONFIG |-> 20, H_SOFTWARE |-> 20, H_CASE |-> 18]]

Categories == DOMAIN Priors

\* P(ANOMALY | hypothesis) of the read-only checks.
AnomalyLikelihood ==
  [inspect_config           |-> [H_CONFIG |-> 92, H_ENV |-> 15, H_SOFTWARE |-> 10, H_CASE |-> 20, H_TOOL |-> 10],
   check_environment_state  |-> [H_CONFIG |-> 10, H_ENV |-> 90, H_SOFTWARE |-> 20, H_CASE |-> 5,  H_TOOL |-> 25],
   analyze_logs             |-> [H_CONFIG |-> 45, H_ENV |-> 70, H_SOFTWARE |-> 85, H_CASE |-> 10, H_TOOL |-> 50],
   validate_case_definition |-> [H_CONFIG |-> 30, H_ENV |-> 10, H_SOFTWARE |-> 10, H_CASE |-> 88, H_TOOL |-> 5],
   inspect_tool_records     |-> [H_CONFIG |-> 20, H_ENV |-> 35, H_SOFTWARE |-> 30, H_CASE |-> 20, H_TOOL |-> 90],
   retrieve_raw_log         |-> [H_CONFIG |-> 35, H_ENV |-> 65, H_SOFTWARE |-> 80, H_CASE |-> 10, H_TOOL |-> 45],
   retrieve_failure_cases   |-> [H_CONFIG |-> 30, H_ENV |-> 30, H_SOFTWARE |-> 30, H_CASE |-> 30, H_TOOL |-> 30]]

Checks == DOMAIN AnomalyLikelihood

Recoveries ==
  [refresh_environment_state |-> [tier |-> "R1", permission |-> "recovery:refresh"],
   reallocate_environment    |-> [tier |-> "R2", permission |-> "recovery:reallocate"],
   rerun_test                |-> [tier |-> "R2", permission |-> "recovery:reallocate"],
   restart_device            |-> [tier |-> "R3", permission |-> "recovery:restart-device"],
   override_test_expectation |-> [tier |-> "R4", permission |-> "recovery:override-expectation"],
   create_defect_report      |-> [tier |-> "R1", permission |-> "recovery:refresh"]]

RecoveryActions == DOMAIN Recoveries

\* The recoveries that need the environment for themselves; no check does.
NeedsEnvironment ==
  {"refresh_environment_state", "reallocate_environment", "rerun_test", "restart_device"}

RecoveryLadder ==
  [H_ENV      |-> <<"refresh_environment_state", "reallocate_environment", "restart_device">>,
   H_TOOL     |-> <<"refresh_environment_state", "reallocate_environment">>,
   H_CONFIG   |-> <<>>,
   H_CASE     |-> <<>>,
   H_SOFTWARE |-> <<"create_defect_report">>]

\* The recoveries that APPROVAL_GRANTS lets a reviewer approve.
Grantable == {"restart_device"}

\* The thresholds of ConclusionPolicy.
AcceptProbability == Percent(75)
RefuteProbability == Percent(6)
MoveEpsilon       == Percent(8)
AttachEpsilon     == Percent(2)
DecisiveMove      == Percent(20)
MinSources        == 2

-----------------------------------------------------------------------------
(* Beliefs *)

\* Where the result of a check comes from: the check is run; or the cache
\* holds it, bare, with the evidence it once brought and that the evidence
\* store still keeps, or with ids of evidence the store has lost.
Origins == {"run", "bare", "kept", "lost"}

\* What the hypothesis manager holds: the priors, in percent, and the
\* posteriors; for every hypothesis the results whose evidence supports it; and
\* the hypotheses that some check spoke against, moved by MoveEpsilon or more,
\* or raised by DecisiveMove.
Minds ==
  [prior    : [Hypotheses -> 0 .. 95],
   belief   : [Hypotheses -> 0 .. Whole],
   support  : [Hypotheses -> SUBSET (Checks \X Origins)],
   contra   : SUBSET Hypotheses,
   moved    : SUBSET Hypotheses,
   decisive : SUBSET Hypotheses]

Total(weight) == weight["H_CONFIG"] + weight["H_ENV"] + weight["H_SOFTWARE"]
                 + weight["H_CASE"] + weight["H_TOOL"]

\* The share of a part in a total, in parts of Whole, rounded to the nearest.
Share(part, total) == (2 * part * Whole + total) \div (2 * total)

\* The weights scaled to sum to Whole.
Normalized(weight) == [h \in Hypotheses |-> Share(weight[h], Total(weight))]

Capped(prior, boost) == IF prior + boost < 95 THEN prior + boost ELSE 95

\* The mind a category starts with.  A verified case of the same signature
\* adds 35 to the prior of its cause; all are normalised at once.
Seeded(category, known) ==
  LET prior == [h \in Hypotheses |-> IF h \in known THEN Capped(Priors[category][h], 35)
                                                    ELSE Priors[category][h]]
  IN
  [prior    |-> prior,
   belief   |-> Normalized(prior),
   support  |-> [h \in Hypotheses |-> {}],
   contra   |-> {}, moved |-> {}, decisive |-> {}]

\* A stage of the trace that claimed success and was not verified raises the
\* prior of the hypothesis it hints at, and sets its belief to that prior.
Hinted(mind, h) ==
  LET raised == Capped(mind.prior[h], 25)
  IN  [mind EXCEPT !.prior[h] = raised,
                   !.belief = Normalized([@ EXCEPT ![h] = Percent(raised)])]

Likelihood(check, outcome, h) ==
  IF outcome = "ANOMALY" THEN AnomalyLikelihood[check][h] ELSE 100 - AnomalyLikelihood[check][h]

\* The beliefs after an observation, by Bayes' rule.
Posterior(mind, check, outcome) ==
  Normalized([h \in Hypotheses |-> mind.belief[h] * Likelihood(check, outcome, h)])

\* As if a cached result were evidence of its own.
UpdatedAlike(mind, check, outcome, origin) ==
  LET after == Posterior(mind, check, outcome)
      Change(h) == after[h] - mind.belief[h]
  IN  IF outcome \notin {"ANOMALY", "NORMAL"} THEN mind
      ELSE [mind EXCEPT
             !.belief   = after,
             !.support  = [h \in Hypotheses |->
                             IF Change(h) >= AttachEpsilon
                             THEN @[h] \cup {<<check, origin>>} ELSE @[h]],
             !.contra   = @ \cup {h \in Hypotheses : Change(h) <= -AttachEpsilon},
             !.moved    = @ \cup {h \in Hypotheses : \/ Change(h) >= MoveEpsilon
                                                     \/ Change(h) <= -MoveEpsilon},
             !.decisive = @ \cup {h \in Hypotheses : Change(h) >= DecisiveMove}]

\* One observation, and what it is evidence for: the evidence the check just
\* brought, or the ids that came with the cached result, known or not.
Updated(mind, check, outcome, origin) ==
  LET after == Posterior(mind, check, outcome)
      Change(h) == after[h] - mind.belief[h]
  IN  IF outcome \notin {"ANOMALY", "NORMAL"} THEN mind
      ELSE [mind EXCEPT
             !.belief   = after,
             !.support  = [h \in Hypotheses |->
                             IF Change(h) >= AttachEpsilon /\ origin # "bare"
                             THEN @[h] \cup {<<check, origin>>} ELSE @[h]],
             !.contra   = @ \cup {h \in Hypotheses : Change(h) <= -AttachEpsilon /\ origin # "bare"},
             !.moved    = @ \cup {h \in Hypotheses : \/ Change(h) >= MoveEpsilon
                                                     \/ Change(h) <= -MoveEpsilon},
             !.decisive = @ \cup {h \in Hypotheses : Change(h) >= DecisiveMove}]

Leader(mind) ==
  CHOOSE h \in Hypotheses : \A g \in Hypotheses : mind.belief[h] >= mind.belief[g]

Refuted(mind) == {h \in mind.contra : mind.belief[h] < RefuteProbability}

\* The checks that tell the hypotheses still standing apart.
Relevant(mind) ==
  {check \in Checks : \E g, h \in Hypotheses \ Refuted(mind) :
      AnomalyLikelihood[check][g] # AnomalyLikelihood[check][h]}

\* As if the priors could convict.
ArguableByPrior(mind) == mind.belief[Leader(mind)] >= AcceptProbability

\* The leader is likely enough and some check has moved it.
Arguable(mind) ==
  /\ mind.belief[Leader(mind)] >= AcceptProbability
  /\ Leader(mind) \in mind.moved

\* The checks whose evidence the store can show for a hypothesis.
Sources(mind, h) == {result[1] : result \in {r \in mind.support[h] : r[2] # "lost"}}

\* The conclusion gate: besides, two sources or one decisive check.
ConclusionReady(mind) ==
  /\ Arguable(mind)
  /\ \/ Cardinality(Sources(mind, Leader(mind))) >= MinSources
     \/ Leader(mind) \in mind.decisive

=============================================================================
