----------------------- MODULE StatisticalDistribution -----------------------
(***************************************************************************)
(* The distributional proof: Scripts/run_statistical_distribution.py runs  *)
(* the scenarios of a protocol with two disjoint cohorts of seeds, one per *)
(* engine, and decides with confidence regions and permutation tests       *)
(* whether the two engines draw from the same distributions.               *)
(*                                                                         *)
(* What the engines drew is given by one measure per metric: whether the   *)
(* structural values differ, or the effect, its region and the number of   *)
(* permutations at least as extreme. Effects, regions and margins are      *)
(* integers in a common unit whose total is One.                           *)
(***************************************************************************)
EXTENDS Integers, FiniteSets

CONSTANTS
  Metric,          \* the metrics of all the scenarios
  Scenario,
  ScenarioOf,      \* the scenario of each metric
  SourceCase,      \* the cases of the corpus that the scenarios are made from
  CohortBatch,     \* the batch size of the Python runs
  One,             \* the largest effect
  AlphaInverse,    \* 1 / familywise_alpha
  Failed           \* an engine that raises on a case

(* A measure has one of four kinds; only two of them carry a p-value.        *)
Inferential(measure) == measure.kind \in {"discrete_cdf", "rate_difference"}

LargestOf(S) == CHOOSE x \in S : \A y \in S : y <= x
Least(a, b) == IF a < b THEN a ELSE b

(* compare_count_blocks, compare_rate_blocks, exact_metric,                  *)
(* insufficient_metric: the upper end of the region of the effect.           *)
UpperEnd(measure) ==
  IF measure.kind = "discrete_cdf" THEN Least(One, measure.effect + measure.radius)
  ELSE LargestOf({measure.low, -measure.low, measure.high, -measure.high})

(* The region is within the margin. *)
Supported(measure) ==
  /\ measure.kind # "insufficient"
  /\ measure.kind = "exact_structural" => ~measure.mismatch
  /\ measure.kind # "exact_structural" => UpperEnd(measure) <= measure.margin

(* permutation_p_value, in units of 1 / (permutations + 1). *)
RawP(measure) == measure.extreme + 1

(* holm_adjust: the smaller p-values first, each times the number of those   *)
(* that remain, never below an adjusted one before it.                       *)
Adjusted(measures, m, permutations) ==
  LET tested == {k \in DOMAIN measures : Inferential(measures[k])}
      before(k) == {j \in tested : RawP(measures[j]) < RawP(measures[k])}
      step(k) == Least(permutations + 1,
                       (Cardinality(tested) - Cardinality(before(k))) * RawP(measures[k]))
  IN LargestOf({step(k) : k \in {j \in tested : RawP(measures[j]) <= RawP(measures[m])}})

Verdict(measures, m, permutations) ==
  LET measure == measures[m]
      rejected == /\ Inferential(measure)
                  /\ Adjusted(measures, m, permutations) * AlphaInverse <= permutations + 1
                  /\ measure.effect > measure.margin
  IN IF measure.kind = "exact_structural" /\ measure.mismatch THEN "divergence"
     ELSE IF Supported(measure) THEN "match"
     ELSE IF rejected THEN "divergence" ELSE "inconclusive"

(* aggregate_verdict *)
Aggregate(verdicts) ==
  IF "divergence" \in verdicts THEN "divergence"
  ELSE IF verdicts = {"match"} THEN "match" ELSE "inconclusive"

(* _finalize_scenarios, _distribution_diagnostics. *)
ScenarioVerdicts(verdicts) ==
  [s \in Scenario |-> Aggregate({verdicts[m] : m \in {k \in Metric : ScenarioOf[k] = s}})]

MetricDiagnostics(verdicts) ==
  {[metric |-> m, class |-> IF verdicts[m] = "divergence" THEN "distributional_divergence"
                            ELSE "statistically_inconclusive"] :
     m \in {k \in Metric : verdicts[k] # "match"}}

-----------------------------------------------------------------------------
(* _inference_issues: a permutation test must be able to reach the smallest  *)
(* threshold of Holm. In the protocol, structural scenarios are not tested.  *)
ResolvesHolm(protocol) ==
  protocol.permutations >= Cardinality(Metric \ protocol.structural) * AlphaInverse - 1

(* protocol_semantic_issues: the population of seeds is the one that its     *)
(* rule generates, the scenarios are those of the corpus, Holm is resolved.  *)
ProtocolIsCoherent(protocol) ==
  protocol.seeds /\ protocol.scenarios /\ ResolvesHolm(protocol)

(* validate_protocol_bundle: the schemas of the protocol and of its seeds    *)
(* first, then the versions, then the semantics.                             *)
ProtocolIssue(protocol) ==
  IF ~protocol.wellFormed THEN "protocol_error"
  ELSE IF ~protocol.compatible THEN "version_incompatibility"
  ELSE IF ~ProtocolIsCoherent(protocol) THEN "protocol_error" ELSE "none"

(* validate_engine_report: no case of a cohort may have failed. *)
CohortFails(results) == \E c \in SourceCase : results[c] = Failed

(* invalid_evidence: no scenario, no protocol, no seed population. *)
InvalidEvidence(class) ==
  [status |-> "invalid", class |-> class, verdicts |-> <<>>, scenarios |-> <<>>,
   diagnostics |-> {[metric |-> "none", class |-> class]}]

(* build_distribution_evidence *)
Evidence(src) ==
  LET verdicts == [m \in Metric |-> Verdict(src.measures, m, src.protocol.permutations)]
      scenarios == ScenarioVerdicts(verdicts)
  IN [status |-> Aggregate({scenarios[s] : s \in Scenario}), class |-> "none",
      verdicts |-> verdicts, scenarios |-> scenarios,
      diagnostics |-> MetricDiagnostics(verdicts), protocol |-> src.protocol]

(* run_control. The Python cohort runs first, then the bridge; the reports   *)
(* of the two engines are only read once both are there.                     *)
DistributionEvidence(src, down) ==
  IF ProtocolIssue(src.protocol) # "none" THEN InvalidEvidence(ProtocolIssue(src.protocol))
  ELSE IF "cohorts" \in down THEN InvalidEvidence("infrastructure_error")
  ELSE IF CohortFails(src.python.results[CohortBatch]) \/ CohortFails(src.typescript.results)
    THEN InvalidEvidence("engine_error")
  ELSE Evidence(src)

(* evidence_semantic_issues and distribution_protocol_alignment: the reader  *)
(* recomputes the verdict and wants the protocol of today.                   *)
EvidenceIsCoherent(evidence, protocol) ==
  /\ evidence.status # "invalid"
  /\ evidence.status = Aggregate({evidence.scenarios[s] : s \in DOMAIN evidence.scenarios})
  /\ evidence.protocol = protocol
=============================================================================
