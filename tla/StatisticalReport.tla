-------------------------- MODULE StatisticalReport --------------------------
(***************************************************************************)
(* The readers of the four proofs: the enforcement of each of them         *)
(* (Scripts/statistical_main_evidence.py) and the consolidated report      *)
(* (Scripts/generate_statistical_consolidated_report.py), which loads the  *)
(* eleven sources, cross-checks them and applies one priority rule to      *)
(* their statuses. The two readers are written independently of each other *)
(* and of the scripts that write the proofs.                               *)
(*                                                                         *)
(* proofs is a record of the four proofs as they are on disk, or Absent.   *)
(* A diagnostic is a pair <<source, classification>>.                      *)
(***************************************************************************)
EXTENDS StatisticalParity, StatisticalDistribution, StatisticalCompatibility

VerdictPriority ==
  <<"infrastructure_error", "protocol_error", "invalid_evidence", "version_incompatibility",
    "engine_error", "normative_divergence", "interlanguage_divergence",
    "distributional_divergence", "statistically_inconclusive", "match">>

(* generator_failure_classifications *)
GeneratorFailures == {VerdictPriority[i] : i \in 1 .. 5}

(* consolidated_verdict *)
ReportVerdict(classes) ==
  VerdictPriority[CHOOSE i \in DOMAIN VerdictPriority :
                    /\ VerdictPriority[i] \in classes
                    /\ \A j \in 1 .. i - 1 : VerdictPriority[j] \notin classes]

-----------------------------------------------------------------------------
(* What every reader recomputes: parity_internal_issues ... *)
ParityIsCoherent(report, src) ==
  /\ \A c \in Case : report.cases[c].expected = src.corpus.expected[c]
  /\ report.summary = ParitySummary(report.cases, report.engines)
  /\ report.alignment.expected = src.probes.expected
  /\ report.status = ParityStatus(report.summary, report.alignment)

(* ... and exact_internal_issues. *)
ReplayIsCoherent(report, src) ==
  /\ \A c \in Case : /\ DOMAIN report.cases[c].batches = report.batches
                     /\ DOMAIN report.cases[c].inter = report.batches
                     /\ report.cases[c].independent =
                          \A b \in report.batches : report.cases[c].batches[b].status = "match"
  /\ report.independent = \A c \in Case : report.cases[c].independent
  /\ report.status = ReplayStatus(report.cases)
  /\ report.coverage = Coverage(src.corpus)

-----------------------------------------------------------------------------
(* The specialized readers: observed_statuses. Anything that no status names *)
(* is invalid evidence.                                                      *)
OrElse(statuses, report) ==
  IF statuses # {} THEN statuses
  ELSE {IF report.status = "match" THEN "match" ELSE "invalid_evidence"}

ParityStatuses(report) ==
  LET of(c) == {report.cases[c].python.status, report.cases[c].typescript.status}
      inter(c) == report.cases[c].inter.status
  IN OrElse(
       (IF "engine_error" \in {report.status, report.alignment.status}
          THEN {"engine_error"} ELSE {})
         \cup (IF \E c \in Case : "normative_divergence" \in of(c)
                 THEN {"normative_divergence"} ELSE {})
         \cup (IF \E c \in Case : inter(c) = "engine_divergence"
                 THEN {"interlanguage_divergence"} ELSE {})
         \cup (IF report.alignment.status = "divergence"
                 THEN {"validation_probe_divergence"} ELSE {}), report)

ReplayStatuses(report) ==
  OrElse((UNION {report.cases[c].outcomes : c \in Case}) \ {"match"}, report)

BatchingStatuses(report) ==
  {IF report.independent THEN "match" ELSE "batching_divergence"}

DistributionStatuses(evidence) ==
  IF evidence.status = "invalid" THEN {evidence.class}
  ELSE OrElse({d.class : d \in evidence.diagnostics}
                \cup (IF evidence.status = "divergence" THEN {"distributional_divergence"} ELSE {})
                \cup (IF evidence.status = "inconclusive" THEN {"statistically_inconclusive"} ELSE {}),
              evidence)

(* Faulty variant: only an error of the control itself is refused. *)
CompatibilityStatusesLenient(evidence) ==
  {IF evidence.status = "control_error" THEN "drift" ELSE "match"}

CompatibilityStatuses(evidence) ==
  {IF evidence.status = "match" THEN "match" ELSE "drift"}

(* _artifact_issues: a report that its schema refuses, or that does not      *)
(* agree with itself and with the sources of today, is no evidence.          *)
UsableParity(report, src) ==
  report # Absent /\ ~(report.status = "invalid_corpus") /\ ParityIsCoherent(report, src)
UsableReplay(report, src) ==
  /\ report # Absent /\ ~(report.status \in {"invalid_corpus", "invalid_configuration"})
  /\ ReplayIsCoherent(report, src)
UsableDistribution(evidence, src) ==
  evidence # Absent /\ EvidenceIsCoherent(evidence, src.protocol)

-----------------------------------------------------------------------------
(* load_sources: the files, their identity, their schema. *)
FileClass ==
  [missing |-> "invalid_evidence", unreadable |-> "infrastructure_error",
   invalid |-> "invalid_evidence", incompatible |-> "version_incompatibility",
   stale |-> "invalid_evidence"]

When(condition, source, class) == IF condition THEN {<<source, class>>} ELSE {}

Loaded(src, proofs) ==
  {<<f, FileClass[src.files[f]]>> : f \in {g \in DOMAIN src.files : src.files[g] # "valid"}}
    \cup When(~src.corpus.valid, "reference_corpus", "invalid_evidence")
    \cup When(~src.probes.valid, "validation_probes", "invalid_evidence")
    \cup When(~src.protocol.wellFormed, "distribution_protocol", "invalid_evidence")
    \cup When(IF proofs.parity = Absent THEN TRUE ELSE proofs.parity.status = "invalid_corpus",
              "deterministic_parity", "invalid_evidence")
    \cup When(IF proofs.exact = Absent THEN TRUE
              ELSE proofs.exact.status \in {"invalid_corpus", "invalid_configuration"},
              "exact_replay", "invalid_evidence")
    \cup When(proofs.distribution = Absent, "distribution_evidence", "invalid_evidence")
    \cup When(proofs.compatibility = Absent, "compatibility_evidence", "invalid_evidence")

Available(diagnostics, source) == \A d \in diagnostics : d[1] # source

(* validate_sources: a source is cross-checked against those that are        *)
(* themselves available, in this order.                                      *)
CrossProtocol(src, loaded) ==
  IF ~\A s \in {"distribution_protocol", "distribution_seed_population", "reference_corpus"} :
       Available(loaded, s) THEN {}
  ELSE When(~src.protocol.compatible, "distribution_protocol", "version_incompatibility")
         \cup When(~src.protocol.seeds, "distribution_seed_population", "invalid_evidence")
         \cup When(~(src.protocol.scenarios /\ ResolvesHolm(src.protocol)),
                   "distribution_protocol", "protocol_error")

CrossDistribution(src, evidence, known) ==
  IF (\E s \in {"distribution_evidence", "distribution_protocol",
                "distribution_seed_population"} : ~Available(known, s))
       \/ EvidenceIsCoherent(evidence, src.protocol) THEN {}
  ELSE {<<"distribution_evidence", "version_incompatibility">>}

CrossProofs(src, proofs, loaded) ==
  LET agree(source, authorities) ==
        Available(loaded, source) /\ \A a \in authorities : Available(loaded, a)
  IN When(/\ agree("deterministic_parity", {"reference_corpus", "validation_probes"})
          /\ ~ParityIsCoherent(proofs.parity, src), "deterministic_parity", "invalid_evidence")
       \cup When(/\ agree("exact_replay", {"reference_corpus"})
                 /\ ~ReplayIsCoherent(proofs.exact, src), "exact_replay", "invalid_evidence")
       \cup (IF ~Available(loaded, "compatibility_evidence") THEN {}
             ELSE CASE proofs.compatibility.status = "blocked" ->
                         {<<"compatibility_evidence", "version_incompatibility">>}
                    [] proofs.compatibility.status = "control_error" ->
                         {<<"compatibility_evidence", "invalid_evidence">>}
                    [] OTHER -> {})

Validated(src, proofs) ==
  LET loaded == Loaded(src, proofs)
      known == loaded \cup CrossProtocol(src, loaded)
  IN known \cup CrossProofs(src, proofs, loaded)
       \cup CrossDistribution(src, proofs.distribution, known)

(* validate_distribution reads the seed population of the evidence, which an *)
(* invalid evidence does not have: the exception is not caught.              *)
Crashes(src, proofs) ==
  LET loaded == Loaded(src, proofs)
  IN /\ proofs.distribution # Absent /\ proofs.distribution.status = "invalid"
     /\ \A s \in {"distribution_evidence", "distribution_protocol",
                  "distribution_seed_population"} :
          Available(loaded \cup CrossProtocol(src, loaded), s)

-----------------------------------------------------------------------------
(* parity_diagnostics, exact_diagnostics, distribution_diagnostics: what the *)
(* proofs themselves report, where they are available.                       *)
ParityFindings(report) ==
  LET statuses(c) == {report.cases[c].python.status, report.cases[c].typescript.status}
  IN (UNION {statuses(c) \cap {"engine_error", "normative_divergence"} : c \in Case})
       \cup (UNION {IF report.cases[c].inter.differences = {} THEN {}
                    ELSE {"interlanguage_divergence"} : c \in Case})
       \cup {"normative_divergence" : p \in {q \in Probe : report.alignment.cases[q] # "match"}}
       \cup ({report.alignment.engines[e] : e \in {"python", "typescript"}} \cap {"engine_error"})

Findings(proofs, validated) ==
  LET of(source, classes) == {source} \X (IF Available(validated, source) THEN classes ELSE {})
  IN of("deterministic_parity", ParityFindings(proofs.parity))
       \cup of("exact_replay", {d.class : d \in proofs.exact.diagnostics})
       \cup of("distribution_evidence", {d.class : d \in proofs.distribution.diagnostics})

(* The six levels of proof. *)
FirstOf(order, classes) ==
  order[CHOOSE i \in DOMAIN order :
          order[i] \in classes /\ \A j \in 1 .. i - 1 : order[j] \notin classes]

ParityLevel(report) ==
  IF report.summary.errors + report.summary.fatal > 0 THEN "engine_error"
  ELSE IF report.summary.normative > 0 THEN "normative_divergence"
  ELSE IF report.summary.engine > 0 THEN "interlanguage_divergence" ELSE "match"

ProbeLevel(report) ==
  IF report.alignment.status = "divergence" THEN "normative_divergence"
  ELSE report.alignment.status

ReplayLevel(report) ==
  FirstOf(<<"engine_error", "normative_divergence", "interlanguage_divergence", "match">>,
          UNION {report.cases[c].outcomes : c \in Case})

BatchLevel(report) ==
  LET statuses == {report.cases[c].batches[b].status : b \in Batch, c \in Case}
  IN IF statuses \cap {"engine_error", "normative_divergence"} # {}
       THEN FirstOf(<<"engine_error", "normative_divergence">>, statuses)
     ELSE IF report.independent THEN "match" ELSE "invalid_evidence"

DistributionLevel(evidence) ==
  CASE evidence.status = "invalid" -> evidence.class
    [] evidence.status = "divergence" -> "distributional_divergence"
    [] evidence.status = "inconclusive" -> "statistically_inconclusive"
    [] OTHER -> "match"

(* build_proof_levels: a source that is not available gives its own verdict. *)
Level(source, diagnostics, level) ==
  LET own == {d[2] : d \in {e \in diagnostics : e[1] = source}}
  IN IF own # {} THEN ReportVerdict(own) ELSE level

Levels(proofs, validated) ==
  [parity |-> Level("deterministic_parity", validated, ParityLevel(proofs.parity)),
   probes |-> Level("deterministic_parity", validated, ProbeLevel(proofs.parity)),
   exact |-> Level("exact_replay", validated, ReplayLevel(proofs.exact)),
   batching |-> Level("exact_replay", validated, BatchLevel(proofs.exact)),
   distribution |-> Level("distribution_evidence", validated,
                          DistributionLevel(proofs.distribution)),
   compatibility |-> Level("compatibility_evidence", validated, "match")]

(* The bytes that the report is about. *)
ReportSources(src, proofs) ==
  <<src.files, src.corpus, src.probes, src.protocol,
    proofs.parity, proofs.exact, proofs.distribution, proofs.compatibility>>

(* build_consolidated_report *)
ConsolidatedReport(src, proofs) ==
  LET validated == Validated(src, proofs)
      diagnostics == validated \cup Findings(proofs, validated)
      levels == Levels(proofs, validated)
  IN [sources |-> ReportSources(src, proofs),
      levels |-> levels, diagnostics |-> diagnostics,
      verdict |-> ReportVerdict({levels[l] : l \in DOMAIN levels} \cup {d[2] : d \in diagnostics})]

(* observed_statuses of the consolidated report. *)
ConsolidatedStatuses(report) == {report.verdict} \cup {d[2] : d \in report.diagnostics}
=============================================================================
