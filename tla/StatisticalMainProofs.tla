----------------------- MODULE StatisticalMainProofs -----------------------
(* What StatisticalMain guarantees for every source tree and every edit.   *)
EXTENDS StatisticalMain, FiniteSetTheorems, SequenceTheorems, TLAPS

(***************************************************************************)
(* The documents: what a proof that is made from src says of src.          *)
(***************************************************************************)

(* Two records that compare as the same are the same. *)
LEMMA SameRecord ==
  ASSUME NEW e, NEW a, IsRecord(e), IsRecord(a), CompareCanonical(e, a) = {}
  PROVE  e = a
<1> DEFINE d(f, k) == [path |-> f, kind |-> k]
           fields == DOMAIN e \cup DOMAIN a
<1>1. \A f \in fields : f \in DOMAIN e /\ f \in DOMAIN a /\ e[f] = a[f]
  <2> SUFFICES ASSUME NEW f \in fields, ~(f \in DOMAIN e /\ f \in DOMAIN a /\ e[f] = a[f])
               PROVE  FALSE
    OBVIOUS
  <2>1. CASE f \notin DOMAIN a
    <3>1. d(f, "missing_actual") \in CompareCanonical(e, a)
      BY <2>1 DEF CompareCanonical
    <3> QED BY <3>1
  <2>2. CASE f \in DOMAIN a /\ f \notin DOMAIN e
    <3>1. d(f, "unexpected_actual") \in CompareCanonical(e, a)
      BY <2>2 DEF CompareCanonical
    <3> QED BY <3>1
  <2>3. CASE f \in DOMAIN a /\ f \in DOMAIN e /\ e[f] # a[f]
    <3>1. d(f, "value_mismatch") \in CompareCanonical(e, a)
      BY <2>3 DEF CompareCanonical
    <3> QED BY <3>1
  <2> QED BY <2>1, <2>2, <2>3
<1>2. DOMAIN e = DOMAIN a
  BY <1>1
<1> QED BY <1>1, <1>2 DEF IsRecord

(* An answer that matches the corpus is the answer of the corpus. *)
LEMMA MatchIsTheAnswer ==
  ASSUME NEW expected, NEW outcome, NEW c \in Case,
         IsRecord(expected), outcome[c] = Raised \/ IsRecord(outcome[c]),
         Normative(expected, EngineCases(outcome)[c]).status = "match"
  PROVE  outcome[c] = expected
<1> DEFINE case == EngineCases(outcome)[c]
           differences == CompareCanonical(expected, case.result)
<1>1. case.status = "ok" /\ differences = {}
  <2>1. case.status # "ok" => Normative(expected, case).status = "engine_error"
    BY DEF Normative
  <2>2. case.status = "ok" =>
          Normative(expected, case).status = IF differences = {} THEN "match" ELSE "normative_divergence"
    BY DEF Normative
  <2> QED BY <2>1, <2>2
<1>2. outcome[c] # Raised /\ case.result = outcome[c]
  BY <1>1 DEF EngineCases
<1> QED BY <1>1, <1>2, SameRecord

(* The three statuses of an answer. *)
LEMMA NormativeStatus ==
  \A expected, case :
    Normative(expected, case).status \in {"engine_error", "normative_divergence", "match"}
BY DEF Normative

(* No failing status is lost in the outcomes of a case. *)
LEMMA FailuresAreOutcomes ==
  \A statuses : \A s \in statuses \ {"match", "not_compared"} : s \in Outcomes(statuses)
BY DEF Outcomes

(* What a reader finds of a case: the answer, or an error without a bridge.  *)
LEMMA CaseIsReported ==
  ASSUME NEW outcome, NEW c \in Case
  PROVE  /\ Reported(EngineReport(outcome), c) = EngineCases(outcome)[c]
         /\ Reported(FatalReport, c).status = "engine_error"
BY DEF Reported, EngineReport, FatalReport, EngineCases

(* A counter at zero counts nothing. *)
LEMMA NothingCounted ==
  ASSUME NEW cases, NEW outcome, Counted(cases, outcome) <= 0
  PROVE  \A c \in Case : outcome \notin cases[c].outcomes
<1> DEFINE counted == {c \in Case : outcome \in cases[c].outcomes}
<1>1. IsFiniteSet(counted)
  BY SourceAssumption, FS_Subset
<1>2. Cardinality(counted) \in Nat /\ (Cardinality(counted) = 0 <=> counted = {})
  BY <1>1, FS_CardinalityType, FS_EmptySet
<1>3. Counted(cases, outcome) = Cardinality(counted)
  BY DEF Counted
<1> QED BY <1>2, <1>3

(* A counter is a natural number: there are finitely many cases. *)
LEMMA CountedType ==
  \A cases, outcome : Counted(cases, outcome) \in Nat
<1> TAKE cases, outcome
<1>1. IsFiniteSet({c \in Case : outcome \in cases[c].outcomes})
  BY SourceAssumption, FS_Subset
<1> QED BY <1>1, FS_CardinalityType DEF Counted

(* The only status match comes from a report that says match ...             *)
LEMMA MatchOnly ==
  \A report : ParityStatuses(report) = {"match"} => report.status = "match"
<1> TAKE report
<1> DEFINE failures ==
      (IF "engine_error" \in {report.status, report.alignment.status}
         THEN {"engine_error"} ELSE {})
        \cup (IF \E c \in Case : "normative_divergence" \in
                   {report.cases[c].python.status, report.cases[c].typescript.status}
                THEN {"normative_divergence"} ELSE {})
        \cup (IF \E c \in Case : report.cases[c].inter.status = "engine_divergence"
                THEN {"interlanguage_divergence"} ELSE {})
        \cup (IF report.alignment.status = "divergence"
                THEN {"validation_probe_divergence"} ELSE {})
<1>1. "match" \notin failures
  OBVIOUS
<1>2. ParityStatuses(report) = OrElse(failures, report)
  BY DEF ParityStatuses
<1> HIDE DEF failures
<1>3. \A statuses : OrElse(statuses, report) = {"match"} =>
                       statuses = {"match"} \/ report.status = "match"
  BY DEF OrElse
<1> QED BY <1>1, <1>2, <1>3

(* ... and such a report has counted no failure. *)
LEMMA MatchHasNoFailure ==
  \A summary, alignment :
    ParityStatus(summary, alignment) = "match" =>
      /\ ~(summary.fatal + summary.errors > 0) /\ ~(summary.normative + summary.engine > 0)
      /\ alignment.status # "engine_error" /\ alignment.status # "divergence"
BY ZenonT(30) DEF ParityStatus

(* A parity report of src that its control accepts means that the two        *)
(* engines answer as the corpus does and decide the probes as they should:   *)
(* a bridge that failed cannot be mistaken for an engine that agrees.        *)
THEOREM ParityIsTrue ==
  ASSUME NEW src, IsSource(src), NEW broken,
         UsableParity(ParityReport(src, broken), src),
         ParityStatuses(ParityReport(src, broken)) = {"match"}
  PROVE  Claim("deterministic_parity", src, Absent)
<1> DEFINE report == ParityReport(src, broken)
           python == EngineReport(src.python.results[DefaultBatch])
           typescript == IF "corpus" \in broken THEN FatalReport ELSE EngineReport(src.typescript.results)
           cases == CaseComparisons(src.corpus.expected, python, typescript)
           engines == [python |-> python.status, typescript |-> typescript.status]
           pyProbes == ProbeReport(src.python.accepts, TRUE)
           tsProbes == ProbeReport(src.typescript.accepts, "probes" \notin broken)
           alignment == Alignment(src.probes.expected, pyProbes, tsProbes)
           summary == ParitySummary(cases, engines)
           made == [status |-> ParityStatus(summary, alignment), cases |-> cases,
                    engines |-> engines, alignment |-> alignment, summary |-> summary]
<1>1. report = made
  BY DEF ParityReport, UsableParity
<1>2. report.status = "match"
  BY MatchOnly
<1>3. /\ ~(summary.fatal + summary.errors > 0) /\ ~(summary.normative + summary.engine > 0)
      /\ alignment.status \notin {"engine_error", "divergence"}
  <2>1. ParityStatus(summary, alignment) = "match"
    <3> HIDE DEF report, cases, engines, summary, alignment
    <3> QED BY <1>1, <1>2
  <2> QED BY <2>1, MatchHasNoFailure
<1>4. /\ summary.errors = Counted(cases, "engine_error")
      /\ summary.normative = Counted(cases, "normative_divergence")
      /\ summary.engine = Counted(cases, "engine_divergence")
      /\ summary.fatal = Cardinality({e \in DOMAIN engines : engines[e] = "engine_error"})
  <2> HIDE DEF cases, engines
  <2> QED BY DEF ParitySummary
<1>5. summary.fatal \in Nat
  <2>1. IsFiniteSet({"python", "typescript"})
    <3>1. IsFiniteSet({} \cup {"python"})
      BY FS_EmptySet, FS_AddElement
    <3>2. IsFiniteSet({"python"} \cup {"typescript"})
      BY <3>1, FS_AddElement
    <3> QED BY <3>2
  <2>2. DOMAIN engines = {"python", "typescript"}
    OBVIOUS
  <2>3. IsFiniteSet({e \in DOMAIN engines : engines[e] = "engine_error"})
    BY <2>1, <2>2, FS_Subset
  <2> QED BY <1>4, <2>3, FS_CardinalityType
<1>6. \A c \in Case : /\ "engine_error" \notin cases[c].outcomes
                      /\ "normative_divergence" \notin cases[c].outcomes
  <2> HIDE DEF cases, summary
  <2>1. Counted(cases, "engine_error") <= 0 /\ Counted(cases, "normative_divergence") <= 0
    BY <1>3, <1>4, <1>5, CountedType
  <2> QED BY <2>1, NothingCounted
<1>7. \A c \in Case :
        /\ Normative(src.corpus.expected[c], Reported(python, c)).status = "match"
        /\ Normative(src.corpus.expected[c], Reported(typescript, c)).status = "match"
  <2> SUFFICES ASSUME NEW c \in Case
               PROVE  /\ Normative(src.corpus.expected[c], Reported(python, c)).status = "match"
                      /\ Normative(src.corpus.expected[c], Reported(typescript, c)).status = "match"
    OBVIOUS
  <2> DEFINE py == Normative(src.corpus.expected[c], Reported(python, c))
             ts == Normative(src.corpus.expected[c], Reported(typescript, c))
             both == InterEngine(Reported(python, c), Reported(typescript, c), "engine_divergence")
  <2>1. cases[c].outcomes = Outcomes({py.status, ts.status, both.status})
    BY DEF CaseComparisons
  <2>2. py.status \in {"engine_error", "normative_divergence", "match"}
    BY NormativeStatus
  <2>3. ts.status \in {"engine_error", "normative_divergence", "match"}
    BY NormativeStatus
  <2> HIDE DEF py, ts, both, cases
  <2>4. py.status = "match" /\ ts.status = "match"
    BY <1>6, <2>1, <2>2, <2>3, FailuresAreOutcomes
  <2> QED BY <2>4 DEF py, ts
<1>8. Answers(src, src.python.results[DefaultBatch])
  <2> SUFFICES ASSUME NEW c \in Case
               PROVE  src.python.results[DefaultBatch][c] = src.corpus.expected[c]
    BY DEF Answers
  <2>1. Normative(src.corpus.expected[c], EngineCases(src.python.results[DefaultBatch])[c]).status = "match"
    BY <1>7, CaseIsReported
  <2> QED BY <2>1, MatchIsTheAnswer, SourceAssumption DEF IsSource
<1>9. Answers(src, src.typescript.results)
  <2> SUFFICES ASSUME NEW c \in Case
               PROVE  src.typescript.results[c] = src.corpus.expected[c]
    BY DEF Answers
  <2>1. Reported(typescript, c) = EngineCases(src.typescript.results)[c]
    <3>1. CASE "corpus" \in broken
      <4>1. Reported(typescript, c).status = "engine_error"
        BY <3>1, CaseIsReported
      <4>2. Normative(src.corpus.expected[c], Reported(typescript, c)).status = "engine_error"
        BY <4>1 DEF Normative
      <4> QED BY <4>2, <1>7
    <3>2. CASE "corpus" \notin broken
      BY <3>2, CaseIsReported
    <3> QED BY <3>1, <3>2
  <2> QED BY <2>1, <1>7, MatchIsTheAnswer, SMTT(60) DEF IsSource
<1>10. \A p \in Probe : /\ src.python.accepts[p] = src.probes.expected[p]
                        /\ src.typescript.accepts[p] = src.probes.expected[p]
  <2> DEFINE agrees(p) == \A r \in {pyProbes, tsProbes} :
                            p \in DOMAIN r.accepted /\ r.accepted[p] = src.probes.expected[p]
  <2> SUFFICES ASSUME NEW p \in Probe
               PROVE  /\ src.python.accepts[p] = src.probes.expected[p]
                      /\ src.typescript.accepts[p] = src.probes.expected[p]
    OBVIOUS
  <2>1. "engine_error" \notin {pyProbes.status, tsProbes.status}
    <3> HIDE DEF pyProbes, tsProbes
    <3> QED BY <1>3 DEF Alignment
  <2>2. agrees(p)
    <3> HIDE DEF pyProbes, tsProbes
    <3> QED BY <1>3, <2>1 DEF Alignment
  <2>3. pyProbes.accepted = src.python.accepts /\ tsProbes.accepted = src.typescript.accepts
    BY <2>1 DEF ProbeReport
  <2> QED BY <2>2, <2>3
<1> QED BY <1>8, <1>9, <1>10 DEF Claim

(* What a batch or TypeScript answers in a replay that matches. *)
LEMMA ReplayMatches ==
  ASSUME NEW src, IsSource(src), NEW broken, NEW c \in Case,
         UsableReplay(ExactReplay(src, broken), src)
  PROVE  LET case == ExactReplay(src, broken).cases[c]
         IN /\ case.independent <=> \A b \in Batch : case.batches[b].status = "match"
            /\ \A b \in Batch : case.batches[b].status = "match" =>
                 src.python.results[b][c] = src.corpus.expected[c]
            /\ case.typescript.status = "match" =>
                 src.typescript.results[c] = src.corpus.expected[c]
            /\ case.outcomes \subseteq {"match"} =>
                 /\ case.typescript.status = "match"
                 /\ \A b \in Batch : case.batches[b].status = "match"
<1> DEFINE python == [b \in Batch |-> EngineReport(src.python.results[b])]
           typescript == IF "replay" \in broken THEN FatalReport ELSE EngineReport(src.typescript.results)
           expected == src.corpus.expected[c]
           case == ExactReplay(src, broken).cases[c]
           ts == Normative(expected, Reported(typescript, c))
           batches == [b \in Batch |-> Normative(expected, Reported(python[b], c))]
           inter == [b \in Batch |-> InterEngine(Reported(python[b], c), Reported(typescript, c),
                                                 "interlanguage_divergence")]
           statuses == {ts.status} \cup {batches[b].status : b \in Batch}
                         \cup {inter[b].status : b \in Batch}
<1>1. ExactReplay(src, broken) = ReplayReport(src, broken)
  BY DEF ExactReplay, UsableReplay
<1>2. case = ReplayCase(expected, python, typescript, c)
  <2>1. ReplayReport(src, broken).cases =
          [d \in Case |-> ReplayCase(src.corpus.expected[d], python, typescript, d)]
    BY DEF ReplayReport
  <2> HIDE DEF python, typescript
  <2> QED BY <1>1, <2>1
<1>3. case = [typescript |-> ts, batches |-> batches, inter |-> inter,
              outcomes |-> Outcomes(statuses),
              independent |-> \A b \in Batch : batches[b].status = "match"]
  <2> HIDE DEF python, typescript
  <2> QED BY <1>2 DEF ReplayCase
<1> HIDE DEF case
<1>4. /\ case.typescript = ts /\ case.batches = batches /\ case.outcomes = Outcomes(statuses)
      /\ case.independent <=> \A b \in Batch : batches[b].status = "match"
  <2> HIDE DEF ts, batches, inter, statuses
  <2> QED BY <1>3, Zenon
<1>5. ASSUME NEW b \in Batch, batches[b].status = "match"
      PROVE  src.python.results[b][c] = expected
  <2>1. Normative(expected, EngineCases(src.python.results[b])[c]).status = "match"
    BY <1>5, CaseIsReported
  <2> HIDE DEF batches
  <2> QED BY <2>1, MatchIsTheAnswer DEF IsSource
<1>6. ASSUME ts.status = "match"
      PROVE  src.typescript.results[c] = expected
  <2>1. CASE "replay" \in broken
    <3>1. Reported(typescript, c).status = "engine_error"
      BY <2>1, CaseIsReported
    <3>2. Normative(expected, Reported(typescript, c)).status = "engine_error"
      BY <3>1 DEF Normative
    <3> QED BY <3>2, <1>6
  <2>2. CASE "replay" \notin broken
    <3>1. Reported(typescript, c) = EngineCases(src.typescript.results)[c]
      BY <2>2, CaseIsReported
    <3> QED BY <3>1, <1>6, MatchIsTheAnswer DEF IsSource
  <2> QED BY <2>1, <2>2
<1>7. ASSUME Outcomes(statuses) \subseteq {"match"}
      PROVE  ts.status = "match" /\ \A b \in Batch : batches[b].status = "match"
  <2>1. ts.status \in statuses /\ \A b \in Batch : batches[b].status \in statuses
    <3> HIDE DEF ts, batches, inter
    <3> QED OBVIOUS
  <2>2. ts.status \in {"engine_error", "normative_divergence", "match"}
    BY NormativeStatus
  <2>3. \A b \in Batch : batches[b].status \in {"engine_error", "normative_divergence", "match"}
    BY NormativeStatus
  <2> HIDE DEF ts, batches, inter, statuses
  <2> QED BY <1>7, <2>1, <2>2, <2>3, FailuresAreOutcomes
<1> HIDE DEF ts, batches, inter, statuses
<1> QED BY <1>4, <1>5, <1>6, <1>7, Zenon DEF case

(* A replay of src that the exact control accepts means that TypeScript, and *)
(* Python with every batch size, answer as the corpus does.                  *)
THEOREM ReplayIsTrue ==
  ASSUME NEW src, IsSource(src), NEW broken,
         UsableReplay(ExactReplay(src, broken), src),
         ReplayStatuses(ExactReplay(src, broken)) = {"match"}
  PROVE  Claim("exact_replay", src, Absent)
<1> DEFINE report == ExactReplay(src, broken)
<1> HIDE DEF report
<1>1. \A c \in Case : report.cases[c].outcomes \subseteq {"match"}
  <2> DEFINE all == UNION {report.cases[c].outcomes : c \in Case}
  <2>1. all \ {"match"} \subseteq {"match"}
    <3>1. ReplayStatuses(report) = OrElse(all \ {"match"}, report)
      BY DEF ReplayStatuses
    <3>2. OrElse(all \ {"match"}, report) = {"match"}
      BY <3>1 DEF report
    <3> HIDE DEF all
    <3> QED BY <3>2 DEF OrElse
  <2>2. \A c \in Case : report.cases[c].outcomes \subseteq all
    OBVIOUS
  <2> HIDE DEF all
  <2> QED BY <2>1, <2>2
<1>2. ASSUME NEW c \in Case
      PROVE  /\ src.typescript.results[c] = src.corpus.expected[c]
             /\ \A b \in Batch : src.python.results[b][c] = src.corpus.expected[c]
  BY <1>1, ReplayMatches DEF report
<1> QED BY <1>2 DEF Claim, Answers

(* A replay that says that its batches are independent: Python answers the   *)
(* same with every batch size, whatever TypeScript answers.                  *)
THEOREM BatchingIsTrue ==
  ASSUME NEW src, IsSource(src), NEW broken,
         UsableReplay(ExactReplay(src, broken), src),
         BatchingStatuses(ExactReplay(src, broken)) = {"match"}
  PROVE  Claim("batching_independence", src, Absent)
<1> DEFINE report == ExactReplay(src, broken)
<1>1. report.independent
  <2> HIDE DEF report
  <2> SUFFICES ASSUME ~report.independent PROVE FALSE
    OBVIOUS
  <2>1. BatchingStatuses(report) = {"batching_divergence"}
    BY Zenon DEF BatchingStatuses
  <2>2. BatchingStatuses(report) = {"match"}
    BY DEF report
  <2> QED BY <2>1, <2>2
<1>2. \A c \in Case : report.cases[c].independent
  <2>1. report.independent <=> \A c \in Case : report.cases[c].independent
    <3> HIDE DEF report
    <3> QED BY Zenon DEF UsableReplay, ReplayIsCoherent, report
  <2> QED BY <1>1, <2>1
<1>3. ASSUME NEW c \in Case, NEW b \in Batch
      PROVE  src.python.results[b][c] = src.corpus.expected[c]
  BY <1>2, ReplayMatches
<1> QED BY <1>3 DEF Claim

(* The largest of the four ends of a symmetric region. *)
LEMMA LargestOfFour ==
  ASSUME NEW a \in Int, NEW b \in Int, NEW c \in Int, NEW d \in Int
  PROVE  /\ LargestOf({a, b, c, d}) \in {a, b, c, d}
         /\ \A y \in {a, b, c, d} : y <= LargestOf({a, b, c, d})
<1>1. \E x \in {a, b, c, d} : \A y \in {a, b, c, d} : y <= x
  OBVIOUS
<1> DEFINE S == {a, b, c, d}
<1> HIDE DEF S
<1> QED BY <1>1 DEF LargestOf, S

(* A metric whose verdict is match is within its margin. *)
LEMMA MatchIsWithinMargin ==
  ASSUME NEW measures, NEW m, NEW permutations, IsMeasure(measures[m]),
         Verdict(measures, m, permutations) = "match"
  PROVE  WithinMargin(measures[m])
<1> DEFINE measure == measures[m]
<1>1. Supported(measure) /\ ~(measure.kind = "exact_structural" /\ measure.mismatch)
  <2> DEFINE rejected == /\ Inferential(measure)
                         /\ Adjusted(measures, m, permutations) * AlphaInverse <= permutations + 1
                         /\ measure.effect > measure.margin
  <2>1. Verdict(measures, m, permutations) =
          IF measure.kind = "exact_structural" /\ measure.mismatch THEN "divergence"
          ELSE IF Supported(measure) THEN "match"
          ELSE IF rejected THEN "divergence" ELSE "inconclusive"
    BY Zenon DEF Verdict
  <2> HIDE DEF rejected, measure
  <2> QED BY <2>1
<1> HIDE DEF measure
<1>2. IsMeasure(measure)
  BY DEF measure
<1>3. CASE measure.kind = "exact_structural" \/ measure.kind = "insufficient"
  BY <1>1, <1>3 DEF WithinMargin, Supported, measure
<1>4. CASE measure.kind = "rate_difference"
  <2>1. measure.low \in Int /\ measure.high \in Int /\ measure.margin \in Int
    BY <1>2, <1>4 DEF IsMeasure
  <2> DEFINE ends == {measure.low, -measure.low, measure.high, -measure.high}
  <2>2. UpperEnd(measure) = LargestOf(ends) /\ UpperEnd(measure) <= measure.margin
    BY <1>1, <1>4 DEF UpperEnd, Supported
  <2>3. LargestOf(ends) \in Int /\ \A y \in ends : y <= LargestOf(ends)
    <3>1. -measure.low \in Int /\ -measure.high \in Int
      BY <2>1
    <3>2. LargestOf(ends) \in ends /\ \A y \in ends : y <= LargestOf(ends)
      BY <2>1, <3>1, LargestOfFour
    <3> QED BY <2>1, <3>1, <3>2
  <2>4. -measure.low <= measure.margin /\ measure.high <= measure.margin
    BY <2>1, <2>2, <2>3
  <2> QED BY <1>4, <2>1, <2>4 DEF WithinMargin, measure
<1>5. CASE measure.kind = "discrete_cdf"
  <2>1. measure.effect \in Int /\ measure.radius \in Int /\ measure.margin \in Int
    BY <1>2, <1>5 DEF IsMeasure
  <2>2. Least(One, measure.effect + measure.radius) <= measure.margin
    BY <1>1, <1>5 DEF UpperEnd, Supported
  <2> QED BY <1>5, <2>1, <2>2, SourceAssumption DEF WithinMargin, Least, measure
<1> QED BY <1>2, <1>3, <1>4, <1>5 DEF IsMeasure

(* Nothing but matches aggregates to a match. *)
LEMMA AggregateMatch ==
  \A verdicts : Aggregate(verdicts) = "match" => verdicts = {"match"}
BY DEF Aggregate

(* A distributional evidence of src that its control accepts: the protocol   *)
(* resolves the thresholds of Holm, and every measured effect, with its      *)
(* confidence region, is within its margin.                                  *)
THEOREM DistributionIsTrue ==
  ASSUME NEW src, IsSource(src), NEW broken,
         UsableDistribution(DistributionEvidence(src, broken), src),
         DistributionStatuses(DistributionEvidence(src, broken)) = {"match"}
  PROVE  Claim("distributional_parity", src, Absent)
<1> DEFINE evidence == DistributionEvidence(src, broken)
           verdicts == [m \in Metric |-> Verdict(src.measures, m, src.protocol.permutations)]
           scenarios == ScenarioVerdicts(verdicts)
<1>1. evidence.status # "invalid"
  BY DEF UsableDistribution, EvidenceIsCoherent
<1>2. ProtocolIssue(src.protocol) = "none" /\ evidence = Evidence(src)
  <2>1. \A class : InvalidEvidence(class).status = "invalid"
    BY DEF InvalidEvidence
  <2> QED BY <1>1, <2>1 DEF DistributionEvidence
<1>3. evidence.status = Aggregate({scenarios[s] : s \in Scenario})
  <2> HIDE DEF verdicts
  <2> QED BY <1>2 DEF Evidence, verdicts
<1>4. evidence.status = "match"
  <2>1. evidence.status \in {"match", "divergence", "inconclusive"}
    BY <1>3 DEF Aggregate
  <2> DEFINE classes == {d.class : d \in evidence.diagnostics}
  <2>2. DistributionStatuses(evidence) =
          OrElse(classes \cup (IF evidence.status = "divergence" THEN {"distributional_divergence"} ELSE {})
                   \cup (IF evidence.status = "inconclusive" THEN {"statistically_inconclusive"} ELSE {}),
                 evidence)
    BY <1>1 DEF DistributionStatuses
  <2> HIDE DEF classes, evidence
  <2>3. DistributionStatuses(evidence) = {"match"}
    BY DEF evidence
  <2> QED BY <2>1, <2>2, <2>3 DEF OrElse
<1>5. \A s \in Scenario : scenarios[s] = "match"
  <2>1. {scenarios[s] : s \in Scenario} = {"match"}
    BY <1>3, <1>4, AggregateMatch
  <2> HIDE DEF scenarios
  <2> QED BY <2>1
<1>6. ASSUME NEW m \in Metric
      PROVE  WithinMargin(src.measures[m])
  <2> DEFINE s == ScenarioOf[m]
             of == {verdicts[k] : k \in {j \in Metric : ScenarioOf[j] = s}}
  <2>1. s \in Scenario
    BY SourceAssumption
  <2>2. scenarios[s] = Aggregate(of)
    <3> HIDE DEF verdicts
    <3> QED BY <2>1 DEF ScenarioVerdicts
  <2>3. of = {"match"}
    BY <1>5, <2>1, <2>2, AggregateMatch
  <2>4. verdicts[m] \in of
    <3> HIDE DEF verdicts
    <3> QED OBVIOUS
  <2>5. Verdict(src.measures, m, src.protocol.permutations) = "match"
    BY <2>3, <2>4
  <2> QED BY <2>5, MatchIsWithinMargin DEF IsSource
<1>7. ResolvesHolm(src.protocol)
  BY <1>2 DEF ProtocolIssue, ProtocolIsCoherent
<1> QED BY <1>6, <1>7 DEF Claim

(* A compatibility evidence as the control writes it, HEAD having old.       *)
MadeAgainst(text, old) ==
  \E authority, semantics, read :
    /\ HasReleases(authority.components)
    /\ old # Absent => HasReleases(old.components)
    /\ text = CompatibilityEvidence(authority, semantics, read,
                                    CompatibilityDiagnostics(authority, old, semantics, read))

(* Releases that are not rewritten are extended. *)
LEMMA NotRewritten ==
  ASSUME NEW S, NEW T, NEW component, NEW old,
         component.releases \in Seq(S), old.releases \in Seq(T), ~Rewritten(component, old)
  PROVE  \A i \in DOMAIN old.releases :
           i \in DOMAIN component.releases /\ component.releases[i] = old.releases[i]
<1> DEFINE new == component.releases  was == old.releases
<1>1. SubSeq(new, 1, Len(was)) = was /\ ~(Len(new) < Len(was))
  BY DEF Rewritten
<1>2. Len(new) \in Nat /\ Len(was) \in Nat /\ DOMAIN was = 1 .. Len(was) /\ DOMAIN new = 1 .. Len(new)
  BY LenProperties
<1>3. \A i \in 1 .. Len(was) : SubSeq(new, 1, Len(was))[i] = new[i]
  BY <1>1, <1>2
<1> QED BY <1>1, <1>2, <1>3

(* There are pairs where there are two members. *)
LEMMA NoPair ==
  \A c, S : {c} \X S \subseteq {} => S = {}
<1> SUFFICES ASSUME NEW c, NEW S, {c} \X S \subseteq {}, NEW x \in S PROVE FALSE
  OBVIOUS
<1>1. <<c, x>> \in {c} \X S
  OBVIOUS
<1> QED BY <1>1

(* An evidence of compatibility that its control accepts: no component has   *)
(* drifted from its last release, and no accepted release was rewritten.     *)
THEOREM CompatibilityIsTrue ==
  ASSUME NEW src, NEW text, NEW old,
         MadeAgainst(text, old), CompatibilityStatuses(text) = {"match"},
         text.authority = src.authority, text.components = src.semantics
  PROVE  Claim("statistical_compatibility", src, old)
<1>1. PICK authority, semantics, read :
        /\ HasReleases(authority.components)
        /\ old # Absent => HasReleases(old.components)
        /\ text = CompatibilityEvidence(authority, semantics, read,
                                        CompatibilityDiagnostics(authority, old, semantics, read))
  BY DEF MadeAgainst
<1> DEFINE diagnostics == CompatibilityDiagnostics(authority, old, semantics, read)
           components == authority.components
           drifts == UNION {{c} \X DriftIssues(components[c], semantics[c]) : c \in DOMAIN components}
<1>2. text.status = "match"
  BY DEF CompatibilityStatuses
<1>3. /\ text.status = IF Codes(diagnostics) \ Blocking # {} THEN "control_error"
                       ELSE IF diagnostics # {} THEN "blocked" ELSE "match"
      /\ text.authority = authority /\ text.components = semantics
  <2> HIDE DEF diagnostics
  <2> QED BY <1>1 DEF CompatibilityEvidence, diagnostics
<1>4. diagnostics = {}
  <2> HIDE DEF diagnostics
  <2> QED BY <1>2, <1>3
<1>5. drifts = {} /\ (old # Absent => EvolutionDiagnostics(authority, old) = {})
  <2> HIDE DEF drifts
  <2> QED BY <1>4 DEF CompatibilityDiagnostics, drifts
<1>6. ASSUME NEW c \in DOMAIN components
      PROVE  semantics[c] = LastOf(components[c].releases).semantics
  <2>1. {c} \X DriftIssues(components[c], semantics[c]) \subseteq drifts
    OBVIOUS
  <2> HIDE DEF drifts
  <2>2. DriftIssues(components[c], semantics[c]) = {}
    BY <1>5, <2>1, NoPair
  <2> QED BY <2>2 DEF DriftIssues
<1>7. ASSUME old # Absent
      PROVE  Extends(components, old.components)
  <2> DEFINE shared == DOMAIN components \cap DOMAIN old.components
             changed == ChangedProofs(authority, old)
             all == UNION {{c} \X ComponentEvolution(components[c], old.components[c], changed) : c \in shared}
  <2>1. all \subseteq EvolutionDiagnostics(authority, old)
    <3> HIDE DEF changed
    <3> QED BY DEF EvolutionDiagnostics, changed
  <2>2. ASSUME NEW c \in shared
        PROVE  ~Rewritten(components[c], old.components[c])
    <3>1. {c} \X ComponentEvolution(components[c], old.components[c], changed) \subseteq all
      <4> HIDE DEF changed
      <4> QED OBVIOUS
    <3> HIDE DEF all
    <3>2. all \subseteq {}
      BY <1>5, <1>7, <2>1
    <3>3. {c} \X ComponentEvolution(components[c], old.components[c], changed) \subseteq {}
      BY <3>1, <3>2
    <3>4. ComponentEvolution(components[c], old.components[c], changed) = {}
      BY <3>3, NoPair, Zenon
    <3> QED BY <3>4 DEF ComponentEvolution
  <2> SUFFICES ASSUME NEW c \in shared
               PROVE  \A i \in DOMAIN old.components[c].releases :
                        /\ i \in DOMAIN components[c].releases
                        /\ components[c].releases[i] = old.components[c].releases[i]
    BY DEF Extends
  <2> DEFINE sorts(s) == {s[i] : i \in DOMAIN s}
  <2>3. /\ components[c].releases \in Seq(sorts(components[c].releases))
        /\ old.components[c].releases \in Seq(sorts(old.components[c].releases))
    BY <1>1, <1>7 DEF HasReleases
  <2> DEFINE new == components[c]  was == old.components[c]
  <2>4. ~Rewritten(new, was)
    BY <2>2
  <2> HIDE DEF sorts
  <2>5. new.releases \in Seq(sorts(new.releases)) /\ was.releases \in Seq(sorts(was.releases))
    BY <2>3
  <2> HIDE DEF new, was
  <2>6. \A i \in DOMAIN was.releases :
          i \in DOMAIN new.releases /\ new.releases[i] = was.releases[i]
    BY <2>4, <2>5, NotRewritten
  <2> QED BY <2>6 DEF new, was
<1>8. components = src.authority.components /\ semantics = src.semantics
  BY <1>3
<1> HIDE DEF components
<1>9. ~Drifts(src)
  BY <1>6, <1>8 DEF Drifts
<1> QED BY <1>7, <1>8, <1>9 DEF Claim

(* A consolidated report whose statuses all match: every file that it reads  *)
(* is valid, and it carries the evidence of compatibility that it was given. *)
THEOREM ReportIsTrue ==
  ASSUME NEW src, IsSource(src), NEW proofs,
         ConsolidatedStatuses(ConsolidatedReport(src, proofs)) = {"match"}
  PROVE  StaticFiles(src) /\ ConsolidatedReport(src, proofs).sources[8] = proofs.compatibility
<1> DEFINE report == ConsolidatedReport(src, proofs)
           validated == Validated(src, proofs)
           findings == Findings(proofs, validated)
           levels == Levels(proofs, validated)
           verdict == ReportVerdict({levels[l] : l \in DOMAIN levels}
                                      \cup {d[2] : d \in validated \cup findings})
           sources == ReportSources(src, proofs)
<1>1. report = [sources |-> sources, levels |-> levels,
                diagnostics |-> validated \cup findings, verdict |-> verdict]
  <2> HIDE DEF validated, findings, levels, verdict, sources
  <2> QED BY DEF ConsolidatedReport, validated, findings, levels, verdict, sources
<1>2. report.diagnostics = validated \cup findings /\ report.sources = sources
  <2> HIDE DEF validated, findings, levels, verdict, sources, report
  <2> QED BY <1>1
<1>3. sources[8] = proofs.compatibility
  BY DEF ReportSources
<1>4. \A d \in validated : d[2] = "match"
  <2>1. {d[2] : d \in report.diagnostics} \subseteq {"match"}
    BY DEF ConsolidatedStatuses
  <2> HIDE DEF validated, findings, report
  <2> QED BY <1>2, <2>1
<1>5. ASSUME NEW f \in DOMAIN src.files, src.files[f] # "valid"
      PROVE  FALSE
  <2> DEFINE invalid == {<<g, FileClass[src.files[g]]>> : g \in {h \in DOMAIN src.files : src.files[h] # "valid"}}
             loaded == Loaded(src, proofs)
  <2>1. <<f, FileClass[src.files[f]]>> \in invalid
    BY <1>5
  <2>2. invalid \subseteq loaded
    <3> HIDE DEF invalid
    <3> QED BY DEF Loaded, invalid
  <2>3. loaded \subseteq validated
    <3> HIDE DEF loaded
    <3> QED BY DEF Validated, loaded
  <2>4. FileClass[src.files[f]] = "match"
    <3> HIDE DEF validated, loaded, invalid
    <3> QED BY <1>4, <2>1, <2>2, <2>3
  <2>5. src.files[f] \in DOMAIN FileClass
    BY <1>5 DEF IsSource
  <2> QED BY <2>4, <2>5 DEF FileClass
<1> QED BY <1>2, <1>3, <1>5 DEF StaticFiles

(***************************************************************************)
(* The scripts: which node writes a document and which controls read it.   *)
(***************************************************************************)
Generator ==
  [parity |-> "statistical-deterministic-parity", exact |-> "statistical-exact-replay",
   distribution |-> "statistical-distributional-parity",
   compatibility |-> "statistical-compatibility", report |-> "statistical-consolidated-report"]

Generating ==
  [parity |-> "generate-parity", exact |-> "generate-exact-replay",
   distribution |-> "generate-distribution", compatibility |-> "generate-compatibility",
   report |-> "generate-consolidated-report"]

(* The scripts, command by command. *)
LEMMA ScriptOf ==
  /\ Len(Commands("statistical-authorities")) = 3
  /\ Commands("statistical-authorities")[1] = "validate-authorities"
  /\ Commands("statistical-authorities")[2] = "validate-corpus"
  /\ Commands("statistical-authorities")[3] = "validate-protocol"
  /\ Len(Commands("statistical-deterministic-parity")) = 2
  /\ Commands("statistical-deterministic-parity")[1] = "generate-parity"
  /\ Commands("statistical-deterministic-parity")[2] = "enforce-parity"
  /\ Len(Commands("statistical-exact-replay")) = 3
  /\ Commands("statistical-exact-replay")[1] = "generate-exact-replay"
  /\ Commands("statistical-exact-replay")[2] = "enforce-exact-replay"
  /\ Commands("statistical-exact-replay")[3] = "enforce-batching"
  /\ Len(Commands("statistical-distributional-parity")) = 2
  /\ Commands("statistical-distributional-parity")[1] = "generate-distribution"
  /\ Commands("statistical-distributional-parity")[2] = "enforce-distribution"
  /\ Len(Commands("statistical-compatibility")) = 2
  /\ Commands("statistical-compatibility")[1] = "generate-compatibility"
  /\ Commands("statistical-compatibility")[2] = "enforce-compatibility"
  /\ Len(Commands("statistical-consolidated-report")) = 2
  /\ Commands("statistical-consolidated-report")[1] = "generate-consolidated-report"
  /\ Commands("statistical-consolidated-report")[2] = "validate-consolidated-report"
<1>1. /\ Len(Commands("statistical-authorities")) = 3
      /\ Commands("statistical-authorities")[1] = "validate-authorities"
      /\ Commands("statistical-authorities")[2] = "validate-corpus"
      /\ Commands("statistical-authorities")[3] = "validate-protocol"
  <2>1. Commands("statistical-authorities") =
          <<"validate-authorities", "validate-corpus", "validate-protocol">>
    BY Zenon DEF Commands, Plan!StatisticalCommands
  <2> QED BY <2>1
<1>2. /\ Len(Commands("statistical-deterministic-parity")) = 2
      /\ Commands("statistical-deterministic-parity")[1] = "generate-parity"
      /\ Commands("statistical-deterministic-parity")[2] = "enforce-parity"
  <2>1. Commands("statistical-deterministic-parity") =
          <<"generate-parity", "enforce-parity">>
    BY Zenon DEF Commands, Plan!StatisticalCommands
  <2> QED BY <2>1
<1>3. /\ Len(Commands("statistical-exact-replay")) = 3
      /\ Commands("statistical-exact-replay")[1] = "generate-exact-replay"
      /\ Commands("statistical-exact-replay")[2] = "enforce-exact-replay"
      /\ Commands("statistical-exact-replay")[3] = "enforce-batching"
  <2>1. Commands("statistical-exact-replay") =
          <<"generate-exact-replay", "enforce-exact-replay", "enforce-batching">>
    BY Zenon DEF Commands, Plan!StatisticalCommands
  <2> QED BY <2>1
<1>4. /\ Len(Commands("statistical-distributional-parity")) = 2
      /\ Commands("statistical-distributional-parity")[1] = "generate-distribution"
      /\ Commands("statistical-distributional-parity")[2] = "enforce-distribution"
  <2>1. Commands("statistical-distributional-parity") =
          <<"generate-distribution", "enforce-distribution">>
    BY Zenon DEF Commands, Plan!StatisticalCommands
  <2> QED BY <2>1
<1>5. /\ Len(Commands("statistical-compatibility")) = 2
      /\ Commands("statistical-compatibility")[1] = "generate-compatibility"
      /\ Commands("statistical-compatibility")[2] = "enforce-compatibility"
  <2>1. Commands("statistical-compatibility") =
          <<"generate-compatibility", "enforce-compatibility">>
    BY Zenon DEF Commands, Plan!StatisticalCommands
  <2> QED BY <2>1
<1>6. /\ Len(Commands("statistical-consolidated-report")) = 2
      /\ Commands("statistical-consolidated-report")[1] = "generate-consolidated-report"
      /\ Commands("statistical-consolidated-report")[2] = "validate-consolidated-report"
  <2>1. Commands("statistical-consolidated-report") =
          <<"generate-consolidated-report", "validate-consolidated-report">>
    BY Zenon DEF Commands, Plan!StatisticalCommands
  <2> QED BY <2>1
<1> QED BY <1>1, <1>2, <1>3, <1>4, <1>5, <1>6

(* What the four functions of strings give. *)
LEMMA NodesAre ==
  Node = {"statistical-authorities", "statistical-deterministic-parity",
          "statistical-exact-replay", "statistical-distributional-parity",
          "statistical-compatibility", "statistical-consolidated-report"}
BY DEF Node, Plan!StatisticalNode

LEMMA GeneratorIs ==
  /\ Generator["parity"] = "statistical-deterministic-parity"
  /\ Generator["exact"] = "statistical-exact-replay"
  /\ Generator["distribution"] = "statistical-distributional-parity"
  /\ Generator["compatibility"] = "statistical-compatibility"
  /\ Generator["report"] = "statistical-consolidated-report"
BY DEF Generator

LEMMA GeneratingIs ==
  /\ Generating["parity"] = "generate-parity"
  /\ Generating["exact"] = "generate-exact-replay"
  /\ Generating["distribution"] = "generate-distribution"
  /\ Generating["compatibility"] = "generate-compatibility"
  /\ Generating["report"] = "generate-consolidated-report"
BY DEF Generating

LEMMA SubjectIs ==
  /\ Subject["authority_preflight"] = "sources" /\ Subject["corpus_and_probes"] = "sources"
  /\ Subject["distribution_protocol"] = "sources" /\ Subject["deterministic_parity"] = "parity"
  /\ Subject["exact_replay"] = "exact" /\ Subject["batching_independence"] = "exact"
  /\ Subject["distributional_parity"] = "distribution"
  /\ Subject["statistical_compatibility"] = "compatibility"
  /\ Subject["consolidated_report"] = "report"
BY DEF Subject

(* A node has a script, and the first command of a generating node is the    *)
(* one that writes its document.                                             *)
LEMMA ScriptStarts ==
  /\ \A n \in Node : Len(Commands(n)) \in Nat \ {0}
  /\ \A k \in Document : Generator[k] \in Node /\ Commands(Generator[k])[1] = Generating[k]
  /\ \A j, k \in Document : Generating[j] = Generating[k] => j = k
<1>1. \A n \in Node : Len(Commands(n)) \in Nat \ {0}
  BY ScriptOf, NodesAre
<1>2. \A k \in Document : Generator[k] \in Node /\ Commands(Generator[k])[1] = Generating[k]
  BY ScriptOf, NodesAre, GeneratorIs, GeneratingIs DEF Document
<1>3. \A j, k \in Document : Generating[j] = Generating[k] => j = k
  BY GeneratingIs DEF Document
<1> QED BY <1>1, <1>2, <1>3

(* The controls, with the command that decides each of them. *)
LEMMA DecidesOnly ==
  \A command, c :
    <<command, c>> \in Decides =>
      \/ command = "validate-authorities" /\ c = "authority_preflight"
      \/ command = "validate-corpus" /\ c = "corpus_and_probes"
      \/ command = "validate-protocol" /\ c = "distribution_protocol"
      \/ command = "enforce-parity" /\ c = "deterministic_parity"
      \/ command = "enforce-exact-replay" /\ c = "exact_replay"
      \/ command = "enforce-batching" /\ c = "batching_independence"
      \/ command = "enforce-distribution" /\ c = "distributional_parity"
      \/ command = "enforce-compatibility" /\ c = "statistical_compatibility"
      \/ command = "validate-consolidated-report" /\ c = "consolidated_report"
BY DEF Decides

(* A control reads a document after the same node has written it. *)
LEMMA ScriptReads ==
  /\ \A k \in Document, c \in Control : <<Generating[k], c>> \notin Decides
  /\ \A n \in Node : \A i \in 1 .. Len(Commands(n)) : \A c \in Control :
       <<Commands(n)[i], c>> \in Decides /\ Subject[c] # "sources" =>
         Subject[c] \in Document /\ n = Generator[Subject[c]] /\ i # 1
<1>1. \A k \in Document, c \in Control : <<Generating[k], c>> \notin Decides
  BY GeneratingIs, DecidesOnly DEF Document
<1>2. ASSUME NEW n \in Node, NEW i \in 1 .. Len(Commands(n)), NEW c \in Control,
             <<Commands(n)[i], c>> \in Decides, Subject[c] # "sources"
      PROVE  Subject[c] \in Document /\ n = Generator[Subject[c]] /\ i # 1
  <2>1. CASE n = "statistical-authorities"
    <3>1. Len(Commands(n)) = 3
      BY <2>1, ScriptOf
    <3>2. i = 1 \/ i = 2 \/ i = 3
      BY <3>1
    <3> QED BY <1>2, <2>1, <3>2, ScriptOf, SubjectIs, DecidesOnly
  <2>2. CASE n = "statistical-deterministic-parity"
    BY <1>2, <2>2, ScriptOf, SubjectIs, GeneratorIs, DecidesOnly DEF Document
  <2>3. CASE n = "statistical-exact-replay"
    <3>1. Len(Commands(n)) = 3
      BY <2>3, ScriptOf
    <3>2. i = 1 \/ i = 2 \/ i = 3
      BY <3>1
    <3> QED BY <1>2, <2>3, <3>2, ScriptOf, SubjectIs, GeneratorIs, DecidesOnly DEF Document
  <2>4. CASE n = "statistical-distributional-parity"
    BY <1>2, <2>4, ScriptOf, SubjectIs, GeneratorIs, DecidesOnly DEF Document
  <2>5. CASE n = "statistical-compatibility"
    BY <1>2, <2>5, ScriptOf, SubjectIs, GeneratorIs, DecidesOnly DEF Document
  <2>6. CASE n = "statistical-consolidated-report"
    BY <1>2, <2>6, ScriptOf, SubjectIs, GeneratorIs, DecidesOnly DEF Document
  <2> QED BY <2>1, <2>2, <2>3, <2>4, <2>5, <2>6, NodesAre
<1> QED BY <1>1, <1>2

(***************************************************************************)
(* The inductive invariant.                                                *)
(***************************************************************************)
ProofControl ==
  {"deterministic_parity", "exact_replay", "batching_independence", "distributional_parity"}

(* The text of a document is what its generator makes of src. *)
MadeFrom(k, text, src) ==
  /\ k = "parity" => \E broken : text = ParityReport(src, broken)
  /\ k = "exact" => \E broken : text = ExactReplay(src, broken)
  /\ k = "distribution" => \E broken : text = DistributionEvidence(src, broken)
  /\ k = "compatibility" => text.authority = src.authority /\ text.components = src.semantics

(* An evidence of compatibility that matches, for the authority of src.      *)
Compatible(text, src) ==
  /\ text # Absent /\ CompatibilityStatuses(text) = {"match"}
  /\ text.authority = src.authority /\ text.components = src.semantics

(* What an attestation says of the sources in its own snapshot. *)
Truth(c, attestation) ==
  /\ c \in ProofControl => Claim(c, attestation.snapshot, Absent)
  /\ c = "statistical_compatibility" => Compatible(attestation.artifact, attestation.snapshot)
  /\ c = "consolidated_report" =>
       /\ attestation.artifact # Absent
       /\ StaticFiles(attestation.snapshot)
       /\ \A d \in ProofControl : Claim(d, attestation.snapshot, Absent)
       /\ Compatible(attestation.artifact.sources[8], attestation.snapshot)

SourcesInv == IsSource(workspace) /\ IsSource(head) /\ IsSource(tree)

ShapeInv ==
  /\ DOMAIN documents = Document /\ DOMAIN accepted = {"compatibility", "report"}
  /\ DOMAIN attested = Control /\ scope \subseteq Node
  /\ DOMAIN progress = Node /\ \A n \in Node : progress[n] \in 0 .. Len(Commands(n))
  /\ place \in {"none", "workspace", "copy"}
  /\ place = "none" => progress = NotBegun /\ scope = {}
  /\ edited \in BOOLEAN /\ torn \subseteq Control
  /\ edited => place = "workspace"

(* Once the first command of its node has succeeded, a document is about the *)
(* sources of the run, unless they have changed since.                       *)
FreshInv ==
  ~edited =>
    \A k \in Document : progress[Generator[k]] # 0 => MadeFrom(k, documents[k], tree)

(* The authority that a document was compared with is the one recorded. *)
OriginInv ==
  /\ documents["compatibility"] # Absent =>
       MadeAgainst(documents["compatibility"], accepted["compatibility"])
  /\ documents["report"] # Absent /\ documents["report"].sources[8] # Absent =>
       MadeAgainst(documents["report"].sources[8], accepted["report"])

AttestedInv ==
  \A c \in Control : attested[c] # Absent /\ c \notin torn => Truth(c, attested[c])

IInv == SourcesInv /\ ShapeInv /\ FreshInv /\ OriginInv /\ AttestedInv

(* The claims of the four proofs do not depend on the accepted authority.    *)
LEMMA ClaimOfProof ==
  \A c \in ProofControl : \A src, old : Claim(c, src, Absent) => Claim(c, src, old)
BY DEF Claim, ProofControl

(* The other controls claim nothing more. *)
LEMMA ClaimOfSources ==
  \A c \in Control \ (ProofControl \cup {"statistical_compatibility"}) :
    \A src, old : Claim(c, src, old)
BY DEF Claim, ProofControl, Control

(* The invariant makes every attestation that verifies tell the truth. *)
LEMMA InvariantIsEnough ==
  IInv => ControlsAreTrue
<1> SUFFICES ASSUME IInv, NEW c \in Control, Verifies(c), c \notin torn
             PROVE  IF c = "consolidated_report"
                      THEN /\ StaticFiles(tree)
                           /\ \A d \in Control : Claim(d, tree, accepted.report)
                    ELSE Claim(c, tree, accepted.compatibility)
  BY DEF ControlsAreTrue
<1>1. Truth(c, attested[c]) /\ attested[c].snapshot = tree /\ attested[c].artifact = Attested(c)
  BY DEF IInv, AttestedInv, Verifies, Snapshot
<1>2. \A text, old : Compatible(text, tree) /\ MadeAgainst(text, old) =>
                       Claim("statistical_compatibility", tree, old)
  BY CompatibilityIsTrue DEF Compatible
<1>3. CASE c = "consolidated_report"
  <2>1. Attested(c) = documents["report"]
    BY <1>3, SubjectIs DEF Attested
  <2>2. /\ documents["report"] # Absent /\ StaticFiles(tree)
        /\ \A d \in ProofControl : Claim(d, tree, Absent)
        /\ Compatible(documents["report"].sources[8], tree)
    BY <1>1, <1>3, <2>1 DEF Truth
  <2>3. MadeAgainst(documents["report"].sources[8], accepted["report"])
    BY <2>2 DEF IInv, OriginInv, Compatible
  <2>4. Claim("statistical_compatibility", tree, accepted["report"])
    BY <1>2, <2>2, <2>3
  <2>5. \A d \in Control : Claim(d, tree, accepted["report"])
    BY <2>2, <2>4, ClaimOfProof, ClaimOfSources
  <2> QED BY <1>3, <2>2, <2>5
<1>4. CASE c = "statistical_compatibility"
  <2>1. Attested(c) = documents["compatibility"]
    BY <1>4, SubjectIs DEF Attested
  <2>2. Compatible(documents["compatibility"], tree)
    BY <1>1, <1>4, <2>1 DEF Truth
  <2>3. MadeAgainst(documents["compatibility"], accepted["compatibility"])
    BY <2>2 DEF IInv, OriginInv, Compatible
  <2> QED BY <1>2, <1>4, <2>2, <2>3
<1>5. CASE c \in ProofControl
  <2>1. Claim(c, tree, Absent)
    BY <1>1, <1>5 DEF Truth
  <2>2. c # "consolidated_report"
    BY <1>5 DEF ProofControl
  <2> QED BY <1>5, <2>1, <2>2, ClaimOfProof
<1>6. CASE c \in Control \ (ProofControl \cup {"statistical_compatibility", "consolidated_report"})
  BY <1>6, ClaimOfSources
<1> QED BY <1>3, <1>4, <1>5, <1>6

(* Nothing is attested at first. *)
LEMMA Initial ==
  Init => IInv
<1> SUFFICES ASSUME Init PROVE IInv
  OBVIOUS
<1>1. SourcesInv
  BY SourceAssumption DEF Init, SourcesInv
<1>2. /\ \A k \in Document : documents[k] = Absent
      /\ DOMAIN documents = Document
  BY DEF Init, NoDocument, Document
<1>3. ShapeInv
  <2>1. \A n \in Node : 0 \in 0 .. Len(Commands(n))
    BY ScriptStarts
  <2> QED BY <1>2, <2>1 DEF Init, ShapeInv, NotBegun, Nothing
<1>4. FreshInv
  BY ScriptStarts DEF Init, FreshInv, NotBegun
<1>5. OriginInv
  BY <1>2 DEF OriginInv, Document
<1>6. AttestedInv
  BY DEF Init, AttestedInv, Nothing
<1> QED BY <1>1, <1>3, <1>4, <1>5, <1>6 DEF IInv

(***************************************************************************)
(* The steps.                                                              *)
(***************************************************************************)

(* Where a node that goes on stands. *)
LEMMA Going ==
  ASSUME IInv, NEW n, CanGoOn(n)
  PROVE  /\ n \in Node /\ place # "none" /\ progress[n] \in Nat
         /\ progress[n] + 1 \in 1 .. Len(Commands(n))
<1>1. n \in Node /\ place # "none"
  BY DEF CanGoOn, IInv, ShapeInv
<1>2. progress[n] \in 0 .. Len(Commands(n)) /\ progress[n] # Len(Commands(n))
  BY <1>1 DEF CanGoOn, Completed, IInv, ShapeInv
<1>3. Len(Commands(n)) \in Nat
  BY <1>1, ScriptStarts
<1> QED BY <1>1, <1>2, <1>3

(* What a command, whether it succeeds or fails, does to the progress. *)
LEMMA Progresses ==
  ASSUME IInv, NEW n, CanGoOn(n), Succeeds(n) \/ Fails(n)
  PROVE  /\ DOMAIN progress' = Node
         /\ \A m \in Node : progress'[m] \in 0 .. Len(Commands(m))
         /\ \A m \in Node : m # n => progress'[m] = progress[m]
<1>1. n \in Node /\ progress[n] \in Nat /\ progress[n] + 1 \in 1 .. Len(Commands(n))
  BY Going
<1>2. DOMAIN progress = Node /\ \A m \in Node : progress[m] \in 0 .. Len(Commands(m))
  BY DEF IInv, ShapeInv
<1>3. CASE Fails(n)
  BY <1>2, <1>3 DEF Fails
<1>4. CASE Succeeds(n)
  <2>1. DOMAIN progress' = Node /\ \A m \in Node : m # n => progress'[m] = progress[m]
    BY <1>2, <1>4 DEF Succeeds
  <2>2. progress'[n] = progress[n] + 1
    BY <1>1, <1>2, <1>4 DEF Succeeds
  <2>3. progress'[n] \in 0 .. Len(Commands(n))
    <3>1. Len(Commands(n)) \in Nat
      BY <1>1, ScriptStarts
    <3> QED BY <1>1, <2>2, <3>1
  <2>4. ASSUME NEW m \in Node
        PROVE  progress'[m] \in 0 .. Len(Commands(m))
    BY <1>2, <2>1, <2>3
  <2> QED BY <2>1, <2>4
<1> QED BY <1>3, <1>4

(* A document that is written is about the sources of the run. *)
LEMMA Written ==
  ASSUME IInv, NEW n, NEW k \in Document, NEW text, NEW success,
         Generates(n, Generating[k]), Write(n, k, text, success), MadeFrom(k, text, tree),
         DOMAIN accepted' = {"compatibility", "report"}, OriginInv'
  PROVE  IInv'
<1> USE DEF Generates
<1>1. CanGoOn(n) /\ n \in Node /\ place # "none"
  BY Going
<1>2. /\ DOMAIN progress' = Node
      /\ \A m \in Node : progress'[m] \in 0 .. Len(Commands(m))
      /\ \A m \in Node : m # n => progress'[m] = progress[m]
  BY <1>1, Progresses DEF Write
<1>3. /\ DOMAIN documents' = Document /\ documents'[k] = text
      /\ \A j \in Document : j # k => documents'[j] = documents[j]
  BY DEF Write, IInv, ShapeInv
<1>4. SourcesInv' /\ AttestedInv'
  BY DEF IInv, SourcesInv, AttestedInv
<1>5. ShapeInv'
  BY <1>1, <1>2, <1>3 DEF IInv, ShapeInv
<1>6. FreshInv'
  <2> SUFFICES ASSUME ~edited, NEW j \in Document, progress'[Generator[j]] # 0
               PROVE  MadeFrom(j, documents'[j], tree)
    BY DEF FreshInv
  <2>1. CASE j = k
    BY <1>3, <2>1
  <2>2. CASE j # k
    <3>1. Generator[j] \in Node
      BY ScriptStarts
    <3>2. CASE progress[Generator[j]] # 0
      BY <1>3, <2>2, <3>2 DEF IInv, FreshInv
    <3>3. CASE progress[Generator[j]] = 0
      <4>1. Generator[j] = n
        BY <1>2, <3>1, <3>3
      <4>2. Command(n) = Commands(Generator[j])[1]
        BY <3>3, <4>1 DEF Command
      <4>3. Generating[j] = Generating[k]
        BY <4>2, ScriptStarts
      <4> QED BY <2>2, <4>3, ScriptStarts
    <3> QED BY <3>2, <3>3
  <2> QED BY <2>1, <2>2
<1> QED BY <1>4, <1>5, <1>6 DEF IInv

(* A control passes: what it then attests is true of the sources of the run. *)
LEMMA PassedIsTrue ==
  ASSUME IInv, NEW n, NEW c \in Control, CanGoOn(n), <<Command(n), c>> \in Decides, Passes(c),
         ~Torn(c)
  PROVE  Truth(c, [snapshot |-> Snapshot(tree), artifact |-> Attested(c)])
<1>1. /\ n \in Node /\ progress[n] \in Nat /\ progress[n] + 1 \in 1 .. Len(Commands(n))
      /\ IsSource(tree) /\ Snapshot(tree) = tree
  BY Going DEF IInv, SourcesInv, Snapshot
<1>2. Subject[c] \in {"parity", "exact", "distribution", "compatibility"} =>
        MadeFrom(Subject[c], documents[Subject[c]], tree)
  <2> SUFFICES ASSUME Subject[c] \in {"parity", "exact", "distribution", "compatibility"}
               PROVE  MadeFrom(Subject[c], documents[Subject[c]], tree)
    OBVIOUS
  <2>0. ~edited
    BY DEF Torn
  <2>1. Subject[c] \in Document /\ n = Generator[Subject[c]] /\ progress[n] + 1 # 1
    BY <1>1, ScriptReads DEF Command
  <2>2. progress[Generator[Subject[c]]] # 0
    BY <1>1, <2>1
  <2> QED BY <2>0, <2>1, <2>2 DEF IInv, FreshInv
<1>3. /\ Required(c)
      /\ \/ SourcesAreValid(c, tree)
         \/ ProofMatches(c, tree, documents)
         \/ c = "consolidated_report" /\ ReportMatches(tree, documents)
  BY DEF Passes
<1>4. CASE c = "deterministic_parity"
  <2>1. /\ UsableParity(documents["parity"], tree)
        /\ ParityStatuses(documents["parity"]) = {"match"}
    BY <1>3, <1>4 DEF SourcesAreValid, ProofMatches
  <2>2. \E broken : documents["parity"] = ParityReport(tree, broken)
    BY <1>2, <1>4, SubjectIs DEF MadeFrom
  <2>3. Claim(c, tree, Absent)
    BY <1>1, <1>4, <2>1, <2>2, ParityIsTrue
  <2> QED BY <1>1, <1>4, <2>3 DEF Truth
<1>5. CASE c = "exact_replay"
  <2>1. /\ UsableReplay(documents["exact"], tree)
        /\ ReplayStatuses(documents["exact"]) = {"match"}
    BY <1>3, <1>5 DEF SourcesAreValid, ProofMatches
  <2>2. \E broken : documents["exact"] = ExactReplay(tree, broken)
    BY <1>2, <1>5, SubjectIs DEF MadeFrom
  <2>3. Claim(c, tree, Absent)
    BY <1>1, <1>5, <2>1, <2>2, ReplayIsTrue
  <2> QED BY <1>1, <1>5, <2>3 DEF Truth
<1>6. CASE c = "batching_independence"
  <2>1. /\ UsableReplay(documents["exact"], tree)
        /\ BatchingStatuses(documents["exact"]) = {"match"}
    BY <1>3, <1>6 DEF SourcesAreValid, ProofMatches
  <2>2. \E broken : documents["exact"] = ExactReplay(tree, broken)
    BY <1>2, <1>6, SubjectIs DEF MadeFrom
  <2>3. Claim(c, tree, Absent)
    BY <1>1, <1>6, <2>1, <2>2, BatchingIsTrue
  <2> QED BY <1>1, <1>6, <2>3 DEF Truth
<1>7. CASE c = "distributional_parity"
  <2>1. /\ UsableDistribution(documents["distribution"], tree)
        /\ DistributionStatuses(documents["distribution"]) = {"match"}
    BY <1>3, <1>7 DEF SourcesAreValid, ProofMatches
  <2>2. \E broken : documents["distribution"] = DistributionEvidence(tree, broken)
    BY <1>2, <1>7, SubjectIs DEF MadeFrom
  <2>3. Claim(c, tree, Absent)
    BY <1>1, <1>7, <2>1, <2>2, DistributionIsTrue
  <2> QED BY <1>1, <1>7, <2>3 DEF Truth
<1>8. CASE c = "statistical_compatibility"
  <2>1. /\ documents["compatibility"] # Absent
        /\ CompatibilityStatuses(documents["compatibility"]) = {"match"}
    BY <1>3, <1>8 DEF SourcesAreValid, ProofMatches
  <2>2. Compatible(documents["compatibility"], tree)
    BY <1>2, <1>8, <2>1, SubjectIs DEF MadeFrom, Compatible
  <2>3. Attested(c) = documents["compatibility"]
    BY <1>8, SubjectIs DEF Attested
  <2> QED BY <1>1, <1>8, <2>2, <2>3 DEF Truth, ProofControl
<1>9. CASE c = "consolidated_report"
  <2>1. ReportMatches(tree, documents)
    BY <1>3, <1>9 DEF SourcesAreValid, ProofMatches
  <2>2. /\ documents["report"] # Absent /\ StaticFiles(tree)
        /\ documents["report"].sources[8] = documents["compatibility"]
    BY <1>1, <2>1, ReportIsTrue DEF ReportMatches
  <2>3. \A d \in ProofControl \cup {"statistical_compatibility"} : Verifies(d)
    BY <1>3, <1>9 DEF Required, Requirements, ProofControl
  <2>8. \A d \in ProofControl \cup {"statistical_compatibility"} : d \notin torn
    BY <1>9 DEF Torn, Requirements, ProofControl
  <2>4. \A d \in ProofControl \cup {"statistical_compatibility"} :
          Truth(d, attested[d]) /\ attested[d].snapshot = tree /\ attested[d].artifact = Attested(d)
    BY <1>1, <2>3, <2>8 DEF Verifies, IInv, AttestedInv, Control, ProofControl
  <2>5. \A d \in ProofControl : Claim(d, tree, Absent)
    BY <2>4 DEF Truth
  <2>6. Compatible(documents["compatibility"], tree)
    BY <2>4, SubjectIs DEF Truth, Attested
  <2>7. Attested(c) = documents["report"]
    BY <1>9, SubjectIs DEF Attested
  <2> QED BY <1>1, <1>9, <2>2, <2>5, <2>6, <2>7 DEF Truth, ProofControl
<1>10. CASE c \in Control \ (ProofControl \cup {"statistical_compatibility", "consolidated_report"})
  BY <1>10 DEF Truth
<1> QED BY <1>4, <1>5, <1>6, <1>7, <1>8, <1>9, <1>10 DEF ProofControl

(* The generating steps. *)
LEMMA GeneratesParity ==
  ASSUME IInv, NEW n, NEW broken, GenerateParity(n, broken)
  PROVE  IInv'
<1>1. PICK text \in {ParityReport(tree, broken)} : Write(n, "parity", text, ~EvidenceFails(text))
  BY DEF GenerateParity
<1>2. MadeFrom("parity", text, tree)
  BY <1>1 DEF MadeFrom
<1>3. Generates(n, Generating["parity"]) /\ UNCHANGED accepted
  BY GeneratingIs DEF GenerateParity, Break
<1>4. OriginInv'
  BY <1>1, <1>3 DEF Write, IInv, OriginInv, ShapeInv, Document
<1>5. DOMAIN accepted' = {"compatibility", "report"}
  BY <1>3 DEF IInv, ShapeInv
<1> QED BY <1>1, <1>2, <1>3, <1>4, <1>5, Written DEF Document

LEMMA GeneratesExactReplay ==
  ASSUME IInv, NEW n, NEW broken, GenerateExactReplay(n, broken)
  PROVE  IInv'
<1>1. PICK text \in {ExactReplay(tree, broken)} : Write(n, "exact", text, ~EvidenceFails(text))
  BY DEF GenerateExactReplay
<1>2. MadeFrom("exact", text, tree)
  BY <1>1 DEF MadeFrom
<1>3. Generates(n, Generating["exact"]) /\ UNCHANGED accepted
  BY GeneratingIs DEF GenerateExactReplay, Break
<1>4. OriginInv'
  BY <1>1, <1>3 DEF Write, IInv, OriginInv, ShapeInv, Document
<1>5. DOMAIN accepted' = {"compatibility", "report"}
  BY <1>3 DEF IInv, ShapeInv
<1> QED BY <1>1, <1>2, <1>3, <1>4, <1>5, Written DEF Document

LEMMA GeneratesDistribution ==
  ASSUME IInv, NEW n, NEW broken, GenerateDistribution(n, broken)
  PROVE  IInv'
<1>1. PICK text \in {DistributionEvidence(tree, broken)} :
        Write(n, "distribution", text, ~EvidenceFails(text))
  BY DEF GenerateDistribution
<1>2. MadeFrom("distribution", text, tree)
  BY <1>1 DEF MadeFrom
<1>3. Generates(n, Generating["distribution"]) /\ UNCHANGED accepted
  BY GeneratingIs DEF GenerateDistribution, Break
<1>4. OriginInv'
  BY <1>1, <1>3 DEF Write, IInv, OriginInv, ShapeInv, Document
<1>5. DOMAIN accepted' = {"compatibility", "report"}
  BY <1>3 DEF IInv, ShapeInv
<1> QED BY <1>1, <1>2, <1>3, <1>4, <1>5, Written DEF Document

(* A generation that writes nothing changes no document. *)
LEMMA NothingWritten ==
  ASSUME IInv, NEW n, NEW command, Generates(n, command), WriteNothing(n)
  PROVE  IInv'
<1>1. UNCHANGED <<workspace, head, place, tree, scope, attested, progress, documents, accepted,
                  edited, torn>>
  BY DEF Generates, WriteNothing, Fails
<1> QED BY <1>1 DEF IInv, SourcesInv, ShapeInv, FreshInv, OriginInv, AttestedInv

(* The evidence is about the authority of the run and that of HEAD. *)
LEMMA GeneratesCompatibility ==
  ASSUME IInv, NEW n, GenerateCompatibility(n)
  PROVE  IInv'
<1>1. Generates(n, Generating["compatibility"])
  BY GeneratingIs DEF GenerateCompatibility
<1>2. CASE tree.authority = Absent
  BY <1>1, <1>2, NothingWritten DEF GenerateCompatibility
<1>3. CASE tree.authority # Absent
  <2>1. PICK read, diagnostics, text :
          /\ diagnostics = CompatibilityDiagnostics(tree.authority, head.authority,
                                                    tree.semantics, read)
          /\ text = CompatibilityEvidence(tree.authority, tree.semantics, read, diagnostics)
          /\ Write(n, "compatibility", text, diagnostics = {})
          /\ accepted' = [accepted EXCEPT !.compatibility = head.authority]
    BY <1>3 DEF GenerateCompatibility
  <2>2. text.authority = tree.authority /\ text.components = tree.semantics
    BY <2>1 DEF CompatibilityEvidence
  <2>3. MadeFrom("compatibility", text, tree)
    BY <2>2 DEF MadeFrom
  <2>4. MadeAgainst(text, head.authority)
    <3>1. HasReleases(tree.authority.components)
      BY <1>3 DEF IInv, SourcesInv, IsSource
    <3>2. head.authority # Absent => HasReleases(head.authority.components)
      BY DEF IInv, SourcesInv, IsSource
    <3> QED BY <2>1, <3>1, <3>2 DEF MadeAgainst
  <2>5. /\ DOMAIN accepted' = {"compatibility", "report"}
        /\ accepted'["compatibility"] = head.authority /\ accepted'["report"] = accepted["report"]
    BY <2>1 DEF IInv, ShapeInv
  <2>6. documents'["compatibility"] = text /\ documents'["report"] = documents["report"]
    BY <2>1 DEF Write, IInv, ShapeInv, Document
  <2>7. OriginInv'
    BY <2>4, <2>5, <2>6 DEF IInv, OriginInv
  <2> QED BY <1>1, <2>1, <2>3, <2>5, <2>7, Written DEF Document
<1> QED BY <1>2, <1>3

(* The report carries that evidence with it. *)
LEMMA GeneratesReport ==
  ASSUME IInv, NEW n, GenerateReport(n)
  PROVE  IInv'
<1>1. Generates(n, Generating["report"])
  BY GeneratingIs DEF GenerateReport
<1>2. CASE Crashes(tree, documents)
  BY <1>1, <1>2, NothingWritten DEF GenerateReport
<1>3. CASE ~Crashes(tree, documents)
  <2>1. PICK text \in {ConsolidatedReport(tree, documents)} :
          /\ Write(n, "report", text, text.verdict \notin GeneratorFailures)
          /\ accepted' = [accepted EXCEPT !.report = accepted.compatibility]
    BY <1>3 DEF GenerateReport
  <2>2. text.sources[8] = documents["compatibility"]
    BY <2>1 DEF ConsolidatedReport, ReportSources
  <2>3. MadeFrom("report", text, tree)
    BY DEF MadeFrom
  <2>4. /\ DOMAIN accepted' = {"compatibility", "report"}
        /\ accepted'["compatibility"] = accepted["compatibility"]
        /\ accepted'["report"] = accepted["compatibility"]
    BY <2>1 DEF IInv, ShapeInv
  <2>5. documents'["report"] = text /\ documents'["compatibility"] = documents["compatibility"]
    BY <2>1 DEF Write, IInv, ShapeInv, Document
  <2>6. OriginInv'
    BY <2>2, <2>4, <2>5 DEF IInv, OriginInv
  <2> QED BY <1>1, <2>1, <2>3, <2>4, <2>6, Written DEF Document
<1> QED BY <1>2, <1>3

(* A command that decides a control. *)
LEMMA Decided ==
  ASSUME IInv, NEW n, NEW c \in Control, Decide(n, c)
  PROVE  IInv'
<1>1. /\ CanGoOn(n) /\ <<Command(n), c>> \in Decides
      /\ UNCHANGED <<workspace, head, place, tree, scope, documents, accepted, edited>>
      /\ IF Passes(c) THEN Succeeds(n) /\ Attest(c) ELSE Fails(n) /\ UNCHANGED <<attested, torn>>
  BY DEF Decide
<1>2. n \in Node /\ place # "none"
  BY <1>1, Going
<1>3. /\ DOMAIN progress' = Node
      /\ \A m \in Node : progress'[m] \in 0 .. Len(Commands(m))
      /\ \A m \in Node : m # n => progress'[m] = progress[m]
  BY <1>1, Progresses
<1>4. SourcesInv' /\ OriginInv'
  BY <1>1 DEF IInv, SourcesInv, OriginInv
<1>5. /\ DOMAIN attested' = Control /\ torn' \subseteq Control
      /\ \A d \in Control : d # c => attested'[d] = attested[d] /\ (d \in torn' <=> d \in torn)
  BY <1>1 DEF Attest, IInv, ShapeInv
<1>6. ShapeInv'
  BY <1>1, <1>2, <1>3, <1>5 DEF IInv, ShapeInv
<1>7. FreshInv'
  <2> SUFFICES ASSUME ~edited, NEW k \in Document, progress'[Generator[k]] # 0
               PROVE  progress[Generator[k]] # 0
    BY <1>1 DEF IInv, FreshInv
  <2> SUFFICES ASSUME progress[Generator[k]] = 0
               PROVE  FALSE
    OBVIOUS
  <2>1. Generator[k] = n
    BY <1>3, ScriptStarts
  <2>2. Command(n) = Generating[k]
    BY <2>1, ScriptStarts DEF Command
  <2> QED BY <1>1, <2>2, ScriptReads
<1>8. AttestedInv'
  <2> SUFFICES ASSUME NEW d \in Control, attested'[d] # Absent, d \notin torn'
               PROVE  Truth(d, attested'[d])
    BY DEF AttestedInv
  <2>1. CASE d = c /\ Passes(c)
    <3>1. attested'[d] = [snapshot |-> Snapshot(tree), artifact |-> Attested(c)]
      BY <1>1, <2>1 DEF Attest, IInv, ShapeInv
    <3>2. ~Torn(c)
      BY <1>1, <2>1 DEF Attest
    <3> QED BY <1>1, <2>1, <3>1, <3>2, PassedIsTrue
  <2>2. CASE ~(d = c /\ Passes(c))
    <3>1. attested'[d] = attested[d] /\ d \notin torn
      BY <1>1, <1>5, <2>2
    <3> QED BY <3>1 DEF IInv, AttestedInv
  <2> QED BY <2>1, <2>2
<1> QED BY <1>4, <1>6, <1>7, <1>8 DEF IInv

(* Nothing of what the last run has begun is left when it ends. *)
LEMMA Ended ==
  ASSUME IInv, End
  PROVE  IInv'
<1>1. /\ place' = "none" /\ scope' = {} /\ progress' = NotBegun /\ tree' = workspace
      /\ UNCHANGED <<workspace, head, accepted, torn>> /\ edited' = FALSE
      /\ \/ documents' = NoDocument /\ attested' = Nothing
         \/ UNCHANGED <<documents, attested>>
  BY DEF End
<1>2. SourcesInv'
  BY <1>1 DEF IInv, SourcesInv
<1>3. \A n \in Node : 0 \in 0 .. Len(Commands(n))
  BY ScriptStarts
<1>4. DOMAIN documents' = Document /\ DOMAIN attested' = Control
  BY <1>1 DEF NoDocument, Nothing, Document, IInv, ShapeInv
<1>5. ShapeInv'
  BY <1>1, <1>3, <1>4 DEF IInv, ShapeInv, NotBegun
<1>6. FreshInv'
  BY <1>1, ScriptStarts DEF FreshInv, NotBegun
<1>7. CASE documents' = NoDocument /\ attested' = Nothing
  <2>1. documents'["compatibility"] = Absent /\ documents'["report"] = Absent
    BY <1>7 DEF NoDocument
  <2>2. OriginInv'
    BY <2>1 DEF OriginInv
  <2>3. AttestedInv'
    BY <1>7 DEF AttestedInv, Nothing
  <2> QED BY <1>2, <1>5, <1>6, <2>2, <2>3 DEF IInv
<1>8. CASE UNCHANGED <<documents, attested>>
  <2>1. OriginInv' /\ AttestedInv'
    BY <1>1, <1>8 DEF IInv, OriginInv, AttestedInv
  <2> QED BY <1>2, <1>5, <1>6, <2>1 DEF IInv
<1> QED BY <1>1, <1>7, <1>8

(* The steps outside of the commands: where the tree changes, no command has *)
(* succeeded yet, so that no document has to be about it, or it is noted.    *)
LEMMA Outside ==
  ASSUME IInv, UNCHANGED <<progress, documents, accepted, attested, torn>>, SourcesInv',
         place' \in {"none", "workspace", "copy"}, scope' \subseteq Node,
         place' = "none" => place = "none" /\ scope' = scope,
         edited' \in BOOLEAN, edited' => place' = "workspace",
         \/ UNCHANGED <<tree, edited>>
         \/ edited' \/ progress = NotBegun
  PROVE  IInv'
<1>1. ShapeInv'
  BY DEF IInv, ShapeInv
<1>2. FreshInv'
  <2>1. CASE UNCHANGED <<tree, edited>>
    BY <2>1 DEF IInv, FreshInv
  <2>2. CASE edited'
    BY <2>2 DEF FreshInv
  <2>3. CASE progress = NotBegun
    BY <2>3, ScriptStarts DEF FreshInv, NotBegun
  <2> QED BY <2>1, <2>2, <2>3
<1>3. OriginInv' /\ AttestedInv'
  BY DEF IInv, OriginInv, AttestedInv
<1> QED BY <1>1, <1>2, <1>3 DEF IInv

(* One step of any kind. *)
LEMMA Stepping ==
  ASSUME IInv, [Next]_vars
  PROVE  IInv'
<1> USE DEF runVars
<1>1. CASE Edit
  <2>1. PICK e \in Edits : e[1] = workspace /\ workspace' = e[2]
    BY <1>1 DEF Edit
  <2>2. IsSource(workspace')
    BY <2>1, SourceAssumption
  <2>3. SourcesInv'
    BY <1>1, <2>2 DEF Edit, IInv, SourcesInv
  <2>4. UNCHANGED <<progress, documents, accepted, attested, torn, place, scope>>
    BY <1>1 DEF Edit
  <2>5. edited' = (place = "workspace" /\ progress # NotBegun)
    BY <1>1 DEF Edit
  <2>6. UNCHANGED <<tree, edited>> \/ edited' \/ progress = NotBegun
    <3>1. CASE place = "copy"
      BY <1>1, <2>5, <3>1 DEF Edit, IInv, ShapeInv
    <3>2. CASE place # "copy"
      BY <1>1, <2>5, <3>2 DEF IInv, ShapeInv
    <3> QED BY <3>1, <3>2
  <2>7. edited' \in BOOLEAN /\ (edited' => place' = "workspace")
    BY <2>4, <2>5
  <2> QED BY <2>3, <2>4, <2>6, <2>7, Outside DEF IInv, ShapeInv
<1>2. CASE Commit
  <2>1. SourcesInv' /\ UNCHANGED <<progress, documents, accepted, attested, place, scope, tree,
                             edited, torn>>
    BY <1>2 DEF Commit, IInv, SourcesInv
  <2> QED BY <2>1, Outside DEF IInv, ShapeInv
<1>3. ASSUME NEW n \in Node, StartNode(n)
      PROVE  IInv'
  <2>1. /\ SourcesInv' /\ UNCHANGED <<progress, documents, accepted, attested, edited, torn>>
        /\ place = "none" /\ place' = "workspace" /\ scope' \subseteq Node
    BY <1>3 DEF StartNode, IInv, SourcesInv
  <2> QED BY <2>1, Outside DEF IInv, ShapeInv
<1>4. CASE StartComplete
  <2>1. /\ SourcesInv' /\ UNCHANGED <<progress, documents, accepted, attested, edited, torn>>
        /\ place = "none" /\ place' = "copy" /\ scope' \subseteq Node
    BY <1>4 DEF StartComplete, IInv, SourcesInv
  <2> QED BY <2>1, Outside DEF IInv, ShapeInv
<1>5. CASE RunStep
  BY <1>5, GeneratesParity, GeneratesExactReplay, GeneratesDistribution, GeneratesCompatibility,
     GeneratesReport, Decided, Ended DEF RunStep
<1>6. CASE Rest \/ UNCHANGED vars
  <2>1. UNCHANGED vars
    BY <1>6 DEF Rest
  <2> QED BY <2>1 DEF vars, IInv, SourcesInv, ShapeInv, FreshInv, OriginInv, AttestedInv
<1> QED BY <1>1, <1>2, <1>3, <1>4, <1>5, <1>6 DEF Next

(* An attestation that verifies tells the truth about the sources as they    *)
(* are, whatever was edited, committed, run and left behind before it, with  *)
(* the exception of those that a run in the workspace itself wrote on proofs *)
(* made before an edit of its sources, and of those that rest on them (torn).*)
THEOREM ControlsTellTheTruth == Spec => []ControlsAreTrue
<1>1. IInv /\ [Next]_vars => IInv'
  BY Stepping
<1> QED BY Initial, <1>1, InvariantIsEnough, PTL DEF Spec
-----------------------------------------------------------------------------
(***************************************************************************)
(* The two readers.                                                        *)
(***************************************************************************)

(* Sources that are valid, and proofs that are there.                        *)
SoundSources(src) ==
  /\ StaticFiles(src) /\ src.corpus.valid /\ src.probes.valid
  /\ ProtocolIssue(src.protocol) = "none"

Complete(proofs) ==
  /\ proofs.parity # Absent /\ proofs.exact # Absent /\ proofs.distribution # Absent
  /\ proofs.compatibility # Absent

LEMMA WhenPairs ==
  \A condition, source, class :
    \A d : d \in When(condition, source, class) <=> condition /\ d = <<source, class>>
BY DEF When

LEMMA OnlyPair ==
  \A a, b : <<a, b>>[1] = a
OBVIOUS

(* The parity report and the replay may be refused by their schema. *)
LEMMA LoadedInOrder ==
  ASSUME NEW src, NEW proofs, SoundSources(src), Complete(proofs), NEW d
  PROVE  d \in Loaded(src, proofs) <=>
           \/ proofs.parity.status = "invalid_corpus" /\ d = <<"deterministic_parity", "invalid_evidence">>
           \/ /\ proofs.exact.status \in {"invalid_corpus", "invalid_configuration"}
              /\ d = <<"exact_replay", "invalid_evidence">>
<1> DEFINE invalid == {<<f, FileClass[src.files[f]]>> : f \in {g \in DOMAIN src.files : src.files[g] # "valid"}}
<1>1. invalid = {}
  BY DEF SoundSources, StaticFiles
<1>2. src.protocol.wellFormed
  BY DEF SoundSources, ProtocolIssue
<1> HIDE DEF invalid
<1>3. /\ When(~src.corpus.valid, "reference_corpus", "invalid_evidence") = {}
      /\ When(~src.probes.valid, "validation_probes", "invalid_evidence") = {}
      /\ When(~src.protocol.wellFormed, "distribution_protocol", "invalid_evidence") = {}
      /\ When(proofs.distribution = Absent, "distribution_evidence", "invalid_evidence") = {}
      /\ When(proofs.compatibility = Absent, "compatibility_evidence", "invalid_evidence") = {}
  BY <1>2 DEF When, SoundSources, Complete
<1> DEFINE parity == When(IF proofs.parity = Absent THEN TRUE ELSE proofs.parity.status = "invalid_corpus",
                          "deterministic_parity", "invalid_evidence")
           exact == When(IF proofs.exact = Absent THEN TRUE
                         ELSE proofs.exact.status \in {"invalid_corpus", "invalid_configuration"},
                         "exact_replay", "invalid_evidence")
<1>4. d \in parity <=> proofs.parity.status = "invalid_corpus"
                          /\ d = <<"deterministic_parity", "invalid_evidence">>
  BY DEF When, Complete
<1>5. d \in exact <=> proofs.exact.status \in {"invalid_corpus", "invalid_configuration"}
                         /\ d = <<"exact_replay", "invalid_evidence">>
  BY DEF When, Complete
<1> HIDE DEF parity, exact
<1>6. Loaded(src, proofs) = parity \cup exact
  BY <1>1, <1>3 DEF Loaded, invalid, parity, exact
<1> QED BY <1>4, <1>5, <1>6

LEMMA ProtocolInOrder ==
  ASSUME NEW src, NEW loaded, SoundSources(src)
  PROVE  CrossProtocol(src, loaded) = {}
<1>1. src.protocol.compatible /\ src.protocol.seeds /\ src.protocol.scenarios /\ ResolvesHolm(src.protocol)
  BY DEF SoundSources, ProtocolIssue, ProtocolIsCoherent
<1> QED BY <1>1 DEF CrossProtocol, When

(* A proof is available exactly when its own control can use it.             *)
LEMMA AvailableProofs ==
  ASSUME NEW src, NEW proofs, SoundSources(src), Complete(proofs)
  PROVE  /\ Available(Validated(src, proofs), "deterministic_parity") <=> UsableParity(proofs.parity, src)
         /\ Available(Validated(src, proofs), "exact_replay") <=> UsableReplay(proofs.exact, src)
         /\ Available(Validated(src, proofs), "distribution_evidence")
              <=> UsableDistribution(proofs.distribution, src)
         /\ Available(Validated(src, proofs), "compatibility_evidence")
              <=> proofs.compatibility.status \notin {"blocked", "control_error"}
<1> DEFINE loaded == Loaded(src, proofs)
           cross == CrossProofs(src, proofs, loaded)
           dist == CrossDistribution(src, proofs.distribution, loaded)
           compat == CASE proofs.compatibility.status = "blocked" ->
                         {<<"compatibility_evidence", "version_incompatibility">>}
                    [] proofs.compatibility.status = "control_error" ->
                         {<<"compatibility_evidence", "invalid_evidence">>}
                    [] OTHER -> {}
<1>1. Validated(src, proofs) = loaded \cup cross \cup dist
  <2>1. loaded \cup CrossProtocol(src, loaded) = loaded
    BY ProtocolInOrder
  <2> HIDE DEF loaded
  <2> QED BY <2>1 DEF Validated, loaded
<1>2. /\ Available(loaded, "reference_corpus") /\ Available(loaded, "validation_probes")
      /\ Available(loaded, "distribution_protocol") /\ Available(loaded, "distribution_seed_population")
      /\ Available(loaded, "distribution_evidence") /\ Available(loaded, "compatibility_evidence")
      /\ Available(loaded, "deterministic_parity") <=> ~(proofs.parity.status = "invalid_corpus")
      /\ Available(loaded, "exact_replay") <=>
           ~(proofs.exact.status \in {"invalid_corpus", "invalid_configuration"})
  <2> HIDE DEF loaded
  <2>1. \A d : d \in loaded <=>
           \/ proofs.parity.status = "invalid_corpus" /\ d = <<"deterministic_parity", "invalid_evidence">>
           \/ /\ proofs.exact.status \in {"invalid_corpus", "invalid_configuration"}
              /\ d = <<"exact_replay", "invalid_evidence">>
    BY LoadedInOrder DEF loaded
  <2>2. \A d \in loaded : d[1] \in {"deterministic_parity", "exact_replay"}
    BY <2>1
  <2>3. Available(loaded, "deterministic_parity") <=> ~(proofs.parity.status = "invalid_corpus")
    <3>1. <<"deterministic_parity", "invalid_evidence">> \in loaded <=>
            proofs.parity.status = "invalid_corpus"
      BY <2>1
    <3>2. \A d \in loaded : d[1] = "deterministic_parity" => d = <<"deterministic_parity", "invalid_evidence">>
      BY <2>1
    <3> QED BY <3>1, <3>2, OnlyPair DEF Available
  <2>4. Available(loaded, "exact_replay") <=>
           ~(proofs.exact.status \in {"invalid_corpus", "invalid_configuration"})
    <3>1. <<"exact_replay", "invalid_evidence">> \in loaded <=>
            proofs.exact.status \in {"invalid_corpus", "invalid_configuration"}
      BY <2>1
    <3>2. \A d \in loaded : d[1] = "exact_replay" => d = <<"exact_replay", "invalid_evidence">>
      BY <2>1
    <3> QED BY <3>1, <3>2, OnlyPair DEF Available
  <2> QED BY <2>2, <2>3, <2>4 DEF Available
<1> HIDE DEF loaded
<1>3. ASSUME NEW d
      PROVE  d \in dist <=> /\ ~EvidenceIsCoherent(proofs.distribution, src.protocol)
                            /\ d = <<"distribution_evidence", "version_incompatibility">>
  BY <1>2 DEF CrossDistribution
<1>4. ASSUME NEW d
      PROVE  d \in cross <=>
        \/ /\ ~(proofs.parity.status = "invalid_corpus") /\ ~ParityIsCoherent(proofs.parity, src)
           /\ d = <<"deterministic_parity", "invalid_evidence">>
        \/ /\ ~(proofs.exact.status \in {"invalid_corpus", "invalid_configuration"})
           /\ ~ReplayIsCoherent(proofs.exact, src)
           /\ d = <<"exact_replay", "invalid_evidence">>
        \/ d \in compat
  BY <1>2, WhenPairs DEF CrossProofs
<1>5. /\ ~(proofs.compatibility.status \in {"blocked", "control_error"}) => compat = {}
      /\ proofs.compatibility.status \in {"blocked", "control_error"} =>
           compat = {<<"compatibility_evidence", "version_incompatibility">>}
             \/ compat = {<<"compatibility_evidence", "invalid_evidence">>}
  <2> DEFINE s == proofs.compatibility.status
  <2>1. CASE s = "blocked"
    BY <2>1
  <2>2. CASE s = "control_error"
    BY <2>2
  <2>3. CASE s # "blocked" /\ s # "control_error"
    BY <2>3
  <2> QED BY <2>1, <2>2, <2>3
<1> HIDE DEF cross, dist, compat
<1>6. \A d : d \in Validated(src, proofs) <=> d \in loaded \/ d \in cross \/ d \in dist
  BY <1>1
<1>7. Available(Validated(src, proofs), "deterministic_parity")
        <=> Available(loaded, "deterministic_parity") /\ Available(cross, "deterministic_parity")
              /\ Available(dist, "deterministic_parity")
  BY <1>6 DEF Available
<1>8. Available(Validated(src, proofs), "exact_replay")
        <=> Available(loaded, "exact_replay") /\ Available(cross, "exact_replay")
              /\ Available(dist, "exact_replay")
  BY <1>6 DEF Available
<1>9. Available(Validated(src, proofs), "distribution_evidence")
        <=> Available(loaded, "distribution_evidence") /\ Available(cross, "distribution_evidence")
              /\ Available(dist, "distribution_evidence")
  BY <1>6 DEF Available
<1>10. Available(Validated(src, proofs), "compatibility_evidence")
        <=> Available(loaded, "compatibility_evidence") /\ Available(cross, "compatibility_evidence")
              /\ Available(dist, "compatibility_evidence")
  BY <1>6 DEF Available
<1>11. /\ Available(dist, "deterministic_parity") /\ Available(dist, "exact_replay")
       /\ Available(dist, "compatibility_evidence")
       /\ Available(dist, "distribution_evidence")
            <=> EvidenceIsCoherent(proofs.distribution, src.protocol)
  <2>1. \A d \in dist : d[1] = "distribution_evidence"
    BY <1>3
  <2>2. Available(dist, "distribution_evidence") <=> EvidenceIsCoherent(proofs.distribution, src.protocol)
    BY <1>3, OnlyPair DEF Available
  <2> QED BY <2>1, <2>2 DEF Available
<1>12. /\ Available(cross, "deterministic_parity") <=>
            (proofs.parity.status = "invalid_corpus" \/ ParityIsCoherent(proofs.parity, src))
       /\ Available(cross, "exact_replay") <=>
            (proofs.exact.status \in {"invalid_corpus", "invalid_configuration"}
               \/ ReplayIsCoherent(proofs.exact, src))
       /\ Available(cross, "distribution_evidence")
       /\ Available(cross, "compatibility_evidence") <=>
            proofs.compatibility.status \notin {"blocked", "control_error"}
  <2>1. \A d \in cross : d[1] \in {"deterministic_parity", "exact_replay", "compatibility_evidence"}
    BY <1>4, <1>5
  <2>2. \A d \in compat : d[1] = "compatibility_evidence"
    BY <1>5
  <2>3. Available(cross, "deterministic_parity") <=>
            (proofs.parity.status = "invalid_corpus" \/ ParityIsCoherent(proofs.parity, src))
    <3>1. <<"deterministic_parity", "invalid_evidence">> \in cross <=>
            ~(proofs.parity.status = "invalid_corpus" \/ ParityIsCoherent(proofs.parity, src))
      BY <1>4, <2>2
    <3>2. \A d \in cross : d[1] = "deterministic_parity" => d = <<"deterministic_parity", "invalid_evidence">>
      BY <1>4, <2>2
    <3> QED BY <3>1, <3>2, OnlyPair DEF Available
  <2>4. Available(cross, "exact_replay") <=>
            (proofs.exact.status \in {"invalid_corpus", "invalid_configuration"}
               \/ ReplayIsCoherent(proofs.exact, src))
    <3>1. <<"exact_replay", "invalid_evidence">> \in cross <=>
            ~(proofs.exact.status \in {"invalid_corpus", "invalid_configuration"}
                \/ ReplayIsCoherent(proofs.exact, src))
      BY <1>4, <2>2
    <3>2. \A d \in cross : d[1] = "exact_replay" => d = <<"exact_replay", "invalid_evidence">>
      BY <1>4, <2>2
    <3> QED BY <3>1, <3>2, OnlyPair DEF Available
  <2>5. Available(cross, "compatibility_evidence") <=> compat = {}
    BY <1>4, <2>2, OnlyPair DEF Available
  <2>6. compat = {} <=> proofs.compatibility.status \notin {"blocked", "control_error"}
    BY <1>5
  <2> QED BY <2>1, <2>3, <2>4, <2>5, <2>6 DEF Available
<1>13. Available(Validated(src, proofs), "deterministic_parity") <=> UsableParity(proofs.parity, src)
  BY <1>2, <1>7, <1>11, <1>12 DEF UsableParity, Complete
<1>14. Available(Validated(src, proofs), "exact_replay") <=> UsableReplay(proofs.exact, src)
  BY <1>2, <1>8, <1>11, <1>12 DEF UsableReplay, Complete
<1>15. Available(Validated(src, proofs), "distribution_evidence")
              <=> UsableDistribution(proofs.distribution, src)
  BY <1>2, <1>9, <1>11, <1>12 DEF UsableDistribution, Complete
<1>16. Available(Validated(src, proofs), "compatibility_evidence")
              <=> proofs.compatibility.status \notin {"blocked", "control_error"}
  BY <1>2, <1>10, <1>11, <1>12
<1> QED BY <1>13, <1>14, <1>15, <1>16

(* A source that is available, with no finding of its own. *)
LEMMA FindingsOf ==
  ASSUME NEW proofs, NEW validated
  PROVE  /\ Available(validated \cup Findings(proofs, validated), "deterministic_parity")
              <=> Available(validated, "deterministic_parity") /\ ParityFindings(proofs.parity) = {}
         /\ Available(validated \cup Findings(proofs, validated), "exact_replay")
              <=> Available(validated, "exact_replay") /\ {d.class : d \in proofs.exact.diagnostics} = {}
         /\ Available(validated \cup Findings(proofs, validated), "distribution_evidence")
              <=> Available(validated, "distribution_evidence")
                    /\ {d.class : d \in proofs.distribution.diagnostics} = {}
         /\ Available(validated \cup Findings(proofs, validated), "compatibility_evidence")
              <=> Available(validated, "compatibility_evidence")
<1> DEFINE exact == {d.class : d \in proofs.exact.diagnostics}
           distribution == {d.class : d \in proofs.distribution.diagnostics}
           parity == ParityFindings(proofs.parity)
           F == Findings(proofs, validated)
           all == validated \cup F
<1>1. F = {"deterministic_parity"} \X (IF Available(validated, "deterministic_parity") THEN parity ELSE {})
            \cup {"exact_replay"} \X (IF Available(validated, "exact_replay") THEN exact ELSE {})
            \cup {"distribution_evidence"}
                   \X (IF Available(validated, "distribution_evidence") THEN distribution ELSE {})
  BY DEF Findings
<1> HIDE DEF exact, distribution, parity, F
<1>2. ASSUME NEW d, d \in F
      PROVE  \/ d[1] = "deterministic_parity" /\ Available(validated, "deterministic_parity") /\ d[2] \in parity
             \/ d[1] = "exact_replay" /\ Available(validated, "exact_replay") /\ d[2] \in exact
             \/ /\ d[1] = "distribution_evidence" /\ Available(validated, "distribution_evidence")
                /\ d[2] \in distribution
  BY <1>1, <1>2
<1>3. /\ \A x \in parity : Available(validated, "deterministic_parity") => <<"deterministic_parity", x>> \in F
      /\ \A x \in exact : Available(validated, "exact_replay") => <<"exact_replay", x>> \in F
      /\ \A x \in distribution :
           Available(validated, "distribution_evidence") => <<"distribution_evidence", x>> \in F
  BY <1>1
<1>4. \A s : Available(all, s) <=> Available(validated, s) /\ Available(F, s)
  BY DEF Available
<1> HIDE DEF all
<1>5. Available(all, "deterministic_parity")
        <=> Available(validated, "deterministic_parity") /\ parity = {}
  <2>1. ASSUME Available(F, "deterministic_parity"), Available(validated, "deterministic_parity"),
               NEW x \in parity
        PROVE  FALSE
    <3>1. <<"deterministic_parity", x>> \in F
      BY <1>3, <2>1
    <3> QED BY <2>1, <3>1, OnlyPair DEF Available
  <2>2. parity = {} => Available(F, "deterministic_parity")
    BY <1>2 DEF Available
  <2> QED BY <1>4, <2>1, <2>2
<1>6. Available(all, "exact_replay") <=> Available(validated, "exact_replay") /\ exact = {}
  <2>1. ASSUME Available(F, "exact_replay"), Available(validated, "exact_replay"),
               NEW x \in exact
        PROVE  FALSE
    <3>1. <<"exact_replay", x>> \in F
      BY <1>3, <2>1
    <3> QED BY <2>1, <3>1, OnlyPair DEF Available
  <2>2. exact = {} => Available(F, "exact_replay")
    BY <1>2 DEF Available
  <2> QED BY <1>4, <2>1, <2>2
<1>7. Available(all, "distribution_evidence")
        <=> Available(validated, "distribution_evidence") /\ distribution = {}
  <2>1. ASSUME Available(F, "distribution_evidence"), Available(validated, "distribution_evidence"),
               NEW x \in distribution
        PROVE  FALSE
    <3>1. <<"distribution_evidence", x>> \in F
      BY <1>3, <2>1
    <3> QED BY <2>1, <3>1, OnlyPair DEF Available
  <2>2. distribution = {} => Available(F, "distribution_evidence")
    BY <1>2 DEF Available
  <2> QED BY <1>4, <2>1, <2>2
<1>8. Available(all, "compatibility_evidence") <=> Available(validated, "compatibility_evidence")
  <2>1. Available(F, "compatibility_evidence")
    BY <1>2 DEF Available
  <2> QED BY <1>4, <2>1
<1> QED BY <1>5, <1>6, <1>7, <1>8 DEF all, F, parity, exact, distribution

(* An available source has the level of its proof. *)
LEMMA OwnLevel ==
  \A source, diagnostics, level :
    Available(diagnostics, source) => Level(source, diagnostics, level) = level
<1> TAKE source, diagnostics, level
<1> SUFFICES ASSUME Available(diagnostics, source) PROVE Level(source, diagnostics, level) = level
  OBVIOUS
<1>1. {e \in diagnostics : e[1] = source} = {}
  BY DEF Available
<1>2. {d[2] : d \in {e \in diagnostics : e[1] = source}} = {}
  BY <1>1
<1> QED BY <1>2 DEF Level

(* A proof that reports nothing itself. *)
NoFinding(proof) == {d.class : d \in proof.diagnostics} = {}

(* What the report says of each proof. *)
LEMMA ReportReads ==
  ASSUME NEW src, NEW proofs, SoundSources(src), Complete(proofs), NEW report,
         report = ConsolidatedReport(src, proofs)
  PROVE  /\ (Available(report.diagnostics, "deterministic_parity")
               /\ \A l \in {"parity", "probes"} : report.levels[l] = "match")
            <=> (/\ UsableParity(proofs.parity, src) /\ ParityFindings(proofs.parity) = {}
                 /\ ParityLevel(proofs.parity) = "match" /\ ProbeLevel(proofs.parity) = "match")
         /\ (Available(report.diagnostics, "exact_replay")
               /\ \A l \in {"exact", "batching"} : report.levels[l] = "match")
            <=> (/\ UsableReplay(proofs.exact, src) /\ NoFinding(proofs.exact)
                 /\ ReplayLevel(proofs.exact) = "match" /\ BatchLevel(proofs.exact) = "match")
         /\ (Available(report.diagnostics, "distribution_evidence")
               /\ \A l \in {"distribution"} : report.levels[l] = "match")
            <=> (/\ UsableDistribution(proofs.distribution, src)
                 /\ NoFinding(proofs.distribution)
                 /\ DistributionLevel(proofs.distribution) = "match")
         /\ (Available(report.diagnostics, "compatibility_evidence")
               /\ \A l \in {"compatibility"} : report.levels[l] = "match")
            <=> proofs.compatibility.status \notin {"blocked", "control_error"}
<1> DEFINE validated == Validated(src, proofs)
           findings == Findings(proofs, validated)
           levels == Levels(proofs, validated)
           verdict == ReportVerdict({levels[l] : l \in DOMAIN levels}
                                      \cup {d[2] : d \in validated \cup findings})
           sources == ReportSources(src, proofs)
<1>1. report = [sources |-> sources, levels |-> levels,
                diagnostics |-> validated \cup findings, verdict |-> verdict]
  <2> HIDE DEF validated, findings, levels, verdict, sources
  <2> QED BY DEF ConsolidatedReport, validated, findings, levels, verdict, sources
<1>2. report.diagnostics = validated \cup findings /\ report.levels = levels
  <2> HIDE DEF validated, findings, levels, verdict, sources
  <2> QED BY <1>1
<1> HIDE DEF verdict, sources
<1>3. /\ levels["parity"] = Level("deterministic_parity", validated, ParityLevel(proofs.parity))
      /\ levels["probes"] = Level("deterministic_parity", validated, ProbeLevel(proofs.parity))
      /\ levels["exact"] = Level("exact_replay", validated, ReplayLevel(proofs.exact))
      /\ levels["batching"] = Level("exact_replay", validated, BatchLevel(proofs.exact))
      /\ levels["distribution"] = Level("distribution_evidence", validated,
                                     DistributionLevel(proofs.distribution))
      /\ levels["compatibility"] = Level("compatibility_evidence", validated, "match")
  <2> HIDE DEF validated
  <2> QED BY DEF Levels
<1> HIDE DEF validated, levels
<1>4. /\ Available(validated, "deterministic_parity") <=> UsableParity(proofs.parity, src)
      /\ Available(validated, "exact_replay") <=> UsableReplay(proofs.exact, src)
      /\ Available(validated, "distribution_evidence") <=> UsableDistribution(proofs.distribution, src)
      /\ Available(validated, "compatibility_evidence")
           <=> proofs.compatibility.status \notin {"blocked", "control_error"}
  BY AvailableProofs DEF validated
<1>5. /\ Available(validated, "deterministic_parity") =>
           levels["parity"] = ParityLevel(proofs.parity) /\ levels["probes"] = ProbeLevel(proofs.parity)
      /\ Available(validated, "exact_replay") =>
           levels["exact"] = ReplayLevel(proofs.exact) /\ levels["batching"] = BatchLevel(proofs.exact)
      /\ Available(validated, "distribution_evidence") =>
           levels["distribution"] = DistributionLevel(proofs.distribution)
      /\ Available(validated, "compatibility_evidence") => levels["compatibility"] = "match"
  BY <1>3, OwnLevel
<1> DEFINE noExact == {d.class : d \in proofs.exact.diagnostics} = {}
           noDistribution == {d.class : d \in proofs.distribution.diagnostics} = {}
           all == validated \cup findings
<1>6. /\ Available(all, "deterministic_parity")
              <=> Available(validated, "deterministic_parity") /\ ParityFindings(proofs.parity) = {}
      /\ Available(all, "exact_replay") <=> Available(validated, "exact_replay") /\ noExact
      /\ Available(all, "distribution_evidence")
              <=> Available(validated, "distribution_evidence") /\ noDistribution
      /\ Available(all, "compatibility_evidence")
              <=> Available(validated, "compatibility_evidence")
  BY FindingsOf, Zenon
<1>7. report.diagnostics = all
  BY <1>2
<1> HIDE DEF findings, noExact, noDistribution, all
<1>8. (Available(report.diagnostics, "deterministic_parity")
         /\ \A l \in {"parity", "probes"} : report.levels[l] = "match")
            <=> (/\ UsableParity(proofs.parity, src) /\ ParityFindings(proofs.parity) = {}
                 /\ ParityLevel(proofs.parity) = "match" /\ ProbeLevel(proofs.parity) = "match")
  BY <1>2, <1>4, <1>5, <1>6, <1>7
<1>9. (Available(report.diagnostics, "exact_replay")
               /\ \A l \in {"exact", "batching"} : report.levels[l] = "match")
            <=> (/\ UsableReplay(proofs.exact, src) /\ noExact
                 /\ ReplayLevel(proofs.exact) = "match" /\ BatchLevel(proofs.exact) = "match")
  BY <1>2, <1>4, <1>5, <1>6, <1>7
<1>10. (Available(report.diagnostics, "distribution_evidence")
               /\ \A l \in {"distribution"} : report.levels[l] = "match")
            <=> (/\ UsableDistribution(proofs.distribution, src) /\ noDistribution
                 /\ DistributionLevel(proofs.distribution) = "match")
  BY <1>2, <1>4, <1>5, <1>6, <1>7
<1>11. (Available(report.diagnostics, "compatibility_evidence")
               /\ \A l \in {"compatibility"} : report.levels[l] = "match")
            <=> proofs.compatibility.status \notin {"blocked", "control_error"}
  BY <1>2, <1>4, <1>5, <1>6, <1>7
<1> QED BY <1>8, <1>9, <1>10, <1>11 DEF noExact, noDistribution, NoFinding

(* The engines differ only where both have answered. *)
LEMMA InterEngineStatus ==
  \A python, typescript, divergence :
    LET both == InterEngine(python, typescript, divergence)
    IN /\ both.status \in {"match", "not_compared", divergence}
       /\ both.status \in {"match", "not_compared"} /\ divergence \notin {"match", "not_compared"}
            => both.differences = {}
<1> TAKE python, typescript, divergence
<1> DEFINE both == InterEngine(python, typescript, divergence)
           differences == CompareCanonical(python.result, typescript.result)
<1>1. CASE python.status # "ok" \/ typescript.status # "ok"
  <2>1. both = [status |-> "not_compared", differences |-> {}]
    BY <1>1 DEF InterEngine
  <2> HIDE DEF both
  <2> QED BY <2>1 DEF both
<1>2. CASE ~(python.status # "ok" \/ typescript.status # "ok")
  <2>1. both = [status |-> IF differences = {} THEN "match" ELSE divergence,
                differences |-> differences]
    BY <1>2 DEF InterEngine
  <2> HIDE DEF both, differences
  <2>2. both.status = (IF differences = {} THEN "match" ELSE divergence) /\ both.differences = differences
    BY <2>1
  <2> QED BY <2>2 DEF both
<1> QED BY <1>1, <1>2

(* What a parity report is made of. *)
LEMMA ParityIsMade ==
  ASSUME NEW src, NEW broken, NEW report, report = ParityReport(src, broken),
         report.status # "invalid_corpus"
  PROVE  /\ report.status = ParityStatus(report.summary, report.alignment)
         /\ report.summary = ParitySummary(report.cases, report.engines)
         /\ report.summary.fatal \in Nat
         /\ \A c \in Case :
              LET case == report.cases[c]
              IN /\ case.outcomes = Outcomes({case.python.status, case.typescript.status, case.inter.status})
                 /\ case.python.status \in {"engine_error", "normative_divergence", "match"}
                 /\ case.typescript.status \in {"engine_error", "normative_divergence", "match"}
                 /\ case.inter.status \in {"match", "not_compared", "engine_divergence"}
                 /\ case.inter.status \in {"match", "not_compared"} => case.inter.differences = {}
         /\ report.alignment.status \in {"engine_error", "match", "divergence"}
         /\ report.alignment.status = "match" =>
              /\ \A p \in Probe : report.alignment.cases[p] = "match"
              /\ \A e \in {"python", "typescript"} : report.alignment.engines[e] # "engine_error"
<1> DEFINE python == EngineReport(src.python.results[DefaultBatch])
           typescript == IF "corpus" \in broken THEN FatalReport ELSE EngineReport(src.typescript.results)
           cases == CaseComparisons(src.corpus.expected, python, typescript)
           engines == [python |-> python.status, typescript |-> typescript.status]
           pyProbes == ProbeReport(src.python.accepts, TRUE)
           tsProbes == ProbeReport(src.typescript.accepts, "probes" \notin broken)
           alignment == Alignment(src.probes.expected, pyProbes, tsProbes)
           summary == ParitySummary(cases, engines)
           made == [status |-> ParityStatus(summary, alignment), cases |-> cases,
                    engines |-> engines, alignment |-> alignment, summary |-> summary]
<1>1. report = made
  BY DEF ParityReport
<1>2. /\ report.status = ParityStatus(summary, alignment) /\ report.cases = cases
      /\ report.engines = engines /\ report.alignment = alignment /\ report.summary = summary
  <2> HIDE DEF cases, engines, alignment, summary
  <2> QED BY <1>1
<1>3. summary.fatal \in Nat
  <2>1. IsFiniteSet({"python", "typescript"})
    <3>1. IsFiniteSet({} \cup {"python"})
      BY FS_EmptySet, FS_AddElement
    <3>2. IsFiniteSet({"python"} \cup {"typescript"})
      BY <3>1, FS_AddElement
    <3> QED BY <3>2
  <2>2. DOMAIN engines = {"python", "typescript"}
    OBVIOUS
  <2>3. IsFiniteSet({e \in DOMAIN engines : engines[e] = "engine_error"})
    BY <2>1, <2>2, FS_Subset
  <2>4. summary.fatal = Cardinality({e \in DOMAIN engines : engines[e] = "engine_error"})
    <3> HIDE DEF cases, engines
    <3> QED BY DEF ParitySummary
  <2> QED BY <2>3, <2>4, FS_CardinalityType
<1>4. ASSUME NEW c \in Case
      PROVE  LET case == cases[c]
             IN /\ case.outcomes = Outcomes({case.python.status, case.typescript.status, case.inter.status})
                /\ case.python.status \in {"engine_error", "normative_divergence", "match"}
                /\ case.typescript.status \in {"engine_error", "normative_divergence", "match"}
                /\ case.inter.status \in {"match", "not_compared", "engine_divergence"}
                /\ case.inter.status \in {"match", "not_compared"} => case.inter.differences = {}
  <2> DEFINE py == Normative(src.corpus.expected[c], Reported(python, c))
             ts == Normative(src.corpus.expected[c], Reported(typescript, c))
             both == InterEngine(Reported(python, c), Reported(typescript, c), "engine_divergence")
             outcomes == Outcomes({py.status, ts.status, both.status})
             case == cases[c]
  <2>1. case = [expected |-> src.corpus.expected[c], python |-> py, typescript |-> ts, inter |-> both,
                outcomes |-> outcomes]
    <3> HIDE DEF python, typescript
    <3> QED BY DEF CaseComparisons
  <2>2. /\ py.status \in {"engine_error", "normative_divergence", "match"}
        /\ ts.status \in {"engine_error", "normative_divergence", "match"}
    BY NormativeStatus
  <2>3. /\ both.status \in {"match", "not_compared", "engine_divergence"}
        /\ both.status \in {"match", "not_compared"} => both.differences = {}
    BY InterEngineStatus
  <2> HIDE DEF py, ts, both, outcomes, case
  <2>4. case.python = py /\ case.typescript = ts /\ case.inter = both /\ case.outcomes = outcomes
    BY <2>1
  <2> QED BY <2>2, <2>3, <2>4 DEF case, outcomes
<1>5. /\ alignment.status \in {"engine_error", "match", "divergence"}
      /\ alignment.status = "match" =>
           /\ \A p \in Probe : alignment.cases[p] = "match"
           /\ \A e \in {"python", "typescript"} : alignment.engines[e] # "engine_error"
  <2> HIDE DEF pyProbes, tsProbes
  <2> QED BY DEF Alignment
<1> HIDE DEF cases, engines, alignment, summary
<1> QED BY <1>2, <1>3, <1>4, <1>5 DEF summary

(* The control and the report find a parity report good for one reason: its  *)
(* status is match.                                                          *)
LEMMA ParityReaders ==
  ASSUME NEW src, NEW broken, NEW report, report = ParityReport(src, broken),
         report.status # "invalid_corpus"
  PROVE  /\ ParityStatuses(report) = {"match"} <=> report.status = "match"
         /\ report.status = "match" <=> ParityLevel(report) = "match" /\ ProbeLevel(report) = "match"
         /\ report.status = "match" => ParityFindings(report) = {}
<1> DEFINE cases == report.cases
           summary == report.summary
           alignment == report.alignment
<1>1. /\ report.status = ParityStatus(summary, alignment)
      /\ summary = ParitySummary(cases, report.engines)
      /\ summary.fatal \in Nat
      /\ \A c \in Case :
           /\ cases[c].outcomes = Outcomes({cases[c].python.status, cases[c].typescript.status,
                                            cases[c].inter.status})
           /\ cases[c].python.status \in {"engine_error", "normative_divergence", "match"}
           /\ cases[c].typescript.status \in {"engine_error", "normative_divergence", "match"}
           /\ cases[c].inter.status \in {"match", "not_compared", "engine_divergence"}
           /\ cases[c].inter.status \in {"match", "not_compared"} => cases[c].inter.differences = {}
      /\ alignment.status \in {"engine_error", "match", "divergence"}
      /\ alignment.status = "match" =>
           /\ \A p \in Probe : alignment.cases[p] = "match"
           /\ \A e \in {"python", "typescript"} : alignment.engines[e] # "engine_error"
  BY ParityIsMade
<1>2. /\ summary.errors = Counted(cases, "engine_error")
      /\ summary.normative = Counted(cases, "normative_divergence")
      /\ summary.engine = Counted(cases, "engine_divergence")
  BY <1>1 DEF ParitySummary
<1>3. summary.errors \in Nat /\ summary.normative \in Nat /\ summary.engine \in Nat
  BY <1>2, CountedType
<1> HIDE DEF cases, summary, alignment
<1>4. report.status = "match" <=>
        /\ summary.fatal = 0 /\ summary.errors = 0 /\ summary.normative = 0 /\ summary.engine = 0
        /\ alignment.status = "match"
  <2>1. report.status = IF summary.fatal + summary.errors > 0 \/ alignment.status = "engine_error"
                          THEN "engine_error"
                        ELSE IF summary.normative + summary.engine > 0 \/ alignment.status = "divergence"
                          THEN "divergence" ELSE "match"
    BY <1>1 DEF ParityStatus
  <2>2. /\ summary.fatal \in Nat
        /\ alignment.status \in {"engine_error", "match", "divergence"}
    BY <1>1
  <2>3. /\ ~(summary.fatal + summary.errors > 0) <=> summary.fatal = 0 /\ summary.errors = 0
        /\ ~(summary.normative + summary.engine > 0) <=> summary.normative = 0 /\ summary.engine = 0
    BY <1>3, <2>2
  <2> QED BY <2>1, <2>2, <2>3
<1>5. report.status = "match" <=> ParityLevel(report) = "match" /\ ProbeLevel(report) = "match"
  <2>1. ParityLevel(report) =
          IF summary.errors + summary.fatal > 0 THEN "engine_error"
          ELSE IF summary.normative > 0 THEN "normative_divergence"
          ELSE IF summary.engine > 0 THEN "interlanguage_divergence" ELSE "match"
    BY DEF ParityLevel, summary
  <2>2. ProbeLevel(report) = IF alignment.status = "divergence" THEN "normative_divergence"
                             ELSE alignment.status
    BY DEF ProbeLevel, alignment
  <2> QED BY <1>1, <1>3, <1>4, <2>1, <2>2
<1>6. ASSUME report.status = "match"
      PROVE  \A c \in Case : /\ cases[c].python.status = "match" /\ cases[c].typescript.status = "match"
                             /\ cases[c].inter.status \in {"match", "not_compared"}
                             /\ cases[c].inter.differences = {}
  <2>1. \A c \in Case : /\ "engine_error" \notin cases[c].outcomes
                        /\ "normative_divergence" \notin cases[c].outcomes
                        /\ "engine_divergence" \notin cases[c].outcomes
    <3>1. /\ Counted(cases, "engine_error") <= 0 /\ Counted(cases, "normative_divergence") <= 0
          /\ Counted(cases, "engine_divergence") <= 0
      BY <1>2, <1>4, <1>6
    <3> QED BY <3>1, NothingCounted
  <2> SUFFICES ASSUME NEW c \in Case
               PROVE  /\ cases[c].python.status = "match" /\ cases[c].typescript.status = "match"
                      /\ cases[c].inter.status \in {"match", "not_compared"}
                      /\ cases[c].inter.differences = {}
    OBVIOUS
  <2> DEFINE py == cases[c].python.status
             ts == cases[c].typescript.status
             both == cases[c].inter.status
  <2>2. /\ cases[c].outcomes = Outcomes({py, ts, both})
        /\ py \in {"engine_error", "normative_divergence", "match"}
        /\ ts \in {"engine_error", "normative_divergence", "match"}
        /\ both \in {"match", "not_compared", "engine_divergence"}
        /\ both \in {"match", "not_compared"} => cases[c].inter.differences = {}
    BY <1>1
  <2> HIDE DEF py, ts, both
  <2>3. py = "match" /\ ts = "match" /\ both \in {"match", "not_compared"}
    BY <2>1, <2>2, FailuresAreOutcomes
  <2> QED BY <2>2, <2>3 DEF py, ts, both
<1>7. ASSUME report.status = "match"
      PROVE  ParityStatuses(report) = {"match"}
  <2>1. /\ ~("engine_error" \in {report.status, alignment.status})
        /\ ~\E c \in Case : "normative_divergence" \in {cases[c].python.status, cases[c].typescript.status}
        /\ ~\E c \in Case : cases[c].inter.status = "engine_divergence"
        /\ ~(alignment.status = "divergence")
    BY <1>4, <1>6, <1>7
  <2> USE DEF cases, alignment
  <2>2. ParityStatuses(report) = OrElse({} \cup {} \cup {} \cup {}, report)
    BY <2>1 DEF ParityStatuses
  <2> QED BY <1>7, <2>2 DEF OrElse
<1>8. ASSUME report.status = "match"
      PROVE  ParityFindings(report) = {}
  <2> DEFINE statuses(c) == {cases[c].python.status, cases[c].typescript.status}
             own(c) == statuses(c) \cap {"engine_error", "normative_divergence"}
             inter(c) == IF cases[c].inter.differences = {} THEN {} ELSE {"interlanguage_divergence"}
             bad == {q \in Probe : alignment.cases[q] # "match"}
             engines == {alignment.engines[e] : e \in {"python", "typescript"}}
  <2>1. ParityFindings(report) =
          (UNION {own(c) : c \in Case}) \cup (UNION {inter(c) : c \in Case})
            \cup {"normative_divergence" : p \in bad} \cup (engines \cap {"engine_error"})
    BY Zenon DEF ParityFindings, cases, alignment
  <2>2. \A c \in Case : own(c) = {} /\ inter(c) = {}
    BY <1>6, <1>8
  <2>3. bad = {} /\ "engine_error" \notin engines
    BY <1>1, <1>4, <1>8
  <2> HIDE DEF own, inter, bad, engines
  <2>4. /\ UNION {own(c) : c \in Case} = {} /\ UNION {inter(c) : c \in Case} = {}
        /\ {"normative_divergence" : p \in bad} = {} /\ engines \cap {"engine_error"} = {}
    BY <2>2, <2>3
  <2> QED BY <2>1, <2>4
<1>9. ParityStatuses(report) = {"match"} => report.status = "match"
  BY MatchOnly
<1> QED BY <1>5, <1>7, <1>8, <1>9

(* No distributional evidence but one that says match is found good.         *)
LEMMA DistributionReaders ==
  ASSUME NEW src, NEW broken, NEW evidence, evidence = DistributionEvidence(src, broken),
         evidence.status # "invalid"
  PROVE  DistributionStatuses(evidence) = {"match"}
           <=> /\ {d.class : d \in evidence.diagnostics} = {}
               /\ DistributionLevel(evidence) = "match"
<1> DEFINE verdicts == [m \in Metric |-> Verdict(src.measures, m, src.protocol.permutations)]
           scenarios == ScenarioVerdicts(verdicts)
           classes == {d.class : d \in evidence.diagnostics}
<1>1. evidence = Evidence(src)
  <2>1. \A class : InvalidEvidence(class).status = "invalid"
    BY DEF InvalidEvidence
  <2> QED BY <2>1 DEF DistributionEvidence
<1>2. /\ evidence.status = Aggregate({scenarios[s] : s \in Scenario})
      /\ evidence.diagnostics = MetricDiagnostics(verdicts)
  <2> HIDE DEF verdicts
  <2> QED BY <1>1 DEF Evidence, verdicts
<1>3. evidence.status \in {"match", "divergence", "inconclusive"}
  BY <1>2 DEF Aggregate
<1>4. "match" \notin classes
  <2> DEFINE of(m) == [metric |-> m, class |-> IF verdicts[m] = "divergence" THEN "distributional_divergence"
                            ELSE "statistically_inconclusive"]
             bad == {k \in Metric : verdicts[k] # "match"}
  <2>1. MetricDiagnostics(verdicts) = {of(m) : m \in bad}
    BY Zenon DEF MetricDiagnostics
  <2>2. \A m : of(m).class # "match"
    OBVIOUS
  <2> HIDE DEF of, bad, verdicts
  <2> QED BY <1>2, <2>1, <2>2
<1> HIDE DEF classes
<1>5. DistributionStatuses(evidence) =
        OrElse(classes \cup (IF evidence.status = "divergence" THEN {"distributional_divergence"} ELSE {})
                 \cup (IF evidence.status = "inconclusive" THEN {"statistically_inconclusive"} ELSE {}),
               evidence)
  BY DEF DistributionStatuses, classes
<1>6. DistributionLevel(evidence) = "match" <=> evidence.status = "match"
  <2>1. CASE evidence.status = "match"
    BY <2>1 DEF DistributionLevel
  <2>2. CASE evidence.status = "divergence"
    BY <2>2 DEF DistributionLevel
  <2>3. CASE evidence.status = "inconclusive"
    BY <2>3 DEF DistributionLevel
  <2> QED BY <1>3, <2>1, <2>2, <2>3
<1>7. DistributionStatuses(evidence) = {"match"} <=> classes = {} /\ evidence.status = "match"
  <2>1. CASE evidence.status = "match"
    <3>1. DistributionStatuses(evidence) = OrElse(classes, evidence)
      BY <1>5, <2>1
    <3> QED BY <1>4, <2>1, <3>1 DEF OrElse
  <2>2. CASE evidence.status # "match"
    BY <1>3, <1>4, <1>5, <2>2 DEF OrElse
  <2> QED BY <2>1, <2>2
<1> QED BY <1>6, <1>7 DEF classes

(* An answer that matches has no difference. *)
LEMMA NormativeDifferences ==
  \A expected, case :
    LET entry == Normative(expected, case)
    IN /\ entry.status \in {"engine_error", "normative_divergence", "match"}
       /\ entry.status = "match" => entry.differences = {}
<1> TAKE expected, case
<1> DEFINE entry == Normative(expected, case)
           differences == CompareCanonical(expected, case.result)
<1>1. CASE case.status # "ok"
  <2>1. entry = [status |-> "engine_error", differences |-> {}]
    BY <1>1 DEF Normative
  <2> HIDE DEF entry
  <2> QED BY <2>1 DEF entry
<1>2. CASE ~(case.status # "ok")
  <2>1. entry = [status |-> IF differences = {} THEN "match" ELSE "normative_divergence",
                 differences |-> differences]
    BY <1>2 DEF Normative
  <2> HIDE DEF entry, differences
  <2>2. entry.status = (IF differences = {} THEN "match" ELSE "normative_divergence")
          /\ entry.differences = differences
    BY <2>1
  <2> QED BY <2>2 DEF entry
<1> QED BY <1>1, <1>2

(* What a replay says of a case is about the answers to that case. *)
ReplayShape(case) ==
  /\ case.outcomes = Outcomes({case.typescript.status}
                                \cup {case.batches[b].status : b \in Batch}
                                \cup {case.inter[b].status : b \in Batch})
  /\ case.typescript.status \in {"engine_error", "normative_divergence", "match"}
  /\ case.typescript.status = "match" => case.typescript.differences = {}
  /\ case.independent <=> \A b \in Batch : case.batches[b].status = "match"
  /\ \A b \in Batch :
       /\ case.batches[b].status \in {"engine_error", "normative_divergence", "match"}
       /\ case.batches[b].status = "match" => case.batches[b].differences = {}
       /\ case.inter[b].status \in {"match", "not_compared", "interlanguage_divergence"}
       /\ case.inter[b].status \in {"match", "not_compared"} =>
            case.inter[b].differences = {}

(* What a replay is made of. *)
LEMMA ReplayIsMade ==
  ASSUME NEW src, NEW broken, NEW report, report = ExactReplay(src, broken),
         report.status \notin {"invalid_corpus", "invalid_configuration"}
  PROVE  /\ report.status = ReplayStatus(report.cases)
         /\ report.diagnostics = ReplayDiagnostics(report.cases)
         /\ report.independent <=> \A c \in Case : report.cases[c].independent
         /\ Case # {}
         /\ \A c \in Case : ReplayShape(report.cases[c])
<1> DEFINE python == [b \in Batch |-> EngineReport(src.python.results[b])]
           typescript == IF "replay" \in broken THEN FatalReport ELSE EngineReport(src.typescript.results)
           cases == [c \in Case |-> ReplayCase(src.corpus.expected[c], python, typescript, c)]
           independent == \A c \in Case : cases[c].independent
<1>1. report = ReplayReport(src, broken) /\ RequiredCoverage \subseteq Coverage(src.corpus)
  BY DEF ExactReplay
<1>2. ReplayReport(src, broken) =
        [status |-> ReplayStatus(cases), cases |-> cases, coverage |-> Coverage(src.corpus),
         batches |-> Batch, diagnostics |-> ReplayDiagnostics(cases), independent |-> independent]
  BY Zenon DEF ReplayReport
<1> HIDE DEF independent, cases
<1>3. /\ report.status = ReplayStatus(cases) /\ report.cases = cases
      /\ report.diagnostics = ReplayDiagnostics(cases) /\ report.independent = independent
  BY <1>1, <1>2
<1>4. Case # {}
  BY <1>1, CoverageAssumption DEF Coverage
<1>5. ASSUME NEW c \in Case
      PROVE  ReplayShape(cases[c])
  <2> DEFINE case == cases[c]
             ts == Normative(src.corpus.expected[c], Reported(typescript, c))
             batches == [b \in Batch |-> Normative(src.corpus.expected[c], Reported(python[b], c))]
             inter == [b \in Batch |-> InterEngine(Reported(python[b], c), Reported(typescript, c),
                                                   "interlanguage_divergence")]
             statuses == {ts.status} \cup {batches[b].status : b \in Batch}
                           \cup {inter[b].status : b \in Batch}
             same == \A b \in Batch : batches[b].status = "match"
  <2>1. case = ReplayCase(src.corpus.expected[c], python, typescript, c)
    <3> HIDE DEF python, typescript
    <3> QED BY DEF cases
  <2>2. ReplayCase(src.corpus.expected[c], python, typescript, c) =
          [typescript |-> ts, batches |-> batches, inter |-> inter, outcomes |-> Outcomes(statuses),
           independent |-> same]
    <3> HIDE DEF python, typescript
    <3> QED BY Zenon DEF ReplayCase
  <2>3. ts.status \in {"engine_error", "normative_divergence", "match"}
        /\ (ts.status = "match" => ts.differences = {})
    BY NormativeDifferences
  <2>4. ASSUME NEW b \in Batch
        PROVE  /\ batches[b].status \in {"engine_error", "normative_divergence", "match"}
               /\ batches[b].status = "match" => batches[b].differences = {}
               /\ inter[b].status \in {"match", "not_compared", "interlanguage_divergence"}
               /\ inter[b].status \in {"match", "not_compared"} => inter[b].differences = {}
    <3> HIDE DEF python, typescript
    <3> QED BY NormativeDifferences, InterEngineStatus
  <2> HIDE DEF case, ts, batches, inter, statuses, same
  <2>5. /\ case.typescript = ts /\ case.batches = batches /\ case.inter = inter
        /\ case.outcomes = Outcomes(statuses) /\ case.independent = same
    BY <2>1, <2>2
  <2>6. case.outcomes = Outcomes({case.typescript.status}
                                   \cup {case.batches[b].status : b \in Batch}
                                   \cup {case.inter[b].status : b \in Batch})
    BY <2>5, Zenon DEF statuses
  <2>7. case.independent <=> \A b \in Batch : case.batches[b].status = "match"
    BY <2>5, Zenon DEF same
  <2> QED BY <2>3, <2>4, <2>5, <2>6, <2>7 DEF case, ReplayShape
<1>6. report.independent <=> \A c \in Case : cases[c].independent
  BY <1>3 DEF independent
<1> QED BY <1>3, <1>4, <1>5, <1>6

(* The most serious outcome is a match when there is no other. *)
LEMMA FirstIsMatch ==
  ASSUME NEW all, "match" \in all \/ all \cap {"engine_error", "normative_divergence",
                                               "interlanguage_divergence"} # {}
  PROVE  FirstOf(<<"engine_error", "normative_divergence", "interlanguage_divergence", "match">>, all)
           = "match"
         <=> /\ "match" \in all
             /\ all \cap {"engine_error", "normative_divergence", "interlanguage_divergence"} = {}
<1> DEFINE order == <<"engine_error", "normative_divergence", "interlanguage_divergence", "match">>
           first(i) == order[i] \in all /\ \A j \in 1 .. i - 1 : order[j] \notin all
           chosen == CHOOSE i \in DOMAIN order : first(i)
<1>1. /\ DOMAIN order = 1 .. 4 /\ order[1] = "engine_error" /\ order[2] = "normative_divergence"
      /\ order[3] = "interlanguage_divergence" /\ order[4] = "match"
  OBVIOUS
<1>2. FirstOf(order, all) = order[chosen]
  BY Zenon DEF FirstOf
<1> HIDE DEF order
<1>3. \E i \in DOMAIN order : first(i)
  <2>1. CASE "engine_error" \in all
    <3>1. first(1)
      BY <1>1, <2>1
    <3> QED BY <1>1, <3>1
  <2>2. CASE "engine_error" \notin all /\ "normative_divergence" \in all
    <3>1. first(2)
      BY <1>1, <2>2
    <3> QED BY <1>1, <3>1
  <2>3. CASE /\ "engine_error" \notin all /\ "normative_divergence" \notin all
             /\ "interlanguage_divergence" \in all
    <3>1. first(3)
      BY <1>1, <2>3
    <3> QED BY <1>1, <3>1
  <2>4. CASE /\ "engine_error" \notin all /\ "normative_divergence" \notin all
             /\ "interlanguage_divergence" \notin all
    <3>1. first(4)
      BY <1>1, <2>4
    <3> QED BY <1>1, <3>1
  <2> QED BY <2>1, <2>2, <2>3, <2>4
<1>4. chosen \in 1 .. 4 /\ first(chosen)
  <2>1. chosen \in DOMAIN order /\ first(chosen)
    <3> HIDE DEF first
    <3> QED BY <1>3
  <2> QED BY <1>1, <2>1
<1> HIDE DEF chosen
<1>5. order[chosen] = "match" <=> chosen = 4
  BY <1>1, <1>4
<1>6. chosen = 4 <=> /\ "match" \in all
             /\ all \cap {"engine_error", "normative_divergence", "interlanguage_divergence"} = {}
  <2>1. ASSUME chosen = 4
        PROVE  /\ "match" \in all
               /\ "engine_error" \notin all /\ "normative_divergence" \notin all
               /\ "interlanguage_divergence" \notin all
    <3>1. order[4] \in all /\ order[1] \notin all /\ order[2] \notin all /\ order[3] \notin all
      BY <1>4, <2>1
    <3> QED BY <1>1, <3>1
  <2>2. ASSUME "engine_error" \notin all /\ "normative_divergence" \notin all
               /\ "interlanguage_divergence" \notin all
        PROVE  chosen = 4
    BY <1>1, <1>4, <2>2
  <2> QED BY <2>1, <2>2
<1> QED BY <1>2, <1>5, <1>6 DEF order

(* The findings of a replay: none when everything matches. *)
LEMMA NothingToReport ==
  ASSUME NEW cases,
         \A c \in Case :
           /\ cases[c].typescript.status # "engine_error" /\ cases[c].typescript.differences = {}
           /\ \A b \in Batch :
                /\ cases[c].batches[b].status # "engine_error" /\ cases[c].batches[b].differences = {}
                /\ cases[c].inter[b].status # "engine_error" /\ cases[c].inter[b].differences = {}
  PROVE  ReplayDiagnostics(cases) = {}
<1> DEFINE of(entry, b, case) ==
        IF entry.status = "engine_error"
          THEN {[case |-> case, batch |-> b, class |-> "engine_error", path |-> "/"]}
          ELSE {[case |-> case, batch |-> b, class |-> entry.status, path |-> d.path] :
                  d \in entry.differences}
<1>1. ReplayDiagnostics(cases) =
        (UNION {of(cases[c].typescript, 0, c) : c \in Case})
       \cup (UNION {of(cases[c].batches[b], b, c) : b \in Batch, c \in Case})
       \cup (UNION {of(cases[c].inter[b], b, c) : b \in Batch, c \in Case})
  BY DEF ReplayDiagnostics
<1>2. \A entry, b, case : entry.status # "engine_error" /\ entry.differences = {} =>
                            of(entry, b, case) = {}
  OBVIOUS
<1> HIDE DEF of
<1>3. /\ \A c \in Case : of(cases[c].typescript, 0, c) = {}
      /\ \A b \in Batch, c \in Case : of(cases[c].batches[b], b, c) = {}
      /\ \A b \in Batch, c \in Case : of(cases[c].inter[b], b, c) = {}
  BY <1>2
<1>4. UNION {of(cases[c].typescript, 0, c) : c \in Case} = {}
  BY <1>3
<1>5. UNION {of(cases[c].batches[b], b, c) : b \in Batch, c \in Case} = {}
  <2> SUFFICES ASSUME NEW S \in {of(cases[c].batches[b], b, c) : b \in Batch, c \in Case} PROVE S = {}
    OBVIOUS
  <2>1. PICK b \in Batch, c \in Case : S = of(cases[c].batches[b], b, c)
    OBVIOUS
  <2> QED BY <1>3, <2>1
<1>6. UNION {of(cases[c].inter[b], b, c) : b \in Batch, c \in Case} = {}
  <2> SUFFICES ASSUME NEW S \in {of(cases[c].inter[b], b, c) : b \in Batch, c \in Case} PROVE S = {}
    OBVIOUS
  <2>1. PICK b \in Batch, c \in Case : S = of(cases[c].inter[b], b, c)
    OBVIOUS
  <2> QED BY <1>3, <2>1
<1> QED BY <1>1, <1>4, <1>5, <1>6

(* The outcomes of a case are its failures, or a match. *)
LEMMA OutcomesOf ==
  \A statuses :
    /\ Outcomes(statuses) # {}
    /\ statuses \subseteq {"engine_error", "normative_divergence", "interlanguage_divergence",
                           "match", "not_compared"} =>
         Outcomes(statuses) \subseteq {"engine_error", "normative_divergence",
                                       "interlanguage_divergence", "match"}
BY DEF Outcomes

(* The two controls of a replay and the report find it good for one reason:  *)
(* every outcome of every case is a match.                                   *)
LEMMA ReplayReaders ==
  ASSUME NEW src, NEW broken, NEW report, report = ExactReplay(src, broken),
         report.status \notin {"invalid_corpus", "invalid_configuration"}
  PROVE  (ReplayStatuses(report) = {"match"} /\ BatchingStatuses(report) = {"match"})
           <=> /\ {d.class : d \in report.diagnostics} = {}
               /\ ReplayLevel(report) = "match" /\ BatchLevel(report) = "match"
<1> DEFINE cases == report.cases
           all == UNION {cases[c].outcomes : c \in Case}
           failures == {"engine_error", "normative_divergence", "interlanguage_divergence"}
           statuses == {cases[c].batches[b].status : b \in Batch, c \in Case}
<1>1. /\ report.status = ReplayStatus(cases)
      /\ report.diagnostics = ReplayDiagnostics(cases)
      /\ report.independent <=> \A c \in Case : cases[c].independent
      /\ Case # {}
      /\ \A c \in Case : ReplayShape(cases[c])
  BY ReplayIsMade
<1>2. ASSUME NEW c \in Case
      PROVE  cases[c].outcomes # {} /\ cases[c].outcomes \subseteq failures \cup {"match"}
  <2> DEFINE own == {cases[c].typescript.status} \cup {cases[c].batches[b].status : b \in Batch}
                      \cup {cases[c].inter[b].status : b \in Batch}
  <2> HIDE DEF cases
  <2>1. cases[c].outcomes = Outcomes(own)
    BY <1>1, <1>2, Zenon DEF ReplayShape
  <2>2. own \subseteq failures \cup {"match", "not_compared"}
    <3>1. /\ cases[c].typescript.status \in failures \cup {"match"}
          /\ \A b \in Batch : /\ cases[c].batches[b].status \in failures \cup {"match"}
                             /\ cases[c].inter[b].status \in failures \cup {"match", "not_compared"}
      <4>1. ReplayShape(cases[c])
        BY <1>1
      <4> QED BY <4>1 DEF ReplayShape
    <3> QED BY <3>1
  <2> HIDE DEF own
  <2> QED BY <2>1, <2>2, OutcomesOf
<1> HIDE DEF cases
<1>3. all # {} /\ all \subseteq failures \cup {"match"}
  BY <1>1, <1>2
<1>4. report.status = "match" <=> all = {"match"}
  BY <1>1 DEF ReplayStatus
<1>5. ReplayStatuses(report) = OrElse(all \ {"match"}, report)
  BY DEF ReplayStatuses, cases
<1>6. ReplayLevel(report) =
        FirstOf(<<"engine_error", "normative_divergence", "interlanguage_divergence", "match">>, all)
  BY DEF ReplayLevel, cases
<1>7. ASSUME all = {"match"}, NEW c \in Case
      PROVE  /\ cases[c].typescript.status = "match" /\ cases[c].typescript.differences = {}
             /\ \A b \in Batch :
                  /\ cases[c].batches[b].status = "match" /\ cases[c].batches[b].differences = {}
                  /\ cases[c].inter[b].status \in {"match", "not_compared"}
                  /\ cases[c].inter[b].differences = {}
  <2> DEFINE own == {cases[c].typescript.status} \cup {cases[c].batches[b].status : b \in Batch}
                      \cup {cases[c].inter[b].status : b \in Batch}
  <2>1. cases[c].outcomes = Outcomes(own) /\ cases[c].outcomes \subseteq {"match"}
    BY <1>1, <1>7 DEF ReplayShape
  <2>2. \A s \in own : s \in {"match", "not_compared"}
    <3> HIDE DEF own
    <3> SUFFICES ASSUME NEW s \in own, s \notin {"match", "not_compared"} PROVE FALSE
      OBVIOUS
    <3> QED BY <2>1, FailuresAreOutcomes
  <2>3. cases[c].typescript.status \in own
        /\ \A b \in Batch : cases[c].batches[b].status \in own /\ cases[c].inter[b].status \in own
    OBVIOUS
  <2> HIDE DEF own
  <2>4. /\ cases[c].typescript.status \in {"match", "not_compared"}
        /\ \A b \in Batch : /\ cases[c].batches[b].status \in {"match", "not_compared"}
                           /\ cases[c].inter[b].status \in {"match", "not_compared"}
    BY <2>2, <2>3
  <2>5. ReplayShape(cases[c])
    BY <1>1
  <2> QED BY <2>4, <2>5 DEF ReplayShape
<1> HIDE DEF all
<1>8. ReplayStatuses(report) = {"match"} <=> all = {"match"}
  BY <1>3, <1>4, <1>5 DEF OrElse
<1>9. ReplayLevel(report) = "match" <=> all = {"match"}
  <2>1. "match" \in all \/ all \cap failures # {}
    BY <1>3
  <2>2. FirstOf(<<"engine_error", "normative_divergence", "interlanguage_divergence", "match">>, all)
           = "match"
         <=> "match" \in all /\ all \cap failures = {}
    BY <2>1, FirstIsMatch
  <2> QED BY <1>3, <1>6, <2>2
<1>10. ASSUME all = {"match"}
       PROVE  /\ BatchingStatuses(report) = {"match"} /\ BatchLevel(report) = "match"
              /\ {d.class : d \in report.diagnostics} = {}
  <2>1. report.independent
    BY <1>1, <1>7, <1>10, ZenonT(60) DEF ReplayShape
  <2>2. BatchingStatuses(report) = {"match"}
    BY <2>1 DEF BatchingStatuses
  <2>3. BatchLevel(report) = "match"
    <3>1. statuses \cap {"engine_error", "normative_divergence"} = {}
      <4> SUFFICES ASSUME NEW s \in statuses PROVE s = "match"
        OBVIOUS
      <4>1. PICK b \in Batch, c \in Case : s = cases[c].batches[b].status
        OBVIOUS
      <4> QED BY <1>7, <1>10, <4>1
    <3>2. BatchLevel(report) =
            IF statuses \cap {"engine_error", "normative_divergence"} # {}
              THEN FirstOf(<<"engine_error", "normative_divergence">>, statuses)
            ELSE IF report.independent THEN "match" ELSE "invalid_evidence"
      BY DEF BatchLevel, cases
    <3> HIDE DEF statuses
    <3> QED BY <2>1, <3>1, <3>2
  <2>4. ReplayDiagnostics(cases) = {}
    <3>1. \A c \in Case :
            /\ cases[c].typescript.status # "engine_error" /\ cases[c].typescript.differences = {}
            /\ \A b \in Batch :
                 /\ cases[c].batches[b].status # "engine_error" /\ cases[c].batches[b].differences = {}
                 /\ cases[c].inter[b].status # "engine_error" /\ cases[c].inter[b].differences = {}
      BY <1>7, <1>10
    <3> QED BY <3>1, NothingToReport
  <2> QED BY <1>1, <2>2, <2>3, <2>4
<1> QED BY <1>8, <1>9, <1>10

(* The text of a document was made by its generator, from whatever sources   *)
(* and documents it had.                                                     *)
Made(k, text) ==
  /\ k = "parity" => \E src, broken : text = ParityReport(src, broken)
  /\ k = "exact" => \E src, broken : text = ExactReplay(src, broken)
  /\ k = "distribution" => \E src, broken : text = DistributionEvidence(src, broken)
  /\ k = "compatibility" =>
       \E authority, semantics, read, diagnostics :
         text = CompatibilityEvidence(authority, semantics, read, diagnostics)
  /\ k = "report" => \E src, proofs : text = ConsolidatedReport(src, proofs)

MadeInv == \A k \in Document : documents[k] # Absent => Made(k, documents[k])

LEMMA WrittenAsMade ==
  ASSUME IInv, MadeInv, NEW n, NEW k \in Document, NEW text, NEW success,
         Write(n, k, text, success), Made(k, text)
  PROVE  MadeInv'
<1>1. documents' = [documents EXCEPT ![k] = text] /\ DOMAIN documents = Document
  BY DEF Write, IInv, ShapeInv
<1>2. \A j \in Document : documents'[j] = IF j = k THEN text ELSE documents[j]
  BY <1>1
<1> SUFFICES ASSUME NEW j \in Document, documents'[j] # Absent PROVE Made(j, documents'[j])
  BY DEF MadeInv
<1> QED BY <1>2 DEF MadeInv

LEMMA MadeIsKept ==
  ASSUME IInv, MadeInv, [Next]_vars
  PROVE  MadeInv'
<1>1. CASE UNCHANGED documents
  BY <1>1 DEF MadeInv
<1>2. CASE documents' = NoDocument
  BY <1>2 DEF MadeInv, NoDocument, Document
<1>3. ASSUME NEW n, NEW broken, GenerateParity(n, broken)
      PROVE  MadeInv'
  <2>1. PICK text \in {ParityReport(tree, broken)} : Write(n, "parity", text, ~EvidenceFails(text))
    BY <1>3 DEF GenerateParity
  <2>2. Made("parity", text)
    BY <2>1 DEF Made
  <2> QED BY <2>1, <2>2, WrittenAsMade DEF Document
<1>4. ASSUME NEW n, NEW broken, GenerateExactReplay(n, broken)
      PROVE  MadeInv'
  <2>1. PICK text \in {ExactReplay(tree, broken)} : Write(n, "exact", text, ~EvidenceFails(text))
    BY <1>4 DEF GenerateExactReplay
  <2>2. Made("exact", text)
    BY <2>1 DEF Made
  <2> QED BY <2>1, <2>2, WrittenAsMade DEF Document
<1>5. ASSUME NEW n, NEW broken, GenerateDistribution(n, broken)
      PROVE  MadeInv'
  <2>1. PICK text \in {DistributionEvidence(tree, broken)} :
          Write(n, "distribution", text, ~EvidenceFails(text))
    BY <1>5 DEF GenerateDistribution
  <2>2. Made("distribution", text)
    BY <2>1 DEF Made
  <2> QED BY <2>1, <2>2, WrittenAsMade DEF Document
<1>6. ASSUME NEW n, GenerateCompatibility(n)
      PROVE  MadeInv'
  <2>1. CASE tree.authority = Absent
    BY <1>1, <1>6, <2>1 DEF GenerateCompatibility, WriteNothing
  <2>2. CASE tree.authority # Absent
    <3>1. PICK read, diagnostics, text :
            /\ text = CompatibilityEvidence(tree.authority, tree.semantics, read, diagnostics)
            /\ Write(n, "compatibility", text, diagnostics = {})
      BY <1>6, <2>2 DEF GenerateCompatibility
    <3>2. Made("compatibility", text)
      BY <3>1 DEF Made
    <3> QED BY <3>1, <3>2, WrittenAsMade DEF Document
  <2> QED BY <2>1, <2>2
<1>7. ASSUME NEW n, GenerateReport(n)
      PROVE  MadeInv'
  <2>1. CASE Crashes(tree, documents)
    BY <1>1, <1>7, <2>1 DEF GenerateReport, WriteNothing
  <2>2. CASE ~Crashes(tree, documents)
    <3>1. PICK text \in {ConsolidatedReport(tree, documents)} :
            Write(n, "report", text, text.verdict \notin GeneratorFailures)
      BY <1>7, <2>2 DEF GenerateReport
    <3>2. Made("report", text)
      BY <3>1 DEF Made
    <3> QED BY <3>1, <3>2, WrittenAsMade DEF Document
  <2> QED BY <2>1, <2>2
<1>8. CASE Edit \/ Commit \/ (\E n \in Node : StartNode(n)) \/ StartComplete \/ Rest
             \/ (\E n \in scope, c \in Control : Decide(n, c)) \/ UNCHANGED vars
  <2>1. UNCHANGED documents
    BY <1>8 DEF Edit, Commit, StartNode, StartComplete, Rest, Decide, vars
  <2> QED BY <1>1, <2>1
<1>9. CASE End
  BY <1>1, <1>2, <1>9 DEF End
<1>10. CASE RunStep
  BY <1>3, <1>4, <1>5, <1>6, <1>7, <1>8, <1>9, <1>10 DEF RunStep
<1> QED BY <1>8, <1>10 DEF Next

(* Compatibility: the status has three values.                               *)
LEMMA CompatibilityReaders ==
  ASSUME NEW authority, NEW semantics, NEW read, NEW diagnostics, NEW text,
         text = CompatibilityEvidence(authority, semantics, read, diagnostics)
  PROVE  CompatibilityStatuses(text) = {"match"} <=> text.status \notin {"blocked", "control_error"}
<1>1. text.status \in {"match", "blocked", "control_error"}
  BY DEF CompatibilityEvidence
<1> QED BY <1>1 DEF CompatibilityStatuses

(* A reader depends on the corpus, the probes and the protocol only.         *)
LEMMA SameSources ==
  ASSUME NEW src, NEW other, src.corpus = other.corpus, src.probes = other.probes,
         src.protocol = other.protocol, src.files = other.files, NEW text
  PROVE  /\ UsableParity(text, src) <=> UsableParity(text, other)
         /\ UsableReplay(text, src) <=> UsableReplay(text, other)
         /\ UsableDistribution(text, src) <=> UsableDistribution(text, other)
         /\ SoundSources(src) <=> SoundSources(other)
<1>1. UsableParity(text, src) <=> UsableParity(text, other)
  BY DEF UsableParity, ParityIsCoherent
<1>2. UsableReplay(text, src) <=> UsableReplay(text, other)
  BY DEF UsableReplay, ReplayIsCoherent
<1>3. UsableDistribution(text, src) <=> UsableDistribution(text, other)
  BY DEF UsableDistribution
<1>4. SoundSources(src) <=> SoundSources(other)
  BY DEF SoundSources, StaticFiles
<1> QED BY <1>1, <1>2, <1>3, <1>4

(* Three proofs, each with what the two readers make of it. *)
LEMMA EachProofIsRead ==
  ASSUME NEW src, NEW proofs, Complete(proofs), \A k \in Document \ {"report"} : Made(k, proofs[k])
  PROVE  /\ (UsableParity(proofs.parity, src) /\ ParityStatuses(proofs.parity) = {"match"})
              <=> (/\ UsableParity(proofs.parity, src) /\ ParityFindings(proofs.parity) = {}
                   /\ ParityLevel(proofs.parity) = "match" /\ ProbeLevel(proofs.parity) = "match")
         /\ (/\ UsableReplay(proofs.exact, src) /\ ReplayStatuses(proofs.exact) = {"match"}
             /\ BatchingStatuses(proofs.exact) = {"match"})
              <=> (/\ UsableReplay(proofs.exact, src) /\ {d.class : d \in proofs.exact.diagnostics} = {}
                   /\ ReplayLevel(proofs.exact) = "match" /\ BatchLevel(proofs.exact) = "match")
         /\ (/\ UsableDistribution(proofs.distribution, src)
             /\ DistributionStatuses(proofs.distribution) = {"match"})
              <=> (/\ UsableDistribution(proofs.distribution, src)
                   /\ {d.class : d \in proofs.distribution.diagnostics} = {}
                   /\ DistributionLevel(proofs.distribution) = "match")
         /\ CompatibilityStatuses(proofs.compatibility) = {"match"}
              <=> proofs.compatibility.status \notin {"blocked", "control_error"}
<1>0. /\ Made("parity", proofs["parity"]) /\ Made("exact", proofs["exact"])
      /\ Made("distribution", proofs["distribution"])
      /\ Made("compatibility", proofs["compatibility"])
  BY DEF Document
<1>1. (UsableParity(proofs.parity, src) /\ ParityStatuses(proofs.parity) = {"match"})
              <=> (/\ UsableParity(proofs.parity, src) /\ ParityFindings(proofs.parity) = {}
                   /\ ParityLevel(proofs.parity) = "match" /\ ProbeLevel(proofs.parity) = "match")
  <2>1. PICK made, broken : proofs.parity = ParityReport(made, broken)
    BY <1>0 DEF Made
  <2>2. UsableParity(proofs.parity, src) => proofs.parity.status # "invalid_corpus"
    BY DEF UsableParity
  <2> QED BY <2>1, <2>2, ParityReaders
<1>2. (/\ UsableReplay(proofs.exact, src) /\ ReplayStatuses(proofs.exact) = {"match"}
       /\ BatchingStatuses(proofs.exact) = {"match"})
        <=> (/\ UsableReplay(proofs.exact, src) /\ {d.class : d \in proofs.exact.diagnostics} = {}
             /\ ReplayLevel(proofs.exact) = "match" /\ BatchLevel(proofs.exact) = "match")
  <2>1. PICK made, broken : proofs.exact = ExactReplay(made, broken)
    BY <1>0 DEF Made
  <2>2. UsableReplay(proofs.exact, src) =>
          proofs.exact.status \notin {"invalid_corpus", "invalid_configuration"}
    BY DEF UsableReplay
  <2>3. UsableReplay(proofs.exact, src) =>
          ((ReplayStatuses(proofs.exact) = {"match"} /\ BatchingStatuses(proofs.exact) = {"match"})
             <=> /\ {d.class : d \in proofs.exact.diagnostics} = {}
                 /\ ReplayLevel(proofs.exact) = "match" /\ BatchLevel(proofs.exact) = "match")
    BY <2>1, <2>2, ReplayReaders
  <2> QED BY <2>3
<1>3. (/\ UsableDistribution(proofs.distribution, src)
       /\ DistributionStatuses(proofs.distribution) = {"match"})
        <=> (/\ UsableDistribution(proofs.distribution, src)
             /\ {d.class : d \in proofs.distribution.diagnostics} = {}
             /\ DistributionLevel(proofs.distribution) = "match")
  <2>1. PICK made, broken : proofs.distribution = DistributionEvidence(made, broken)
    BY <1>0 DEF Made
  <2>2. UsableDistribution(proofs.distribution, src) => proofs.distribution.status # "invalid"
    BY DEF UsableDistribution, EvidenceIsCoherent
  <2>3. UsableDistribution(proofs.distribution, src) =>
          (DistributionStatuses(proofs.distribution) = {"match"}
             <=> /\ {d.class : d \in proofs.distribution.diagnostics} = {}
                 /\ DistributionLevel(proofs.distribution) = "match")
    BY <2>1, <2>2, DistributionReaders
  <2> QED BY <2>3
<1>4. CompatibilityStatuses(proofs.compatibility) = {"match"}
        <=> proofs.compatibility.status \notin {"blocked", "control_error"}
  <2>1. PICK authority, semantics, read, diagnostics :
          proofs.compatibility = CompatibilityEvidence(authority, semantics, read, diagnostics)
    BY <1>0 DEF Made
  <2> QED BY <2>1, CompatibilityReaders
<1> QED BY <1>1, <1>2, <1>3, <1>4

(* The report is about the documents that are there, and so are its readers. *)
LEMMA MadeIsReadAlike ==
  ASSUME MadeInv
  PROVE  ReadersAgree
<1> SUFFICES ASSUME \A k \in Document : documents[k] # Absent,
                    documents.report.sources = ReportSources(tree, documents),
                    StaticFiles(tree),
                    \A c \in {"corpus_and_probes", "distribution_protocol"} : SourcesAreValid(c, tree)
             PROVE  /\ ReadBy({"deterministic_parity"})
                         <=> ReadInReport("deterministic_parity", {"parity", "probes"})
                    /\ ReadBy({"exact_replay", "batching_independence"})
                         <=> ReadInReport("exact_replay", {"exact", "batching"})
                    /\ ReadBy({"distributional_parity"})
                         <=> ReadInReport("distribution_evidence", {"distribution"})
                    /\ CompatibilityStatuses(documents.compatibility) = {"match"}
                         <=> ReadInReport("compatibility_evidence", {"compatibility"})
  BY DEF ReadersAgree
<1>1. \A k \in Document : Made(k, documents[k])
  BY DEF MadeInv
<1>2. PICK src, proofs : documents.report = ConsolidatedReport(src, proofs)
  BY <1>1 DEF Made, Document
<1>3. documents.report.sources = ReportSources(src, proofs)
  BY <1>2 DEF ConsolidatedReport
<1>4. /\ src.files = tree.files /\ src.corpus = tree.corpus /\ src.probes = tree.probes
      /\ src.protocol = tree.protocol /\ proofs.parity = documents.parity
      /\ proofs.exact = documents.exact /\ proofs.distribution = documents.distribution
      /\ proofs.compatibility = documents.compatibility
  <2>1. ReportSources(src, proofs) = ReportSources(tree, documents)
    BY <1>3
  <2> QED BY <2>1 DEF ReportSources
<1>5. SoundSources(tree)
  BY DEF SoundSources, SourcesAreValid
<1>6. SoundSources(src)
  BY <1>4, <1>5, SameSources
<1>7. Complete(documents)
  BY DEF Complete, Document
<1>8. Complete(proofs)
  BY <1>4, <1>7 DEF Complete
<1>9. /\ \A text : UsableParity(text, src) <=> UsableParity(text, tree)
      /\ \A text : UsableReplay(text, src) <=> UsableReplay(text, tree)
      /\ \A text : UsableDistribution(text, src) <=> UsableDistribution(text, tree)
  BY <1>4, SameSources
<1>10. /\ ReadInReport("deterministic_parity", {"parity", "probes"})
            <=> (/\ UsableParity(documents.parity, tree) /\ ParityFindings(documents.parity) = {}
                 /\ ParityLevel(documents.parity) = "match" /\ ProbeLevel(documents.parity) = "match")
       /\ ReadInReport("exact_replay", {"exact", "batching"})
            <=> (/\ UsableReplay(documents.exact, tree)
                 /\ {d.class : d \in documents.exact.diagnostics} = {}
                 /\ ReplayLevel(documents.exact) = "match" /\ BatchLevel(documents.exact) = "match")
       /\ ReadInReport("distribution_evidence", {"distribution"})
            <=> (/\ UsableDistribution(documents.distribution, tree)
                 /\ {d.class : d \in documents.distribution.diagnostics} = {}
                 /\ DistributionLevel(documents.distribution) = "match")
       /\ ReadInReport("compatibility_evidence", {"compatibility"})
            <=> documents.compatibility.status \notin {"blocked", "control_error"}
  <2> DEFINE report == documents.report
  <2>0. /\ report = ConsolidatedReport(src, proofs)
        /\ \A source, levels : ReadInReport(source, levels)
             <=> Available(report.diagnostics, source) /\ \A l \in levels : report.levels[l] = "match"
    BY <1>2 DEF ReadInReport
  <2> HIDE DEF report
  <2>1. /\ (Available(report.diagnostics, "deterministic_parity")
               /\ \A l \in {"parity", "probes"} : report.levels[l] = "match")
            <=> (/\ UsableParity(proofs.parity, src) /\ ParityFindings(proofs.parity) = {}
                 /\ ParityLevel(proofs.parity) = "match" /\ ProbeLevel(proofs.parity) = "match")
        /\ (Available(report.diagnostics, "exact_replay")
               /\ \A l \in {"exact", "batching"} : report.levels[l] = "match")
            <=> (/\ UsableReplay(proofs.exact, src) /\ NoFinding(proofs.exact)
                 /\ ReplayLevel(proofs.exact) = "match" /\ BatchLevel(proofs.exact) = "match")
        /\ (Available(report.diagnostics, "distribution_evidence")
               /\ \A l \in {"distribution"} : report.levels[l] = "match")
            <=> (/\ UsableDistribution(proofs.distribution, src) /\ NoFinding(proofs.distribution)
                 /\ DistributionLevel(proofs.distribution) = "match")
        /\ (Available(report.diagnostics, "compatibility_evidence")
               /\ \A l \in {"compatibility"} : report.levels[l] = "match")
            <=> proofs.compatibility.status \notin {"blocked", "control_error"}
    BY <1>6, <1>8, <2>0, ReportReads
  <2>3. /\ (Available(report.diagnostics, "deterministic_parity")
              /\ \A l \in {"parity", "probes"} : report.levels[l] = "match")
             <=> ReadInReport("deterministic_parity", {"parity", "probes"})
        /\ (Available(report.diagnostics, "exact_replay")
              /\ \A l \in {"exact", "batching"} : report.levels[l] = "match")
             <=> ReadInReport("exact_replay", {"exact", "batching"})
        /\ (Available(report.diagnostics, "distribution_evidence")
              /\ \A l \in {"distribution"} : report.levels[l] = "match")
             <=> ReadInReport("distribution_evidence", {"distribution"})
        /\ (Available(report.diagnostics, "compatibility_evidence")
              /\ \A l \in {"compatibility"} : report.levels[l] = "match")
             <=> ReadInReport("compatibility_evidence", {"compatibility"})
    BY <2>0, Zenon
  <2>4. NoFinding(proofs.exact) = NoFinding(documents.exact)
        /\ NoFinding(proofs.distribution) = NoFinding(documents.distribution)
    BY <1>4 DEF NoFinding
  <2>5. ReadInReport("deterministic_parity", {"parity", "probes"})
          <=> (/\ UsableParity(proofs.parity, src) /\ ParityFindings(proofs.parity) = {}
               /\ ParityLevel(proofs.parity) = "match" /\ ProbeLevel(proofs.parity) = "match")
    BY <2>1, <2>3, Zenon
  <2>6. ReadInReport("exact_replay", {"exact", "batching"})
          <=> (/\ UsableReplay(proofs.exact, src) /\ NoFinding(proofs.exact)
               /\ ReplayLevel(proofs.exact) = "match" /\ BatchLevel(proofs.exact) = "match")
    BY <2>1, <2>3, Zenon
  <2>7. ReadInReport("distribution_evidence", {"distribution"})
          <=> (/\ UsableDistribution(proofs.distribution, src) /\ NoFinding(proofs.distribution)
               /\ DistributionLevel(proofs.distribution) = "match")
    BY <2>1, <2>3, Zenon
  <2>8. ReadInReport("compatibility_evidence", {"compatibility"})
          <=> proofs.compatibility.status \notin {"blocked", "control_error"}
    BY <2>1, <2>3, Zenon
  <2>9. ReadInReport("exact_replay", {"exact", "batching"})
          <=> (/\ UsableReplay(documents.exact, tree) /\ NoFinding(documents.exact)
               /\ ReplayLevel(documents.exact) = "match" /\ BatchLevel(documents.exact) = "match")
    BY <1>4, <1>9, <2>4, <2>6
  <2>10. ReadInReport("distribution_evidence", {"distribution"})
          <=> (/\ UsableDistribution(documents.distribution, tree) /\ NoFinding(documents.distribution)
               /\ DistributionLevel(documents.distribution) = "match")
    BY <1>4, <1>9, <2>4, <2>7
  <2> QED BY <1>4, <1>9, <2>5, <2>8, <2>9, <2>10 DEF NoFinding
<1>11. /\ ReadBy({"deterministic_parity"})
            <=> UsableParity(documents.parity, tree) /\ ParityStatuses(documents.parity) = {"match"}
       /\ ReadBy({"exact_replay", "batching_independence"})
            <=> /\ UsableReplay(documents.exact, tree) /\ ReplayStatuses(documents.exact) = {"match"}
                /\ BatchingStatuses(documents.exact) = {"match"}
       /\ ReadBy({"distributional_parity"})
            <=> /\ UsableDistribution(documents.distribution, tree)
                /\ DistributionStatuses(documents.distribution) = {"match"}
  BY DEF ReadBy, ProofMatches
<1> QED BY <1>1, <1>7, <1>10, <1>11, EachProofIsRead

(* With valid sources, the specialized control of a proof and the report     *)
(* find it good together, whatever was run, edited and left behind before:   *)
(* neither of the two sets of rules lets pass what the other refuses.        *)
THEOREM ReadersTellTheSame == Spec => []ReadersAgree
<1>1. Init => MadeInv
  BY DEF Init, NoDocument, MadeInv, Document
<1>2. IInv /\ MadeInv /\ [Next]_vars => IInv' /\ MadeInv'
  BY Stepping, MadeIsKept
<1>3. MadeInv => ReadersAgree
  BY MadeIsReadAlike
<1> QED BY Initial, <1>1, <1>2, <1>3, PTL DEF Spec

(***************************************************************************)
(* Sources without a defect: what each generator makes of them.            *)
(***************************************************************************)

(* What the absence of a defect says. *)
LEMMA SourcesInOrder ==
  ASSUME NEW src, ~Defective(src)
  PROVE  /\ src.policy /\ src.authority # Absent /\ SoundSources(src)
         /\ \A c \in {"authority_preflight", "corpus_and_probes", "distribution_protocol"} :
              SourcesAreValid(c, src)
         /\ RequiredCoverage \subseteq Coverage(src.corpus) /\ BatchPlanIsComplete(src.corpus)
         /\ ~Drifts(src)
         /\ \A p \in DOMAIN src.authority.proofs :
              src.authority.proofs[p].fingerprint = ProofDocuments(src, DueProofs(src))[p]
         /\ \A c \in ProofControl : Claim(c, src, Absent)
<1>1. /\ \A c \in {"authority_preflight", "corpus_and_probes", "distribution_protocol"} :
           SourcesAreValid(c, src)
      /\ StaticFiles(src)
  BY DEF Defective
<1>2. SoundSources(src)
  BY <1>1 DEF SoundSources, SourcesAreValid
<1>3. \A c \in ProofControl : Claim(c, src, Absent)
  BY DEF Defective, Control, ProofControl
<1> QED BY <1>1, <1>2, <1>3 DEF Defective

(* A record does not differ from itself. *)
LEMMA NoDifference ==
  \A e : CompareCanonical(e, e) = {}
BY DEF CompareCanonical

(* The answer of the corpus matches it ... *)
LEMMA RightAnswer ==
  ASSUME NEW outcome, NEW c \in Case, NEW expected, outcome[c] = expected, expected # Raised
  PROVE  /\ Reported(EngineReport(outcome), c) = [status |-> "ok", result |-> expected]
         /\ Normative(expected, Reported(EngineReport(outcome), c)) = [status |-> "match", differences |-> {}]
<1>1. Reported(EngineReport(outcome), c) = [status |-> "ok", result |-> expected]
  BY CaseIsReported DEF EngineCases
<1> QED BY <1>1, NoDifference DEF Normative

(* ... and every other answer that does. *)
LEMMA SameAnswer ==
  \A expected, divergence :
    InterEngine([status |-> "ok", result |-> expected], [status |-> "ok", result |-> expected], divergence)
      = [status |-> "match", differences |-> {}]
BY NoDifference DEF InterEngine

(* An engine that answers every case has completed its run. *)
LEMMA EngineCompletes ==
  ASSUME NEW outcome, \A c \in Case : outcome[c] # Raised
  PROVE  EngineReport(outcome).status = "completed"
BY DEF EngineReport

(* A counter of what does not happen is at zero. *)
LEMMA NothingToCount ==
  ASSUME NEW cases, NEW outcome, \A c \in Case : outcome \notin cases[c].outcomes
  PROVE  Counted(cases, outcome) = 0
<1>1. {c \in Case : outcome \in cases[c].outcomes} = {}
  OBVIOUS
<1> QED BY <1>1, FS_EmptySet DEF Counted

(* The answers of sources in order are those of the corpus. *)
LEMMA AnswersInOrder ==
  ASSUME NEW src, IsSource(src), ~Defective(src), NEW c \in Case
  PROVE  /\ src.corpus.expected[c] # Raised /\ src.corpus.expected[c] # Failed
         /\ src.typescript.results[c] = src.corpus.expected[c]
         /\ \A b \in Batch : src.python.results[b][c] = src.corpus.expected[c]
<1>1. Claim("exact_replay", src, Absent)
  BY SourcesInOrder DEF ProofControl
<1> QED BY <1>1 DEF Claim, Answers, IsSource

(* The documents of sources in order are there. *)
LEMMA DueIs ==
  ASSUME NEW src
  PROVE  LET proofs == DueProofs(src)
             four == [parity |-> Due(src).parity, exact |-> Due(src).exact,
                      distribution |-> Due(src).distribution,
                      compatibility |-> Due(src).compatibility, report |-> Absent]
         IN /\ Due(src).parity = ParityReport(src, {}) /\ Due(src).exact = ExactReplay(src, {})
            /\ Due(src).distribution = DistributionEvidence(src, {})
            /\ Due(src).compatibility = CompatibilityEvidence(src.authority, src.semantics,
                                                              ProofDocuments(src, proofs), {})
            /\ Due(src).report = ConsolidatedReport(src, four)
            /\ proofs.parity = Due(src).parity /\ proofs.exact = Due(src).exact
            /\ proofs.distribution = Due(src).distribution
<1> DEFINE proofs == DueProofs(src)
           evidence == CompatibilityEvidence(src.authority, src.semantics, ProofDocuments(src, proofs), {})
           report == ConsolidatedReport(src, [parity |-> proofs.parity, exact |-> proofs.exact,
                       distribution |-> proofs.distribution, compatibility |-> evidence,
                       report |-> Absent])
<1>1. Due(src) = [parity |-> proofs.parity, exact |-> proofs.exact,
                  distribution |-> proofs.distribution, compatibility |-> evidence, report |-> report]
  BY DEF Due
<1>2. /\ proofs.parity = ParityReport(src, {}) /\ proofs.exact = ExactReplay(src, {})
      /\ proofs.distribution = DistributionEvidence(src, {})
  BY DEF DueProofs
<1> HIDE DEF proofs, evidence, report
<1>3. /\ Due(src).parity = proofs.parity /\ Due(src).exact = proofs.exact
      /\ Due(src).distribution = proofs.distribution /\ Due(src).compatibility = evidence
      /\ Due(src).report = report
  BY <1>1
<1> QED BY <1>2, <1>3 DEF proofs, evidence, report

LEMMA DueIsThere ==
  ASSUME NEW src, IsSource(src)
  PROVE  \A k \in Document : Due(src)[k] # Absent
BY DEF IsSource, NeverAbsent

(* A parity report without a failure agrees with itself, and with the        *)
(* sources it was made from.                                                 *)
LEMMA ParityInOrder ==
  ASSUME NEW src, IsSource(src), ~Defective(src), NEW report, report = Due(src).parity
  PROVE  /\ report.status = "match" /\ UsableParity(report, src)
         /\ ParityStatuses(report) = {"match"} /\ ParityFindings(report) = {}
         /\ ParityLevel(report) = "match" /\ ProbeLevel(report) = "match"
<1> DEFINE expected == src.corpus.expected
           python == EngineReport(src.python.results[DefaultBatch])
           typescript == EngineReport(src.typescript.results)
           cases == CaseComparisons(expected, python, typescript)
           engines == [python |-> python.status, typescript |-> typescript.status]
           pyProbes == ProbeReport(src.python.accepts, TRUE)
           tsProbes == ProbeReport(src.typescript.accepts, TRUE)
           alignment == Alignment(src.probes.expected, pyProbes, tsProbes)
           summary == ParitySummary(cases, engines)
           made == [status |-> ParityStatus(summary, alignment), cases |-> cases,
                    engines |-> engines, alignment |-> alignment, summary |-> summary]
<1>1. report = made
  <2>1. report = ParityReport(src, {})
    BY DueIs
  <2>2. src.corpus.valid /\ src.probes.valid
    BY SourcesInOrder DEF SoundSources
  <2> QED BY <2>1, <2>2 DEF ParityReport
<1>2. /\ report.status = ParityStatus(summary, alignment) /\ report.cases = cases
      /\ report.engines = engines /\ report.alignment = alignment /\ report.summary = summary
  <2> HIDE DEF cases, engines, alignment, summary
  <2> QED BY <1>1
<1>3. ASSUME NEW c \in Case
      PROVE  cases[c].expected = expected[c] /\ cases[c].outcomes = {"match"}
  <2> DEFINE py == Normative(expected[c], Reported(python, c))
             ts == Normative(expected[c], Reported(typescript, c))
             both == InterEngine(Reported(python, c), Reported(typescript, c), "engine_divergence")
             outcomes == Outcomes({py.status, ts.status, both.status})
  <2>1. cases[c] = [expected |-> expected[c], python |-> py, typescript |-> ts, inter |-> both,
                    outcomes |-> outcomes]
    <3> HIDE DEF python, typescript
    <3> QED BY DEF CaseComparisons
  <2>2. /\ src.python.results[DefaultBatch][c] = expected[c] /\ src.typescript.results[c] = expected[c]
        /\ expected[c] # Raised
    BY AnswersInOrder, SourceAssumption
  <2>3. /\ Reported(python, c) = [status |-> "ok", result |-> expected[c]]
        /\ Reported(typescript, c) = [status |-> "ok", result |-> expected[c]]
        /\ py = [status |-> "match", differences |-> {}] /\ ts = [status |-> "match", differences |-> {}]
    <3>1. /\ Reported(EngineReport(src.python.results[DefaultBatch]), c) = [status |-> "ok", result |-> expected[c]]
          /\ Normative(expected[c], Reported(EngineReport(src.python.results[DefaultBatch]), c))
               = [status |-> "match", differences |-> {}]
      BY <2>2, RightAnswer
    <3>2. /\ Reported(EngineReport(src.typescript.results), c) = [status |-> "ok", result |-> expected[c]]
          /\ Normative(expected[c], Reported(EngineReport(src.typescript.results), c))
               = [status |-> "match", differences |-> {}]
      BY <2>2, RightAnswer
    <3> QED BY <3>1, <3>2, Zenon DEF python, typescript, py, ts
  <2>4. both = [status |-> "match", differences |-> {}]
    BY <2>3, SameAnswer
  <2>5. py.status = "match" /\ ts.status = "match" /\ both.status = "match"
    BY <2>3, <2>4
  <2>6. outcomes = {"match"}
    <3> HIDE DEF py, ts, both
    <3> QED BY <2>5 DEF Outcomes
  <2> HIDE DEF cases, py, ts, both, outcomes, expected
  <2> QED BY <2>1, <2>6
<1>4. python.status = "completed" /\ typescript.status = "completed"
  BY EngineCompletes, AnswersInOrder, SourceAssumption
<1>5. /\ summary.fatal = 0 /\ summary.errors = 0 /\ summary.normative = 0 /\ summary.engine = 0
  <2>1. {e \in DOMAIN engines : engines[e] = "engine_error"} = {}
    BY <1>4
  <2>2. /\ Counted(cases, "engine_error") = 0 /\ Counted(cases, "normative_divergence") = 0
        /\ Counted(cases, "engine_divergence") = 0
    <3> HIDE DEF cases
    <3> QED BY <1>3, NothingToCount
  <2>3. Cardinality({e \in DOMAIN engines : engines[e] = "engine_error"}) = 0
    BY <2>1, FS_EmptySet
  <2> HIDE DEF cases, engines
  <2> QED BY <2>2, <2>3 DEF ParitySummary
<1>6. alignment.status = "match" /\ alignment.expected = src.probes.expected
  <2>1. /\ \A p \in Probe : /\ src.python.accepts[p] = src.probes.expected[p]
                            /\ src.typescript.accepts[p] = src.probes.expected[p]
                            /\ src.probes.expected[p] # Raised
        /\ Probe \subseteq DOMAIN src.python.accepts /\ Probe \subseteq DOMAIN src.typescript.accepts
    BY SourcesInOrder DEF ProofControl, Claim, IsSource
  <2>2. /\ pyProbes = [status |-> "completed", accepted |-> src.python.accepts]
        /\ tsProbes = [status |-> "completed", accepted |-> src.typescript.accepts]
    BY <2>1 DEF ProbeReport
  <2> HIDE DEF pyProbes, tsProbes
  <2>3. /\ pyProbes.status = "completed" /\ pyProbes.accepted = src.python.accepts
        /\ tsProbes.status = "completed" /\ tsProbes.accepted = src.typescript.accepts
    BY <2>2
  <2>4. \A p \in Probe : \A r \in {pyProbes, tsProbes} :
           p \in DOMAIN r.accepted /\ r.accepted[p] = src.probes.expected[p]
    BY <2>1, <2>3
  <2> DEFINE agrees(p) == \A r \in {pyProbes, tsProbes} :
                            p \in DOMAIN r.accepted /\ r.accepted[p] = src.probes.expected[p]
             probes == [p \in Probe |-> IF agrees(p) THEN "match" ELSE "divergence"]
             status == IF "engine_error" \in {pyProbes.status, tsProbes.status} THEN "engine_error"
                       ELSE IF \A p \in Probe : probes[p] = "match" THEN "match" ELSE "divergence"
  <2>5. alignment = [status |-> status,
                     engines |-> [python |-> pyProbes.status, typescript |-> tsProbes.status],
                     expected |-> src.probes.expected, cases |-> probes]
    BY Zenon DEF Alignment
  <2>6. status = "match"
    BY <2>3, <2>4
  <2> HIDE DEF alignment, status, probes
  <2> QED BY <2>5, <2>6
<1> HIDE DEF cases, engines, alignment, summary
<1>7. report.status = "match"
  BY <1>2, <1>5, <1>6 DEF ParityStatus
<1>8. UsableParity(report, src)
  <2>1. report # Absent
    BY DueIsThere DEF Document
  <2>2. ParityIsCoherent(report, src)
    BY <1>2, <1>3, <1>6 DEF ParityIsCoherent, summary
  <2> QED BY <1>7, <2>1, <2>2 DEF UsableParity
<1>9. report = ParityReport(src, {})
  BY DueIs
<1>10. report.status # "invalid_corpus"
  BY <1>7
<1>11. /\ ParityStatuses(report) = {"match"} <=> report.status = "match"
       /\ report.status = "match" <=> ParityLevel(report) = "match" /\ ProbeLevel(report) = "match"
       /\ report.status = "match" => ParityFindings(report) = {}
  BY <1>9, <1>10, ParityReaders
<1> QED BY <1>7, <1>8, <1>11

(* A case of the replay is independent when all its batches match. *)
LEMMA CaseIndependence ==
  ASSUME NEW case, NEW expected, NEW python, NEW typescript, NEW c,
         case = ReplayCase(expected, python, typescript, c)
  PROVE  case.independent = \A b \in Batch : case.batches[b].status = "match"
<1> DEFINE ts == Normative(expected, Reported(typescript, c))
           batches == [b \in Batch |-> Normative(expected, Reported(python[b], c))]
           inter == [b \in Batch |-> InterEngine(Reported(python[b], c), Reported(typescript, c),
                                                 "interlanguage_divergence")]
           outcomes == Outcomes({ts.status} \cup {batches[b].status : b \in Batch}
                                  \cup {inter[b].status : b \in Batch})
           made == [typescript |-> ts, batches |-> batches, inter |-> inter, outcomes |-> outcomes,
                    independent |-> \A b \in Batch : batches[b].status = "match"]
<1>1. case = made
  BY Zenon DEF ReplayCase
<1> HIDE DEF ts, batches, inter, outcomes
<1>2. made.independent = (\A b \in Batch : batches[b].status = "match") /\ made.batches = batches
  OBVIOUS
<1> HIDE DEF made
<1> QED BY <1>1, <1>2, Zenon

(* A replay without a failure, in the same way. *)
LEMMA ReplayInOrder ==
  ASSUME NEW src, IsSource(src), ~Defective(src), NEW report, report = Due(src).exact
  PROVE  /\ report.status = "match" /\ UsableReplay(report, src)
         /\ ReplayStatuses(report) = {"match"} /\ BatchingStatuses(report) = {"match"}
         /\ NoFinding(report) /\ ReplayLevel(report) = "match" /\ BatchLevel(report) = "match"
<1> DEFINE expected == src.corpus.expected
           python == [b \in Batch |-> EngineReport(src.python.results[b])]
           typescript == EngineReport(src.typescript.results)
           cases == [c \in Case |-> ReplayCase(expected[c], python, typescript, c)]
           independent == \A c \in Case : cases[c].independent
<1>1. RequiredCoverage \subseteq Coverage(src.corpus)
  BY SourcesInOrder
<1>2. report = ExactReplay(src, {}) /\ report = ReplayReport(src, {})
  <2>1. src.corpus.valid /\ BatchPlanIsComplete(src.corpus)
    BY SourcesInOrder DEF SoundSources
  <2> QED BY <1>1, <2>1, DueIs DEF ExactReplay
<1>3. /\ report.status = ReplayStatus(cases) /\ report.cases = cases
      /\ report.coverage = Coverage(src.corpus) /\ report.batches = Batch
      /\ report.diagnostics = ReplayDiagnostics(cases) /\ report.independent = independent
  <2>1. report = [status |-> ReplayStatus(cases), cases |-> cases, coverage |-> Coverage(src.corpus),
                  batches |-> Batch, diagnostics |-> ReplayDiagnostics(cases),
                  independent |-> independent]
    <3>1. "replay" \notin {}
      OBVIOUS
    <3> QED BY <1>2, <3>1, Zenon DEF ReplayReport
  <2> HIDE DEF cases, independent
  <2> QED BY <2>1
<1>4. Case # {}
  BY <1>1, CoverageAssumption DEF Coverage
<1>5. ASSUME NEW c \in Case
      PROVE  /\ cases[c].outcomes = {"match"} /\ cases[c].independent
             /\ DOMAIN cases[c].batches = Batch /\ DOMAIN cases[c].inter = Batch
             /\ \A b \in Batch : cases[c].batches[b].status = "match"
  <2> DEFINE ts == Normative(expected[c], Reported(typescript, c))
             batches == [b \in Batch |-> Normative(expected[c], Reported(python[b], c))]
             inter == [b \in Batch |-> InterEngine(Reported(python[b], c), Reported(typescript, c),
                                                   "interlanguage_divergence")]
             statuses == {ts.status} \cup {batches[b].status : b \in Batch}
                           \cup {inter[b].status : b \in Batch}
             same == \A b \in Batch : batches[b].status = "match"
  <2>1. cases[c] = [typescript |-> ts, batches |-> batches, inter |-> inter,
                    outcomes |-> Outcomes(statuses), independent |-> same]
    <3>1. cases[c] = ReplayCase(expected[c], python, typescript, c)
      <4> HIDE DEF python, typescript
      <4> QED OBVIOUS
    <3> HIDE DEF python, typescript, cases
    <3> QED BY <3>1, Zenon DEF ReplayCase
  <2>2. /\ \A b \in Batch : src.python.results[b][c] = expected[c]
        /\ src.typescript.results[c] = expected[c] /\ expected[c] # Raised
    BY AnswersInOrder
  <2>3. /\ Reported(typescript, c) = [status |-> "ok", result |-> expected[c]]
        /\ ts = [status |-> "match", differences |-> {}]
    BY <2>2, RightAnswer
  <2>4. ASSUME NEW b \in Batch
        PROVE  batches[b].status = "match" /\ inter[b].status = "match"
    <3>1. /\ Reported(EngineReport(src.python.results[b]), c) = [status |-> "ok", result |-> expected[c]]
          /\ Normative(expected[c], Reported(EngineReport(src.python.results[b]), c))
               = [status |-> "match", differences |-> {}]
      BY <2>2, RightAnswer, ZenonT(60)
    <3>2. InterEngine(Reported(python[b], c), Reported(typescript, c), "interlanguage_divergence")
            = [status |-> "match", differences |-> {}]
      BY <2>3, <3>1, SameAnswer
    <3>3. /\ batches[b] = Normative(expected[c], Reported(python[b], c))
          /\ inter[b] = InterEngine(Reported(python[b], c), Reported(typescript, c),
                                    "interlanguage_divergence")
          /\ python[b] = EngineReport(src.python.results[b])
      OBVIOUS
    <3> HIDE DEF batches, inter, python
    <3>4. batches[b] = [status |-> "match", differences |-> {}]
          /\ inter[b] = [status |-> "match", differences |-> {}]
      BY <3>1, <3>2, <3>3
    <3> QED BY <3>4
  <2>5. DOMAIN batches = Batch /\ DOMAIN inter = Batch /\ ts.status = "match"
    BY <2>3
  <2> HIDE DEF ts, batches, inter, cases
  <2>6. statuses = {"match"} /\ same
    BY <2>4, <2>5
  <2>7. Outcomes(statuses) = {"match"}
    BY <2>6 DEF Outcomes
  <2> HIDE DEF statuses, same
  <2>8. /\ cases[c].batches = batches /\ cases[c].inter = inter
        /\ cases[c].outcomes = Outcomes(statuses) /\ cases[c].independent = same
    BY <2>1
  <2> QED BY <2>4, <2>5, <2>6, <2>7, <2>8
<1> HIDE DEF cases
<1>6. UNION {cases[c].outcomes : c \in Case} = {"match"}
  BY <1>4, <1>5
<1>7. report.status = "match" /\ report.independent
  <2>1. report.status = "match"
    BY <1>3, <1>6 DEF ReplayStatus
  <2>2. independent
    BY <1>5
  <2> QED BY <1>3, <2>1, <2>2
<1>8. UsableReplay(report, src)
  <2>1. report # Absent
    BY DueIsThere DEF Document
  <2>2. \A c \in Case : /\ DOMAIN report.cases[c].batches = report.batches
                        /\ DOMAIN report.cases[c].inter = report.batches
                        /\ report.cases[c].independent
                        /\ \A b \in report.batches : report.cases[c].batches[b].status = "match"
    BY <1>3, <1>5
  <2>3. ReplayIsCoherent(report, src)
    <3>1. report.independent = \A c \in Case : report.cases[c].independent
      BY <1>3, Zenon DEF independent
    <3>2. \A c \in Case : report.cases[c].independent
             = \A b \in report.batches : report.cases[c].batches[b].status = "match"
      <4> SUFFICES ASSUME NEW c \in Case
                   PROVE  report.cases[c].independent
                            = \A b \in report.batches : report.cases[c].batches[b].status = "match"
        OBVIOUS
      <4>1. report.cases[c].independent = \A b \in Batch : report.cases[c].batches[b].status = "match"
        <5>1. /\ cases[c] = ReplayCase(expected[c], python, typescript, c)
          <6> HIDE DEF python, typescript
          <6> QED BY DEF cases
        <5>2. report.cases[c] = ReplayCase(expected[c], python, typescript, c)
          BY <1>3, <5>1, Zenon
        <5> DEFINE case == report.cases[c]
        <5> HIDE DEF expected, python, typescript, case
        <5>3. case = ReplayCase(expected[c], python, typescript, c)
          BY <5>2 DEF case
        <5>4. case.independent = \A b \in Batch : case.batches[b].status = "match"
          BY <5>3, CaseIndependence, Zenon
        <5> QED BY <5>4 DEF case
      <4> QED BY <1>3, <4>1
    <3> QED BY <1>3, <2>2, <3>1, <3>2 DEF ReplayIsCoherent
  <2> QED BY <1>7, <2>1, <2>3 DEF UsableReplay
<1>9. ReplayStatuses(report) = {"match"} /\ BatchingStatuses(report) = {"match"}
  <2>1. (UNION {report.cases[c].outcomes : c \in Case}) \ {"match"} = {}
    BY <1>3, <1>6
  <2>2. ReplayStatuses(report) = OrElse({}, report)
    BY <2>1 DEF ReplayStatuses
  <2> QED BY <1>7, <2>2 DEF OrElse, BatchingStatuses
<1>10. report.status \notin {"invalid_corpus", "invalid_configuration"}
  BY <1>7
<1>11. (ReplayStatuses(report) = {"match"} /\ BatchingStatuses(report) = {"match"})
          <=> /\ {d.class : d \in report.diagnostics} = {}
              /\ ReplayLevel(report) = "match" /\ BatchLevel(report) = "match"
  BY <1>2, <1>10, ReplayReaders, SMTT(60)
<1> QED BY <1>7, <1>8, <1>9, <1>11 DEF NoFinding

(* A metric within its margin is supported. *)
LEMMA WithinMarginMatches ==
  ASSUME NEW measures, NEW m, NEW permutations, IsMeasure(measures[m]), WithinMargin(measures[m])
  PROVE  Verdict(measures, m, permutations) = "match"
<1> DEFINE measure == measures[m]
<1>1. IsMeasure(measure) /\ WithinMargin(measure)
  OBVIOUS
<1>2. Supported(measure) /\ ~(measure.kind = "exact_structural" /\ measure.mismatch)
  <2> HIDE DEF measure
  <2>1. CASE measure.kind = "exact_structural"
    BY <1>1, <2>1 DEF WithinMargin, Supported
  <2>2. CASE measure.kind = "rate_difference"
    <3> DEFINE low == measure.low  high == measure.high  margin == measure.margin
               ends == {low, -low, high, -high}
    <3>1. /\ low \in Int /\ high \in Int /\ margin \in Int /\ low <= high
          /\ -margin <= low /\ high <= margin
      BY <1>1, <2>2 DEF IsMeasure, WithinMargin
    <3>2. UpperEnd(measure) = LargestOf(ends)
      BY <2>2 DEF UpperEnd
    <3> HIDE DEF low, high, margin
    <3>3. -low \in Int /\ -high \in Int
      BY <3>1
    <3>4. LargestOf(ends) \in ends
      BY <3>1, <3>3, LargestOfFour
    <3>5. \A y \in ends : y <= margin
      BY <3>1
    <3>6. UpperEnd(measure) <= measure.margin
      BY <3>2, <3>4, <3>5 DEF margin
    <3> QED BY <2>2, <3>6 DEF Supported
  <2>3. CASE measure.kind = "discrete_cdf"
    <3>1. measure.effect \in Int /\ measure.radius \in Int /\ measure.margin \in Int
      BY <1>1, <2>3 DEF IsMeasure
    <3>2. Least(One, measure.effect + measure.radius) <= measure.margin
      BY <1>1, <2>3, <3>1, SourceAssumption DEF WithinMargin, Least
    <3> QED BY <2>3, <3>2 DEF Supported, UpperEnd
  <2> QED BY <1>1, <2>1, <2>2, <2>3 DEF IsMeasure, WithinMargin
<1> DEFINE rejected == /\ Inferential(measure)
                       /\ Adjusted(measures, m, permutations) * AlphaInverse <= permutations + 1
                       /\ measure.effect > measure.margin
<1>3. Verdict(measures, m, permutations) =
        IF measure.kind = "exact_structural" /\ measure.mismatch THEN "divergence"
        ELSE IF Supported(measure) THEN "match"
        ELSE IF rejected THEN "divergence" ELSE "inconclusive"
  BY Zenon DEF Verdict
<1> HIDE DEF rejected, measure
<1> QED BY <1>2, <1>3

(* A distributional evidence whose metrics all match. *)
LEMMA DistributionInOrder ==
  ASSUME NEW src, IsSource(src), ~Defective(src), NEW evidence, evidence = Due(src).distribution
  PROVE  /\ evidence.status = "match" /\ UsableDistribution(evidence, src)
         /\ DistributionStatuses(evidence) = {"match"}
         /\ NoFinding(evidence) /\ DistributionLevel(evidence) = "match"
<1> DEFINE verdicts == [m \in Metric |-> Verdict(src.measures, m, src.protocol.permutations)]
           scenarios == ScenarioVerdicts(verdicts)
           diagnostics == MetricDiagnostics(verdicts)
<1>1. evidence = DistributionEvidence(src, {}) /\ evidence = Evidence(src)
  <2>1. ProtocolIssue(src.protocol) = "none" /\ "cohorts" \notin {}
    BY SourcesInOrder DEF SoundSources
  <2>2. \A c \in SourceCase : /\ src.python.results[CohortBatch][c] # Failed
                              /\ src.typescript.results[c] # Failed
    BY AnswersInOrder, SourceAssumption
  <2>3. ~CohortFails(src.python.results[CohortBatch]) /\ ~CohortFails(src.typescript.results)
    BY <2>2 DEF CohortFails
  <2> QED BY <2>1, <2>3, DueIs DEF DistributionEvidence
<1>2. evidence = [status |-> Aggregate({scenarios[s] : s \in Scenario}), class |-> "none",
                  verdicts |-> verdicts, scenarios |-> scenarios, diagnostics |-> diagnostics,
                  protocol |-> src.protocol]
  BY <1>1 DEF Evidence
<1>3. \A m \in Metric : verdicts[m] = "match"
  <2>1. \A m \in Metric : WithinMargin(src.measures[m])
    BY SourcesInOrder DEF ProofControl, Claim
  <2> QED BY <2>1, WithinMarginMatches DEF IsSource
<1> HIDE DEF verdicts
<1>4. DOMAIN scenarios = Scenario /\ \A s \in Scenario : scenarios[s] = "match"
  <2> SUFFICES ASSUME NEW s \in Scenario PROVE scenarios[s] = "match"
    BY DEF ScenarioVerdicts
  <2> DEFINE of == {verdicts[m] : m \in {k \in Metric : ScenarioOf[k] = s}}
  <2>1. \E m \in Metric : ScenarioOf[m] = s
    BY SourceAssumption
  <2>2. of = {"match"}
    BY <1>3, <2>1
  <2>3. scenarios[s] = Aggregate(of)
    BY DEF ScenarioVerdicts
  <2> HIDE DEF of, scenarios
  <2> QED BY <2>2, <2>3 DEF Aggregate
<1>5. Aggregate({scenarios[s] : s \in Scenario}) = "match"
  <2>1. {scenarios[s] : s \in Scenario} = {"match"}
    BY <1>4, SourceAssumption
  <2> HIDE DEF scenarios
  <2> QED BY <2>1 DEF Aggregate
<1>6. diagnostics = {}
  BY <1>3 DEF MetricDiagnostics
<1> HIDE DEF scenarios, diagnostics
<1>7. /\ evidence.status = "match" /\ evidence.scenarios = scenarios
      /\ evidence.diagnostics = {} /\ evidence.protocol = src.protocol
  BY <1>2, <1>5, <1>6
<1>8. UsableDistribution(evidence, src)
  <2>1. evidence # Absent
    BY DueIsThere DEF Document
  <2>2. evidence.status = Aggregate({evidence.scenarios[s] : s \in DOMAIN evidence.scenarios})
    BY <1>4, <1>5, <1>7
  <2> QED BY <1>7, <2>1, <2>2 DEF UsableDistribution, EvidenceIsCoherent
<1>9. NoFinding(evidence)
  BY <1>7 DEF NoFinding
<1>10. DistributionLevel(evidence) = "match"
  BY <1>7 DEF DistributionLevel
<1>11. DistributionStatuses(evidence) = {"match"}
  <2>1. evidence.status # "invalid"
    BY <1>7
  <2>2. DistributionStatuses(evidence) = {"match"}
          <=> /\ {d.class : d \in evidence.diagnostics} = {}
              /\ DistributionLevel(evidence) = "match"
    BY <1>1, <2>1, DistributionReaders
  <2> QED BY <1>9, <1>10, <2>2 DEF NoFinding
<1> QED BY <1>7, <1>8, <1>9, <1>10, <1>11

(* The proofs that the authority lists are the three that were written.      *)
LEMMA SameDocuments ==
  ASSUME NEW src, NEW p, NEW q,
         p.parity = q.parity, p.exact = q.exact, p.distribution = q.distribution
  PROVE  ProofDocuments(src, p) = ProofDocuments(src, q)
<1>1. \A d \in DynamicProof : p[ReadAs[d]] = q[ReadAs[d]]
  BY DEF ReadAs, DynamicProof
<1> QED BY <1>1 DEF ProofDocuments

(* The same documents as those of a run in order, but for the report. *)
DueFour(src, proofs) ==
  /\ proofs.parity = Due(src).parity /\ proofs.exact = Due(src).exact
  /\ proofs.distribution = Due(src).distribution

(* The authority is in order, nothing has drifted, and the documents are     *)
(* those whose fingerprints it lists.                                        *)
LEMMA CompatibilityInOrder ==
  ASSUME NEW src, IsSource(src), ~Defective(src), NEW proofs, DueFour(src, proofs),
         NEW old, old = Absent \/ EvolutionDiagnostics(src.authority, old) = {}
  PROVE  /\ ProofDocuments(src, proofs) = ProofDocuments(src, DueProofs(src))
         /\ CompatibilityDiagnostics(src.authority, old, src.semantics, ProofDocuments(src, proofs)) = {}
<1> DEFINE authority == src.authority
           read == ProofDocuments(src, proofs)
<1>1. read = ProofDocuments(src, DueProofs(src))
  BY DueIs, SameDocuments DEF DueFour
<1>2. authority # Absent /\ AuthorityDiagnostics(authority) = {}
  BY SourcesInOrder DEF SourcesAreValid
<1>3. ASSUME NEW p \in DOMAIN authority.proofs
      PROVE  ProofIssues(authority.proofs[p], read[p]) = {}
  <2>1. read[p] # Absent
    BY <1>1, <1>2 DEF IsSource, NeverAbsent
  <2>2. authority.proofs[p].fingerprint = read[p]
    BY <1>1, SourcesInOrder
  <2> HIDE DEF read, authority
  <2> QED BY <2>1, <2>2 DEF ProofIssues, Unless
<1>4. ASSUME NEW c \in DOMAIN authority.components
      PROVE  DriftIssues(authority.components[c], src.semantics[c]) = {}
  <2>1. src.semantics[c] = LastOf(authority.components[c].releases).semantics
    BY SourcesInOrder DEF Drifts
  <2>2. src.semantics[c] # Absent
    BY <1>2, <2>1 DEF IsSource, NeverAbsent
  <2> QED BY <2>1, <2>2 DEF DriftIssues
<1> DEFINE proofIssues == UNION {{"authority"} \X ProofIssues(authority.proofs[p], read[p]) :
                                   p \in DOMAIN authority.proofs}
           drifts == UNION {{c} \X DriftIssues(authority.components[c], src.semantics[c]) :
                              c \in DOMAIN authority.components}
<1> HIDE DEF read, authority
<1>5. proofIssues = {}
  BY <1>3
<1>6. drifts = {}
  BY <1>4
<1>7. CompatibilityDiagnostics(authority, old, src.semantics, read) = {}
  BY <1>2, <1>5, <1>6 DEF CompatibilityDiagnostics, authority
<1> QED BY <1>1, <1>7 DEF read, authority

(* An evidence without a diagnostic matches, and it has read those proofs.   *)
LEMMA EvidenceInOrder ==
  ASSUME NEW src, IsSource(src), NEW evidence, evidence = Due(src).compatibility
  PROVE  /\ evidence # Absent /\ evidence.status = "match"
         /\ CompatibilityStatuses(evidence) = {"match"}
         /\ \A proofs : DueFour(src, proofs) => ReadProofs(evidence, ProofDocuments(src, proofs))
<1> DEFINE read == ProofDocuments(src, DueProofs(src))
<1>1. evidence = CompatibilityEvidence(src.authority, src.semantics, read, {})
  BY DueIs
<1> HIDE DEF read
<1>2. evidence.proofs = read
  BY <1>1 DEF CompatibilityEvidence
<1>3. evidence.status = "match"
  BY <1>1 DEF CompatibilityEvidence, Codes
<1>4. \A proofs : DueFour(src, proofs) => ProofDocuments(src, proofs) = read
  BY DueIs, SameDocuments DEF DueFour, read
<1> QED BY <1>2, <1>3, <1>4, DueIsThere DEF Document, ReadProofs, CompatibilityStatuses

(* A report reads four of the documents only. *)
LEMMA SameReport ==
  ASSUME NEW src, NEW p, NEW q,
         p.parity = q.parity, p.exact = q.exact, p.distribution = q.distribution,
         p.compatibility = q.compatibility
  PROVE  /\ ConsolidatedReport(src, p) = ConsolidatedReport(src, q)
         /\ Crashes(src, p) <=> Crashes(src, q)
<1>1. Loaded(src, p) = Loaded(src, q)
  BY DEF Loaded
<1>2. \A loaded : CrossProofs(src, p, loaded) = CrossProofs(src, q, loaded)
  BY Zenon DEF CrossProofs
<1>3. Validated(src, p) = Validated(src, q)
  BY <1>1, <1>2, Zenon DEF Validated
<1>4. \A validated : Findings(p, validated) = Findings(q, validated)
  BY Zenon DEF Findings
<1>5. \A validated : Levels(p, validated) = Levels(q, validated)
  BY Zenon DEF Levels
<1>6. ReportSources(src, p) = ReportSources(src, q)
  BY Zenon DEF ReportSources
<1>7. ConsolidatedReport(src, p) = ConsolidatedReport(src, q)
  BY <1>3, <1>4, <1>5, <1>6, Zenon DEF ConsolidatedReport
<1>8. Crashes(src, p) <=> Crashes(src, q)
  BY <1>1, Zenon DEF Crashes
<1> QED BY <1>7, <1>8

(* Nothing but matches is a match. *)
LEMMA OnlyMatches ==
  /\ ReportVerdict({"match"}) = "match" /\ "match" \notin GeneratorFailures
<1> DEFINE first(i) == /\ VerdictPriority[i] \in {"match"}
                       /\ \A j \in 1 .. i - 1 : VerdictPriority[j] \notin {"match"}
           chosen == CHOOSE i \in DOMAIN VerdictPriority : first(i)
<1>1. /\ DOMAIN VerdictPriority = 1 .. 10 /\ VerdictPriority[10] = "match"
      /\ VerdictPriority[1] # "match" /\ VerdictPriority[2] # "match" /\ VerdictPriority[3] # "match"
      /\ VerdictPriority[4] # "match" /\ VerdictPriority[5] # "match" /\ VerdictPriority[6] # "match"
      /\ VerdictPriority[7] # "match" /\ VerdictPriority[8] # "match" /\ VerdictPriority[9] # "match"
  BY DEF VerdictPriority
<1>2. \A i \in 1 .. 9 : VerdictPriority[i] # "match"
  <2> SUFFICES ASSUME NEW i \in 1 .. 9 PROVE VerdictPriority[i] # "match"
    OBVIOUS
  <2>1. i = 1 \/ i = 2 \/ i = 3 \/ i = 4 \/ i = 5 \/ i = 6 \/ i = 7 \/ i = 8 \/ i = 9
    OBVIOUS
  <2> QED BY <1>1, <2>1
<1>3. first(10) /\ 10 \in DOMAIN VerdictPriority
  BY <1>1, <1>2
<1>4. first(chosen)
  <2> HIDE DEF first
  <2> QED BY <1>3
<1>5. ReportVerdict({"match"}) = VerdictPriority[chosen]
  BY Zenon DEF ReportVerdict
<1>6. \A i \in 1 .. 5 : VerdictPriority[i] # "match"
  BY <1>2
<1> HIDE DEF chosen
<1> QED BY <1>4, <1>5, <1>6 DEF GeneratorFailures

(* The report of a run in order finds nothing, and says so. *)
LEMMA ReportInOrder ==
  ASSUME NEW src, IsSource(src), ~Defective(src), NEW proofs, DueFour(src, proofs),
         proofs.compatibility = Due(src).compatibility, NEW report, report = Due(src).report
  PROVE  /\ ~Crashes(src, proofs) /\ ConsolidatedReport(src, proofs) = report
         /\ report # Absent /\ report.verdict \notin GeneratorFailures
         /\ ConsolidatedStatuses(report) = {"match"}
<1> DEFINE loaded == Loaded(src, proofs)
           validated == Validated(src, proofs)
           findings == Findings(proofs, validated)
           levels == Levels(proofs, validated)
           verdict == ReportVerdict({levels[l] : l \in DOMAIN levels}
                                      \cup {d[2] : d \in validated \cup findings})
           sources == ReportSources(src, proofs)
<1>1. /\ proofs.parity.status = "match" /\ UsableParity(proofs.parity, src)
      /\ ParityFindings(proofs.parity) = {}
      /\ ParityLevel(proofs.parity) = "match" /\ ProbeLevel(proofs.parity) = "match"
  BY ParityInOrder DEF DueFour
<1>2. /\ proofs.exact.status = "match" /\ UsableReplay(proofs.exact, src) /\ NoFinding(proofs.exact)
      /\ ReplayLevel(proofs.exact) = "match" /\ BatchLevel(proofs.exact) = "match"
  BY ReplayInOrder DEF DueFour
<1>3. /\ proofs.distribution.status = "match" /\ UsableDistribution(proofs.distribution, src)
      /\ NoFinding(proofs.distribution) /\ DistributionLevel(proofs.distribution) = "match"
  BY DistributionInOrder DEF DueFour
<1>4. proofs.compatibility # Absent /\ proofs.compatibility.status = "match"
  BY EvidenceInOrder
<1>5. SoundSources(src) /\ Complete(proofs)
  BY <1>1, <1>2, <1>3, <1>4, SourcesInOrder DEF Complete, UsableParity, UsableReplay, UsableDistribution
<1>6. loaded = {}
  <2>1. \A d : d \in loaded <=>
          \/ proofs.parity.status = "invalid_corpus" /\ d = <<"deterministic_parity", "invalid_evidence">>
          \/ /\ proofs.exact.status \in {"invalid_corpus", "invalid_configuration"}
             /\ d = <<"exact_replay", "invalid_evidence">>
    BY <1>5, LoadedInOrder
  <2> HIDE DEF loaded
  <2> QED BY <1>1, <1>2, <2>1
<1>7. validated = {}
  <2>1. CrossProtocol(src, {}) = {}
    BY <1>5, ProtocolInOrder
  <2>2. CrossDistribution(src, proofs.distribution, {}) = {}
    BY <1>3 DEF CrossDistribution, UsableDistribution, Available
  <2>3. CrossProofs(src, proofs, {}) = {}
    BY <1>1, <1>2, <1>4 DEF CrossProofs, UsableParity, UsableReplay, When, Available
  <2>4. Validated(src, proofs) = {} \cup {} \cup CrossProofs(src, proofs, {} )
                                   \cup CrossDistribution(src, proofs.distribution, {} \cup {})
    BY <1>6, <2>1 DEF Validated
  <2>5. {} \cup {} = {}
    OBVIOUS
  <2> QED BY <2>2, <2>3, <2>4, <2>5
<1> HIDE DEF loaded, validated
<1>8. findings = {}
  <2>1. \A s : Available(validated, s)
    BY <1>7 DEF Available
  <2>2. {d.class : d \in proofs.exact.diagnostics} = {} /\ {d.class : d \in proofs.distribution.diagnostics} = {}
    BY <1>2, <1>3 DEF NoFinding
  <2>3. \A x : {x} \X {} = {}
    OBVIOUS
  <2>4. Findings(proofs, validated) = {"deterministic_parity"} \X {} \cup {"exact_replay"} \X {}
                                        \cup {"distribution_evidence"} \X {}
    BY <1>1, <2>1, <2>2, Zenon DEF Findings
  <2> QED BY <2>3, <2>4
<1>9. {levels[l] : l \in DOMAIN levels} = {"match"}
  <2>1. \A s, level : Level(s, validated, level) = level
    BY <1>7, OwnLevel DEF Available
  <2>2. levels = [parity |-> "match", probes |-> "match", exact |-> "match", batching |-> "match",
                  distribution |-> "match", compatibility |-> "match"]
    BY <1>1, <1>2, <1>3, <2>1 DEF Levels
  <2> HIDE DEF levels
  <2> QED BY <2>2
<1>10. verdict = "match"
  <2>1. {levels[l] : l \in DOMAIN levels} \cup {d[2] : d \in validated \cup findings} = {"match"}
    <3> HIDE DEF levels, findings
    <3> QED BY <1>7, <1>8, <1>9
  <2> HIDE DEF levels, findings
  <2> QED BY <2>1, OnlyMatches
<1>11. ConsolidatedReport(src, proofs) =
         [sources |-> sources, levels |-> levels, diagnostics |-> validated \cup findings,
          verdict |-> verdict]
  <2> HIDE DEF findings, levels, verdict, sources
  <2> QED BY DEF ConsolidatedReport, validated, findings, levels, verdict, sources
<1>12. ConsolidatedReport(src, proofs) = report
  <2> DEFINE four == [parity |-> Due(src).parity, exact |-> Due(src).exact,
                      distribution |-> Due(src).distribution,
                      compatibility |-> Due(src).compatibility, report |-> Absent]
  <2>1. report = ConsolidatedReport(src, four)
    BY DueIs
  <2>2. /\ four.parity = proofs.parity /\ four.exact = proofs.exact
        /\ four.distribution = proofs.distribution /\ four.compatibility = proofs.compatibility
    BY DEF DueFour
  <2> HIDE DEF four
  <2> QED BY <2>1, <2>2, SameReport
<1>13. report.verdict = "match" /\ report.diagnostics = {}
  <2> HIDE DEF findings, levels, verdict, sources
  <2> QED BY <1>7, <1>8, <1>10, <1>11, <1>12
<1>14. ConsolidatedStatuses(report) = {"match"}
  BY <1>13 DEF ConsolidatedStatuses
<1>15. ~Crashes(src, proofs)
  BY <1>3 DEF Crashes
<1>16. report # Absent
  BY DueIsThere DEF Document
<1> QED BY <1>12, <1>13, <1>14, <1>15, <1>16, OnlyMatches

(***************************************************************************)
(* A complete run without a cause to fail.                                 *)
(***************************************************************************)

(* The nodes that are complete before a node of a complete run starts, the   *)
(* node that decides a control, and the place of that command in its script. *)
Before(n) ==
  LET proofs == {"statistical-deterministic-parity", "statistical-exact-replay",
                 "statistical-distributional-parity"}
  IN CASE n = "statistical-authorities" -> {}
       [] n \in proofs -> {"statistical-authorities"}
       [] n = "statistical-compatibility" -> {"statistical-authorities"} \cup proofs
       [] OTHER -> {"statistical-authorities", "statistical-compatibility"} \cup proofs

Decider ==
  [authority_preflight |-> "statistical-authorities", corpus_and_probes |-> "statistical-authorities",
   distribution_protocol |-> "statistical-authorities",
   deterministic_parity |-> "statistical-deterministic-parity",
   exact_replay |-> "statistical-exact-replay", batching_independence |-> "statistical-exact-replay",
   distributional_parity |-> "statistical-distributional-parity",
   statistical_compatibility |-> "statistical-compatibility",
   consolidated_report |-> "statistical-consolidated-report"]

Rank ==
  [authority_preflight |-> 1, corpus_and_probes |-> 2, distribution_protocol |-> 3,
   deterministic_parity |-> 2, exact_replay |-> 2, batching_independence |-> 3,
   distributional_parity |-> 2, statistical_compatibility |-> 2, consolidated_report |-> 2]

LEMMA DeciderIs ==
  /\ Decider["authority_preflight"] = "statistical-authorities" /\ Rank["authority_preflight"] = 1
  /\ Decider["corpus_and_probes"] = "statistical-authorities" /\ Rank["corpus_and_probes"] = 2
  /\ Decider["distribution_protocol"] = "statistical-authorities" /\ Rank["distribution_protocol"] = 3
  /\ Decider["deterministic_parity"] = "statistical-deterministic-parity" /\ Rank["deterministic_parity"] = 2
  /\ Decider["exact_replay"] = "statistical-exact-replay" /\ Rank["exact_replay"] = 2
  /\ Decider["batching_independence"] = "statistical-exact-replay" /\ Rank["batching_independence"] = 3
  /\ Decider["distributional_parity"] = "statistical-distributional-parity" /\ Rank["distributional_parity"] = 2
  /\ Decider["statistical_compatibility"] = "statistical-compatibility" /\ Rank["statistical_compatibility"] = 2
  /\ Decider["consolidated_report"] = "statistical-consolidated-report" /\ Rank["consolidated_report"] = 2
BY DEF Decider, Rank

LEMMA BeforeIs ==
  /\ Before("statistical-authorities") = {}
  /\ Before("statistical-deterministic-parity") = {"statistical-authorities"}
  /\ Before("statistical-exact-replay") = {"statistical-authorities"}
  /\ Before("statistical-distributional-parity") = {"statistical-authorities"}
  /\ Before("statistical-compatibility") =
       {"statistical-authorities", "statistical-deterministic-parity", "statistical-exact-replay",
        "statistical-distributional-parity"}
  /\ Before("statistical-consolidated-report") =
       {"statistical-authorities", "statistical-deterministic-parity", "statistical-exact-replay",
        "statistical-distributional-parity", "statistical-compatibility"}
BY DEF Before

LEMMA NeedsAre ==
  /\ Needs("statistical-authorities") = {}
  /\ Needs("statistical-deterministic-parity") = {"statistical-authorities"}
  /\ Needs("statistical-exact-replay") = {"statistical-authorities"}
  /\ Needs("statistical-distributional-parity") = {"statistical-authorities"}
  /\ Needs("statistical-compatibility") =
       {"statistical-deterministic-parity", "statistical-exact-replay",
        "statistical-distributional-parity"}
  /\ Needs("statistical-consolidated-report") =
       {"statistical-deterministic-parity", "statistical-exact-replay",
        "statistical-distributional-parity", "statistical-compatibility"}
<1> DEFINE proofs == {"statistical-deterministic-parity", "statistical-exact-replay",
                      "statistical-distributional-parity"}
<1>1. \A n \in Node : n \in Plan!GateNode /\ n \notin Plan!BranchNode /\ n # "preflight"
  BY NodesAre DEF Plan!GateNode, Plan!StatisticalNode, Plan!BranchNode
<1>2. "preflight" \notin Node
  BY NodesAre
<1>3. Plan!GateNeeds["statistical-authorities"] = {"preflight"}
  BY <1>1, NodesAre DEF Plan!GateNeeds
<1>4. \A n \in proofs : Plan!GateNeeds[n] = {"statistical-authorities"}
  BY <1>1, NodesAre DEF Plan!GateNeeds
<1>5. Plan!GateNeeds["statistical-compatibility"] = proofs
  BY <1>1, NodesAre DEF Plan!GateNeeds
<1>6. Plan!GateNeeds["statistical-consolidated-report"] = proofs \cup {"statistical-compatibility"}
  BY <1>1, NodesAre DEF Plan!GateNeeds
<1>7. Needs("statistical-authorities") = {}
  BY <1>2, <1>3 DEF Needs
<1>8. \A n \in proofs : Needs(n) = {"statistical-authorities"}
  BY <1>4, NodesAre DEF Needs
<1>9. Needs("statistical-compatibility") = proofs
  BY <1>5, NodesAre DEF Needs
<1>10. Needs("statistical-consolidated-report") = proofs \cup {"statistical-compatibility"}
  BY <1>6, NodesAre DEF Needs
<1> QED BY <1>7, <1>8, <1>9, <1>10

(* What is before a node is what it needs, and what is before that. *)
LEMMA NeedsFirst ==
  \A n \in Node :
    /\ Needs(n) \subseteq Before(n) /\ Before(n) \subseteq Node /\ n \notin Before(n)
    /\ \A m \in Before(n) : m \in Needs(n) \/ \E k \in Needs(n) : m \in Before(k)
BY NeedsAre, BeforeIs, NodesAre

(* Each control is decided once, by the node that writes its subject.        *)
LEMMA DecidedOnce ==
  /\ \A n \in Node : \A i \in 1 .. Len(Commands(n)) : \A c \in Control :
       <<Commands(n)[i], c>> \in Decides => n = Decider[c] /\ i = Rank[c]
  /\ \A c \in Control :
       /\ Decider[c] \in Node /\ Rank[c] \in 1 .. Len(Commands(Decider[c]))
       /\ \A k \in Document : Commands(Decider[c])[Rank[c]] # Generating[k]
       /\ Subject[c] # "sources" =>
            Subject[c] \in Document /\ Decider[c] = Generator[Subject[c]] /\ Rank[c] > 1
<1>1. ASSUME NEW n \in Node, NEW i \in 1 .. Len(Commands(n)), NEW c \in Control,
             <<Commands(n)[i], c>> \in Decides
      PROVE  n = Decider[c] /\ i = Rank[c]
  <2>1. CASE n = "statistical-authorities"
    <3>1. Len(Commands(n)) = 3
      BY <2>1, ScriptOf
    <3>2. i = 1 \/ i = 2 \/ i = 3
      BY <3>1
    <3> QED BY <1>1, <2>1, <3>2, ScriptOf, DeciderIs, DecidesOnly
  <2>2. CASE n = "statistical-deterministic-parity"
    BY <1>1, <2>2, ScriptOf, DeciderIs, DecidesOnly
  <2>3. CASE n = "statistical-exact-replay"
    <3>1. Len(Commands(n)) = 3
      BY <2>3, ScriptOf
    <3>2. i = 1 \/ i = 2 \/ i = 3
      BY <3>1
    <3> QED BY <1>1, <2>3, <3>2, ScriptOf, DeciderIs, DecidesOnly
  <2>4. CASE n = "statistical-distributional-parity"
    BY <1>1, <2>4, ScriptOf, DeciderIs, DecidesOnly, SMTT(60)
  <2>5. CASE n = "statistical-compatibility"
    BY <1>1, <2>5, ScriptOf, DeciderIs, DecidesOnly
  <2>6. CASE n = "statistical-consolidated-report"
    BY <1>1, <2>6, ScriptOf, DeciderIs, DecidesOnly
  <2> QED BY <2>1, <2>2, <2>3, <2>4, <2>5, <2>6, NodesAre
<1>2. ASSUME NEW c \in Control
      PROVE  Decider[c] \in Node /\ Rank[c] \in 1 .. Len(Commands(Decider[c]))
  BY ScriptOf, DeciderIs, NodesAre DEF Control
<1>3. ASSUME NEW c \in Control, NEW k \in Document
      PROVE  Commands(Decider[c])[Rank[c]] # Generating[k]
  BY ScriptOf, DeciderIs, GeneratingIs DEF Control, Document
<1>4. ASSUME NEW c \in Control, Subject[c] # "sources"
      PROVE  Subject[c] \in Document /\ Decider[c] = Generator[Subject[c]] /\ Rank[c] > 1
  BY <1>4, SubjectIs, GeneratorIs, DeciderIs DEF Control, Document
<1> QED BY <1>1, <1>2, <1>3, <1>4

(* What a control requires is decided before it: by a node that its own      *)
(* waits for, or by an earlier command.                                      *)
LEMMA RequiredFirst ==
  \A c \in Control : \A r \in Requirements[c] :
    r \in Control /\ (Decider[r] \in Before(Decider[c]) \/ (Decider[r] = Decider[c] /\ Rank[r] < Rank[c]))
<1> DEFINE sources == {"authority_preflight", "corpus_and_probes"}
           proofs == {"deterministic_parity", "exact_replay", "batching_independence",
                      "distributional_parity"}
<1>1. /\ Requirements["authority_preflight"] = {}
      /\ Requirements["corpus_and_probes"] = {"authority_preflight"}
      /\ Requirements["distribution_protocol"] = sources
      /\ Requirements["deterministic_parity"] = sources
      /\ Requirements["exact_replay"] = sources
      /\ Requirements["batching_independence"] = sources \cup {"exact_replay"}
      /\ Requirements["distributional_parity"] = sources \cup {"distribution_protocol"}
      /\ Requirements["statistical_compatibility"] = sources \cup {"distribution_protocol"} \cup proofs
      /\ Requirements["consolidated_report"] = proofs \cup {"statistical_compatibility"}
  BY DEF Requirements
<1>2. \A c \in sources \cup {"distribution_protocol"} : \A r \in Requirements[c] :
        r \in Control /\ Decider[r] = Decider[c] /\ Rank[r] < Rank[c]
  BY <1>1, DeciderIs DEF Control
<1>3. \A c \in proofs : \A r \in Requirements[c] :
        r \in Control /\ (Decider[r] \in Before(Decider[c]) \/ (Decider[r] = Decider[c] /\ Rank[r] < Rank[c]))
  BY <1>1, DeciderIs, BeforeIs DEF Control
<1>4. \A c \in {"statistical_compatibility", "consolidated_report"} : \A r \in Requirements[c] :
        r \in Control /\ Decider[r] \in Before(Decider[c])
  BY <1>1, DeciderIs, BeforeIs DEF Control
<1> QED BY <1>2, <1>3, <1>4 DEF Control

(* A document is generated by one command, the first one of its node.        *)
LEMMA GeneratedOnce ==
  \A n \in Node : \A i \in 1 .. Len(Commands(n)) : \A k \in Document :
    Commands(n)[i] = Generating[k] => n = Generator[k] /\ i = 1
<1> SUFFICES ASSUME NEW n \in Node, NEW i \in 1 .. Len(Commands(n)), NEW k \in Document,
                    Commands(n)[i] = Generating[k]
             PROVE  n = Generator[k] /\ i = 1
  OBVIOUS
<1>1. CASE n \in {"statistical-authorities", "statistical-exact-replay"}
  <2>1. Len(Commands(n)) = 3
    BY <1>1, ScriptOf
  <2>2. i = 1 \/ i = 2 \/ i = 3
    BY <2>1
  <2> QED BY <1>1, <2>2, ScriptOf, GeneratorIs, GeneratingIs DEF Document
<1>2. CASE n \notin {"statistical-authorities", "statistical-exact-replay"}
  <2>1. Len(Commands(n)) = 2
    BY <1>2, ScriptOf, NodesAre
  <2>2. i = 1 \/ i = 2
    BY <2>1
  <2> QED BY <1>2, <2>2, ScriptOf, NodesAre, GeneratorIs, GeneratingIs DEF Document
<1> QED BY <1>1, <1>2

(* A node of a complete run starts after all those before it are complete.   *)
CopyInv ==
  /\ place = "none" => failed = {}
  /\ place = "copy" => \A n \in Node : progress[n] # 0 => \A m \in Before(n) : Completed(m)

(* A complete run that has no cause to fail has failed nowhere; what it has  *)
(* written and attested so far is what is due for its sources.               *)
Green == place = "copy" /\ ~Disturbed /\ ~Defective(tree)

DueAttestation(src, c) ==
  [snapshot |-> src, artifact |-> IF Subject[c] = "sources" THEN Absent ELSE Due(src)[Subject[c]]]

DueSoFar ==
  /\ failed = {}
  /\ \A k \in Document : progress[Generator[k]] # 0 => documents[k] = Due(tree)[k]
  /\ \A c \in Control : progress[Decider[c]] >= Rank[c] => attested[c] = DueAttestation(tree, c)

GreenInv == Green => DueSoFar

(* A command of a complete run finds every node before its own complete.     *)
LEMMA InTurn ==
  ASSUME IInv, CopyInv, place = "copy", NEW n, CanGoOn(n)
  PROVE  \A m \in Before(n) : Completed(m)
<1>1. n \in Node
  BY Going
<1>2. CASE progress[n] # 0
  BY <1>1, <1>2 DEF CopyInv
<1>3. CASE progress[n] = 0
  <2>1. \A m \in Needs(n) : Completed(m)
    BY <1>3 DEF CanGoOn
  <2>2. \A k \in Needs(n) : k \in Node /\ progress[k] # 0
    <3> SUFFICES ASSUME NEW k \in Needs(n) PROVE k \in Node /\ progress[k] # 0
      OBVIOUS
    <3>1. k \in Node
      BY <1>1, NeedsFirst
    <3>2. progress[k] = Len(Commands(k))
      BY <2>1 DEF Completed
    <3> QED BY <3>1, <3>2, ScriptStarts
  <2> SUFFICES ASSUME NEW m \in Before(n) PROVE Completed(m)
    OBVIOUS
  <2>3. m \in Needs(n) \/ \E k \in Needs(n) : m \in Before(k)
    BY <1>1, NeedsFirst
  <2> QED BY <2>1, <2>2, <2>3 DEF CopyInv
<1> QED BY <1>2, <1>3

(* A command keeps that order. *)
LEMMA CopyAdvances ==
  ASSUME IInv, CopyInv, NEW n, CanGoOn(n), Succeeds(n) \/ Fails(n), place' = place
  PROVE  CopyInv'
<1>1. n \in Node /\ place # "none" /\ ~Completed(n)
  BY Going DEF CanGoOn
<1>2. \A m \in Node : m # n => progress'[m] = progress[m]
  BY Progresses
<1> SUFFICES ASSUME place = "copy", NEW m \in Node, progress'[m] # 0, NEW k \in Before(m)
             PROVE  Completed(k)'
  BY <1>1 DEF CopyInv
<1>3. k \in Node /\ m # k
  BY NeedsFirst
<1>4. Completed(k)
  <2>1. CASE m = n
    BY <2>1, InTurn
  <2>2. CASE m # n
    BY <1>2, <2>2 DEF CopyInv
  <2> QED BY <2>1, <2>2
<1>5. k # n
  BY <1>1, <1>4
<1> QED BY <1>2, <1>3, <1>4, <1>5 DEF Completed

(* What was a cause to fail remains one until the run ends. *)
LEMMA GreenBefore ==
  ASSUME IInv, NEW n, CanGoOn(n), Succeeds(n) \/ Fails(n), UNCHANGED <<place, tree>>,
         down \subseteq down', accepted'.compatibility = accepted.compatibility \/ ~Compared, Green'
  PROVE  Green
<1>1. n \in Node /\ progress[n] \in Nat
  BY Going
<1>2. \A m \in Node : progress[m] # 0 => progress'[m] # 0
  <2>1. CASE Fails(n)
    BY <2>1 DEF Fails
  <2>2. CASE Succeeds(n)
    <3>1. progress' = [progress EXCEPT ![n] = @ + 1] /\ DOMAIN progress = Node
      BY <2>2 DEF Succeeds, IInv, ShapeInv
    <3>2. progress'[n] # 0
      BY <1>1, <3>1
    <3> QED BY <3>1, <3>2
  <2> QED BY <2>1, <2>2
<1>3. failed \subseteq failed'
  BY DEF Succeeds, Fails
<1>4. "statistical-compatibility" \in Node
  BY NodesAre
<1>5. Compared => Compared'
  BY <1>2, <1>3, <1>4 DEF Compared
<1>6. place = "copy" /\ ~Defective(tree)
  BY DEF Green
<1>7. ~Disturbed
  BY <1>5 DEF Green, Disturbed
<1> QED BY <1>6, <1>7 DEF Green

(* The documents that a command finds written in such a run. *)
LEMMA DueBefore ==
  ASSUME IInv, CopyInv, GreenInv, Green, NEW n, CanGoOn(n)
  PROVE  /\ \A k \in Document :
              Generator[k] \in Before(n) \/ (Generator[k] = n /\ progress[n] # 0)
                => documents[k] = Due(tree)[k]
         /\ \A r \in Control :
              Decider[r] \in Before(n) \/ (Decider[r] = n /\ Rank[r] <= progress[n])
                => progress[Decider[r]] >= Rank[r]
<1>1. \A m \in Before(n) : m \in Node /\ progress[m] = Len(Commands(m)) /\ progress[m] # 0
  <2>1. n \in Node
    BY Going
  <2> SUFFICES ASSUME NEW m \in Before(n)
               PROVE  m \in Node /\ progress[m] = Len(Commands(m)) /\ progress[m] # 0
    OBVIOUS
  <2>2. m \in Node
    BY <2>1, NeedsFirst
  <2>3. progress[m] = Len(Commands(m))
    BY InTurn DEF Green, Completed
  <2> QED BY <2>2, <2>3, ScriptStarts
<1>2. ASSUME NEW k \in Document, Generator[k] \in Before(n) \/ (Generator[k] = n /\ progress[n] # 0)
      PROVE  documents[k] = Due(tree)[k]
  BY <1>1, <1>2 DEF GreenInv, DueSoFar
<1>3. ASSUME NEW r \in Control,
             Decider[r] \in Before(n) \/ (Decider[r] = n /\ Rank[r] <= progress[n])
      PROVE  progress[Decider[r]] >= Rank[r]
  <2>1. CASE Decider[r] \in Before(n)
    <3>1. progress[Decider[r]] = Len(Commands(Decider[r]))
      BY <1>1, <2>1
    <3>2. Rank[r] \in 1 .. Len(Commands(Decider[r])) /\ Len(Commands(Decider[r])) \in Nat
      BY DecidedOnce, ScriptStarts
    <3> QED BY <3>1, <3>2
  <2>2. CASE Decider[r] = n /\ Rank[r] <= progress[n]
    <3>1. progress[n] \in Nat
      BY Going
    <3>2. Rank[r] \in Nat
      BY DeciderIs DEF Control
    <3> QED BY <2>2, <3>1, <3>2
  <2> QED BY <1>3, <2>1, <2>2
<1> QED BY <1>2, <1>3

(* A document that is due is written: its node goes on as it should.         *)
LEMMA DueIsWritten ==
  ASSUME IInv, GreenInv, Green, Green', NEW n, NEW k \in Document, Generates(n, Generating[k]),
         Write(n, k, Due(tree)[k], TRUE)
  PROVE  GreenInv'
<1> USE DEF Generates
<1>1. /\ CanGoOn(n) /\ n \in Node /\ progress[n] \in Nat
      /\ progress[n] + 1 \in 1 .. Len(Commands(n)) /\ UNCHANGED <<tree, attested>>
  BY Going
<1>2. /\ progress' = [progress EXCEPT ![n] = @ + 1] /\ failed' = failed
      /\ documents' = [documents EXCEPT ![k] = Due(tree)[k]]
  BY DEF Write, Succeeds
<1>3. DOMAIN progress = Node /\ DOMAIN documents = Document
  BY DEF IInv, ShapeInv
<1>4. DueSoFar
  BY DEF GreenInv
<1>5. n = Generator[k] /\ progress[n] = 0
  <2>1. Commands(n)[progress[n] + 1] = Generating[k]
    BY DEF Command
  <2> QED BY <1>1, <2>1, GeneratedOnce
<1>6. ASSUME NEW j \in Document, progress'[Generator[j]] # 0
      PROVE  documents'[j] = Due(tree)[j]
  <2>1. CASE j = k
    BY <1>2, <1>3, <2>1
  <2>2. CASE j # k
    <3>1. Generator[j] \in Node /\ Generator[j] # n
      BY <1>5, <2>2, ScriptStarts
    <3> QED BY <1>2, <1>3, <1>4, <1>6, <2>2, <3>1 DEF DueSoFar
  <2> QED BY <2>1, <2>2
<1>7. ASSUME NEW c \in Control, progress'[Decider[c]] >= Rank[c]
      PROVE  attested'[c] = DueAttestation(tree, c)
  <2>1. Decider[c] \in Node /\ Rank[c] \in Nat /\ Rank[c] >= 1
    BY DeciderIs, NodesAre DEF Control
  <2>2. progress[Decider[c]] >= Rank[c]
    <3>1. CASE Decider[c] = n
      <4>1. progress'[n] = 1
        BY <1>1, <1>2, <1>3, <1>5
      <4>2. Rank[c] = 1
        BY <1>7, <2>1, <3>1, <4>1
      <4>3. Commands(n)[1] = Generating[k]
        BY <1>1, <1>5 DEF Command
      <4> QED BY <3>1, <4>2, <4>3, DecidedOnce
    <3>2. CASE Decider[c] # n
      BY <1>2, <1>3, <1>7, <2>1, <3>2
    <3> QED BY <3>1, <3>2
  <2> QED BY <1>1, <1>4, <2>2 DEF DueSoFar
<1>8. failed' = {}
  BY <1>2, <1>4 DEF DueSoFar
<1>9. DueSoFar'
  <2>1. tree' = tree
    BY <1>1
  <2>2. \A j \in Document : progress'[Generator[j]] # 0 => documents'[j] = Due(tree')[j]
    BY <1>6, <2>1
  <2>3. \A c \in Control : progress'[Decider[c]] >= Rank[c] => attested'[c] = DueAttestation(tree', c)
    BY <1>7, <2>1
  <2> QED BY <1>8, <2>2, <2>3 DEF DueSoFar
<1> QED BY <1>9 DEF GreenInv

(* The three proofs: no bridge has failed, so each of them is the one due.   *)
LEMMA ProofsAreDue ==
  ASSUME IInv, GreenInv, NEW n, NEW broken,
         GenerateParity(n, broken) \/ GenerateExactReplay(n, broken) \/ GenerateDistribution(n, broken)
  PROVE  GreenInv'
<1> SUFFICES ASSUME Green' PROVE GreenInv'
  BY DEF GreenInv
<1>1. /\ CanGoOn(n) /\ UNCHANGED <<place, tree, accepted>> /\ down' = down \cup broken
      /\ \E k \in {"parity", "exact", "distribution"} : Generates(n, Generating[k])
  BY GeneratingIs DEF GenerateParity, GenerateExactReplay, GenerateDistribution, Break, Generates
<1>2. Succeeds(n) \/ Fails(n)
  BY DEF GenerateParity, GenerateExactReplay, GenerateDistribution, Write
<1>3. Green
  BY <1>1, <1>2, GreenBefore
<1>4. broken = {}
  BY <1>1 DEF Green, Disturbed
<1>5. IsSource(tree) /\ ~Defective(tree)
  BY <1>3 DEF Green, IInv, SourcesInv
<1>6. /\ Due(tree).parity = ParityReport(tree, {}) /\ Due(tree).exact = ExactReplay(tree, {})
      /\ Due(tree).distribution = DistributionEvidence(tree, {})
  BY DueIs
<1>7. CASE GenerateParity(n, broken)
  <2>1. Write(n, "parity", Due(tree).parity, ~EvidenceFails(Due(tree).parity))
    BY <1>4, <1>6, <1>7 DEF GenerateParity
  <2>2. ~EvidenceFails(Due(tree).parity)
    <3>1. Due(tree).parity.status = "match"
      BY <1>5, ParityInOrder
    <3> QED BY <3>1 DEF EvidenceFails
  <2>3. Generates(n, Generating["parity"])
    BY <1>7, GeneratingIs DEF GenerateParity
  <2>4. Write(n, "parity", Due(tree)["parity"], TRUE)
    BY <2>1, <2>2 DEF Write
  <2> QED BY <1>3, <2>3, <2>4, DueIsWritten DEF Document
<1>8. CASE GenerateExactReplay(n, broken)
  <2>1. Write(n, "exact", Due(tree).exact, ~EvidenceFails(Due(tree).exact))
    BY <1>4, <1>6, <1>8 DEF GenerateExactReplay
  <2>2. ~EvidenceFails(Due(tree).exact)
    <3>1. Due(tree).exact.status = "match"
      BY <1>5, ReplayInOrder
    <3> QED BY <3>1 DEF EvidenceFails
  <2>3. Generates(n, Generating["exact"])
    BY <1>8, GeneratingIs DEF GenerateExactReplay
  <2>4. Write(n, "exact", Due(tree)["exact"], TRUE)
    BY <2>1, <2>2 DEF Write
  <2> QED BY <1>3, <2>3, <2>4, DueIsWritten DEF Document
<1>9. CASE GenerateDistribution(n, broken)
  <2>1. Write(n, "distribution", Due(tree).distribution, ~EvidenceFails(Due(tree).distribution))
    BY <1>4, <1>6, <1>9 DEF GenerateDistribution
  <2>2. ~EvidenceFails(Due(tree).distribution)
    <3>1. Due(tree).distribution.status = "match"
      BY <1>5, DistributionInOrder
    <3> QED BY <3>1 DEF EvidenceFails
  <2>3. Generates(n, Generating["distribution"])
    BY <1>9, GeneratingIs DEF GenerateDistribution
  <2>4. Write(n, "distribution", Due(tree)["distribution"], TRUE)
    BY <2>1, <2>2 DEF Write
  <2> QED BY <1>3, <2>3, <2>4, DueIsWritten DEF Document
<1> QED BY <1>7, <1>8, <1>9

(* The three proofs that a later node finds. *)
LEMMA FourAreDue ==
  ASSUME IInv, CopyInv, GreenInv, Green, NEW n, CanGoOn(n),
         n \in {"statistical-compatibility", "statistical-consolidated-report"}
  PROVE  /\ DueFour(tree, documents)
         /\ n = "statistical-consolidated-report" =>
              documents["compatibility"] = Due(tree)["compatibility"]
<1>1. \A k \in {"parity", "exact", "distribution"} : k \in Document /\ Generator[k] \in Before(n)
  BY BeforeIs, GeneratorIs DEF Document
<1>2. DueFour(tree, documents)
  BY <1>1, DueBefore DEF DueFour
<1>3. n = "statistical-consolidated-report" =>
        "compatibility" \in Document /\ Generator["compatibility"] \in Before(n)
  BY BeforeIs, GeneratorIs DEF Document
<1> QED BY <1>2, <1>3, DueBefore

(* The evidence of compatibility: the releases extend the accepted ones, the *)
(* proofs are those of the authority, and there is nothing to report.        *)
LEMMA EvidenceIsDue ==
  ASSUME IInv, CopyInv, GreenInv, NEW n, GenerateCompatibility(n)
  PROVE  GreenInv'
<1> SUFFICES ASSUME Green' PROVE GreenInv'
  BY DEF GreenInv
<1>1. /\ CanGoOn(n) /\ UNCHANGED <<place, tree, down>> /\ Generates(n, Generating["compatibility"])
      /\ Command(n) = Generating["compatibility"] /\ n \notin failed
  BY GeneratingIs DEF GenerateCompatibility, Generates, CanGoOn
<1>2. Succeeds(n) \/ Fails(n)
  BY DEF GenerateCompatibility, Write, WriteNothing
<1>3. /\ n \in Node /\ progress[n] \in Nat /\ progress[n] + 1 \in 1 .. Len(Commands(n))
      /\ DOMAIN progress = Node /\ DOMAIN accepted = {"compatibility", "report"}
  BY <1>1, Going DEF IInv, ShapeInv
<1>4. n = "statistical-compatibility" /\ progress[n] = 0
  <2>1. Commands(n)[progress[n] + 1] = Generating["compatibility"]
    BY <1>1 DEF Command
  <2>2. n = Generator["compatibility"] /\ progress[n] + 1 = 1
    BY <1>3, <2>1, GeneratedOnce DEF Document
  <2> QED BY <1>3, <2>2, GeneratorIs
<1>5. ~Compared
  BY <1>1, <1>4 DEF Compared
<1>6. Green
  BY <1>1, <1>2, <1>5, GreenBefore
<1>7. IsSource(tree) /\ ~Defective(tree) /\ tree.authority # Absent
  BY <1>6, SourcesInOrder DEF Green, IInv, SourcesInv
<1>8. PICK read, diagnostics, text :
        /\ read = ProofDocuments(tree, documents)
        /\ diagnostics = CompatibilityDiagnostics(tree.authority, head.authority, tree.semantics, read)
        /\ text = CompatibilityEvidence(tree.authority, tree.semantics, read, diagnostics)
        /\ Write(n, "compatibility", text, diagnostics = {})
        /\ accepted' = [accepted EXCEPT !.compatibility = head.authority]
  BY <1>7 DEF GenerateCompatibility
<1>9. head.authority = Absent \/ EvolutionDiagnostics(tree.authority, head.authority) = {}
  <2>1. accepted'.compatibility = head.authority
    BY <1>3, <1>8
  <2>2. Compared'
    <3>1. CASE Succeeds(n)
      <4>1. progress'[n] = 1
        BY <1>3, <1>4, <3>1 DEF Succeeds
      <4> QED BY <1>4, <4>1 DEF Compared
    <3>2. CASE Fails(n)
      BY <1>4, <3>2 DEF Fails, Compared
    <3> QED BY <1>2, <3>1, <3>2
  <2> QED BY <1>1, <2>1, <2>2 DEF Green, Disturbed
<1>10. DueFour(tree, documents)
  BY <1>1, <1>4, <1>6, FourAreDue
<1>11. read = ProofDocuments(tree, DueProofs(tree)) /\ diagnostics = {}
  BY <1>7, <1>8, <1>9, <1>10, CompatibilityInOrder
<1>12. text = Due(tree).compatibility
  BY <1>8, <1>11, DueIs
<1>13. Write(n, "compatibility", Due(tree)["compatibility"], TRUE)
  BY <1>8, <1>11, <1>12 DEF Write
<1> QED BY <1>1, <1>6, <1>13, DueIsWritten DEF Document

(* The report of those four documents. *)
LEMMA ReportIsDue ==
  ASSUME IInv, CopyInv, GreenInv, NEW n, GenerateReport(n)
  PROVE  GreenInv'
<1> SUFFICES ASSUME Green' PROVE GreenInv'
  BY DEF GreenInv
<1>1. /\ CanGoOn(n) /\ UNCHANGED <<place, tree, down>> /\ Generates(n, Generating["report"])
      /\ Command(n) = Generating["report"]
  BY GeneratingIs DEF GenerateReport, Generates
<1>2. (Succeeds(n) \/ Fails(n)) /\ accepted'.compatibility = accepted.compatibility
  <2>1. Succeeds(n) \/ Fails(n)
    BY DEF GenerateReport, Write, WriteNothing
  <2>2. accepted' = accepted \/ accepted' = [accepted EXCEPT !.report = accepted.compatibility]
    BY DEF GenerateReport, WriteNothing
  <2> QED BY <2>1, <2>2 DEF IInv, ShapeInv
<1>3. Green
  BY <1>1, <1>2, GreenBefore
<1>4. n = "statistical-consolidated-report"
  <2>1. Commands(n)[progress[n] + 1] = Generating["report"]
    BY <1>1 DEF Command
  <2>2. n = Generator["report"]
    BY <1>1, <2>1, Going, GeneratedOnce DEF Document
  <2> QED BY <2>2, GeneratorIs
<1>5. DueFour(tree, documents) /\ documents.compatibility = Due(tree).compatibility
  BY <1>1, <1>3, <1>4, FourAreDue
<1>6. /\ ~Crashes(tree, documents) /\ ConsolidatedReport(tree, documents) = Due(tree).report
      /\ Due(tree).report.verdict \notin GeneratorFailures
  BY <1>3, <1>5, ReportInOrder DEF Green, IInv, SourcesInv
<1>7. Write(n, "report", Due(tree)["report"], TRUE)
  <2>1. PICK text : /\ text = ConsolidatedReport(tree, documents)
                    /\ Write(n, "report", text, text.verdict \notin GeneratorFailures)
    BY <1>6 DEF GenerateReport
  <2> QED BY <1>6, <2>1 DEF Write
<1> QED BY <1>1, <1>3, <1>7, DueIsWritten DEF Document

(* The controls that a control requires were decided before it: they have    *)
(* been attested, and what they were attested for is still what is due.      *)
LEMMA RequiredInOrder ==
  ASSUME IInv, CopyInv, GreenInv, Green, NEW n, NEW c \in Control, CanGoOn(n),
         <<Command(n), c>> \in Decides
  PROVE  Required(c)
<1> SUFFICES ASSUME NEW r \in Requirements[c] PROVE Verifies(r)
  BY DEF Required
<1>1. /\ n \in Node /\ progress[n] \in Nat /\ progress[n] + 1 \in 1 .. Len(Commands(n))
  BY Going
<1>2. n = Decider[c] /\ progress[n] + 1 = Rank[c]
  <2>1. <<Commands(n)[progress[n] + 1], c>> \in Decides
    BY DEF Command
  <2> QED BY <1>1, <2>1, DecidedOnce
<1>3. r \in Control /\ (Decider[r] \in Before(n) \/ (Decider[r] = n /\ Rank[r] < Rank[c]))
  BY <1>2, RequiredFirst
<1>4. Rank[r] \in Nat /\ Rank[r] >= 1
  BY <1>3, DeciderIs DEF Control
<1>5. progress[Decider[r]] >= Rank[r]
  <2>1. CASE Decider[r] \in Before(n)
    BY <1>3, <2>1, DueBefore
  <2>2. CASE Decider[r] = n /\ Rank[r] < Rank[c]
    <3>1. Rank[r] <= progress[n]
      BY <1>1, <1>2, <1>4, <2>2
    <3> QED BY <1>3, <2>2, <3>1, DueBefore
  <2> QED BY <1>3, <2>1, <2>2
<1>6. DueSoFar /\ IsSource(tree) /\ tree.policy
  BY SourcesInOrder DEF GreenInv, Green, IInv, SourcesInv
<1>7. attested[r] = DueAttestation(tree, r)
  BY <1>3, <1>5, <1>6 DEF DueSoFar
<1>8. Attested(r) = IF Subject[r] = "sources" THEN Absent ELSE Due(tree)[Subject[r]]
  <2>1. ASSUME Subject[r] # "sources"
        PROVE  documents[Subject[r]] = Due(tree)[Subject[r]]
    <3>1. Subject[r] \in Document /\ Decider[r] = Generator[Subject[r]]
      BY <1>3, <2>1, DecidedOnce
    <3>2. Decider[r] \in Node /\ progress[Decider[r]] \in Nat
      <4>1. Decider[r] \in Node
        BY <1>3, DecidedOnce
      <4>2. progress[Decider[r]] \in 0 .. Len(Commands(Decider[r])) /\ Len(Commands(Decider[r])) \in Nat
        BY <4>1, ScriptStarts DEF IInv, ShapeInv
      <4> QED BY <4>1, <4>2
    <3>3. progress[Decider[r]] # 0
      BY <1>4, <1>5, <3>2
    <3> QED BY <1>6, <3>1, <3>3 DEF DueSoFar
  <2> QED BY <2>1 DEF Attested
<1>9. attested[r] # Absent
  <2>1. NeverAbsent(tree)
    BY <1>6 DEF IsSource
  <2>2. CASE Subject[r] = "sources"
    BY <1>7, <2>1, <2>2 DEF NeverAbsent, DueAttestation
  <2>3. CASE Subject[r] # "sources"
    <3>1. Subject[r] \in Document
      BY <1>3, <2>3, DecidedOnce
    <3> QED BY <1>7, <2>1, <2>3, <3>1 DEF NeverAbsent, DueAttestation
  <2> QED BY <2>2, <2>3
<1>10. attested[r] = [snapshot |-> Snapshot(tree), artifact |-> Attested(r)]
  BY <1>7, <1>8, Zenon DEF DueAttestation, Snapshot
<1> QED BY <1>6, <1>9, <1>10 DEF Verifies

(* A control passes when what it requires and what it reads are due.         *)
LEMMA ControlPasses ==
  ASSUME IInv, CopyInv, GreenInv, Green, NEW n, NEW c \in Control, CanGoOn(n),
         <<Command(n), c>> \in Decides
  PROVE  Passes(c)
<1>1. /\ n \in Node /\ progress[n] \in Nat /\ progress[n] + 1 \in 1 .. Len(Commands(n))
  BY Going
<1>2. n = Decider[c] /\ progress[n] + 1 = Rank[c]
  <2>1. <<Commands(n)[progress[n] + 1], c>> \in Decides
    BY DEF Command
  <2> QED BY <1>1, <2>1, DecidedOnce
<1>3. IsSource(tree) /\ ~Defective(tree) /\ tree.policy
  BY SourcesInOrder DEF Green, IInv, SourcesInv
<1>4. Subject[c] # "sources" => documents[Subject[c]] = Due(tree)[Subject[c]]
  <2> SUFFICES ASSUME Subject[c] # "sources"
               PROVE  documents[Subject[c]] = Due(tree)[Subject[c]]
    OBVIOUS
  <2>1. Subject[c] \in Document /\ Generator[Subject[c]] = n /\ Rank[c] > 1
    BY <1>2, DecidedOnce
  <2>2. progress[n] # 0
    BY <1>1, <1>2, <2>1
  <2> QED BY <2>1, <2>2, DueBefore
<1>5. SourcesAreValid(c, tree) \/ ProofMatches(c, tree, documents)
        \/ (c = "consolidated_report" /\ ReportMatches(tree, documents))
  <2>1. CASE c \in {"authority_preflight", "corpus_and_probes", "distribution_protocol"}
    BY <1>3, <2>1, SourcesInOrder
  <2>2. CASE c = "deterministic_parity"
    <3>1. documents["parity"] = Due(tree).parity
      BY <1>4, <2>2, SubjectIs
    <3>2. UsableParity(documents["parity"], tree) /\ ParityStatuses(documents["parity"]) = {"match"}
      BY <1>3, <3>1, ParityInOrder
    <3> QED BY <2>2, <3>2 DEF ProofMatches
  <2>3. CASE c \in {"exact_replay", "batching_independence"}
    <3>1. documents["exact"] = Due(tree).exact
      BY <1>4, <2>3, SubjectIs
    <3>2. /\ UsableReplay(documents["exact"], tree) /\ ReplayStatuses(documents["exact"]) = {"match"}
          /\ BatchingStatuses(documents["exact"]) = {"match"}
      BY <1>3, <3>1, ReplayInOrder
    <3> QED BY <2>3, <3>2 DEF ProofMatches
  <2>4. CASE c = "distributional_parity"
    <3>1. documents["distribution"] = Due(tree).distribution
      BY <1>4, <2>4, SubjectIs
    <3>2. /\ UsableDistribution(documents["distribution"], tree)
          /\ DistributionStatuses(documents["distribution"]) = {"match"}
      BY <1>3, <3>1, DistributionInOrder
    <3> QED BY <2>4, <3>2 DEF ProofMatches
  <2>5. CASE c = "statistical_compatibility"
    <3>1. documents["compatibility"] = Due(tree).compatibility
      BY <1>4, <2>5, SubjectIs
    <3>2. n = "statistical-compatibility"
      BY <1>2, <2>5, DeciderIs
    <3>3. DueFour(tree, documents)
      BY <3>2, FourAreDue
    <3>4. /\ documents["compatibility"] # Absent
          /\ CompatibilityStatuses(documents["compatibility"]) = {"match"}
          /\ ReadProofs(documents["compatibility"], ProofDocuments(tree, documents))
      BY <1>3, <3>1, <3>3, EvidenceInOrder
    <3> QED BY <2>5, <3>4 DEF ProofMatches
  <2>6. CASE c = "consolidated_report"
    <3>1. documents["report"] = Due(tree).report
      BY <1>4, <2>6, SubjectIs
    <3>2. n = "statistical-consolidated-report"
      BY <1>2, <2>6, DeciderIs
    <3>3. DueFour(tree, documents) /\ documents["compatibility"] = Due(tree)["compatibility"]
      BY <3>2, FourAreDue
    <3>4. /\ ~Crashes(tree, documents) /\ ConsolidatedReport(tree, documents) = documents["report"]
          /\ documents["report"] # Absent /\ ConsolidatedStatuses(documents["report"]) = {"match"}
      BY <1>3, <3>1, <3>3, ReportInOrder
    <3>5. ReportMatches(tree, documents)
      BY <3>4 DEF ReportMatches
    <3> QED BY <2>6, <3>5
  <2> QED BY <2>1, <2>2, <2>3, <2>4, <2>5, <2>6 DEF Control
<1>6. Required(c)
  BY RequiredInOrder
<1> QED BY <1>3, <1>5, <1>6 DEF Passes

(* No two controls are decided by the same command. *)
LEMMA RankedOnce ==
  \A c, d \in Control : Decider[c] = Decider[d] /\ Rank[c] = Rank[d] => c = d
BY DeciderIs DEF Control

(* It then attests what is due. *)
LEMMA AttestationIsDue ==
  ASSUME IInv, CopyInv, GreenInv, NEW n, NEW c \in Control, Decide(n, c)
  PROVE  GreenInv'
<1> SUFFICES ASSUME Green' PROVE GreenInv'
  BY DEF GreenInv
<1>1. /\ CanGoOn(n) /\ <<Command(n), c>> \in Decides
      /\ UNCHANGED <<place, tree, down, documents, accepted>>
      /\ IF Passes(c) THEN Succeeds(n) /\ Attest(c) ELSE Fails(n) /\ UNCHANGED attested
  BY DEF Decide
<1>2. Green
  BY <1>1, GreenBefore
<1>3. Passes(c)
  BY <1>1, <1>2, ControlPasses
<1>4. /\ progress' = [progress EXCEPT ![n] = @ + 1] /\ failed' = failed
      /\ attested' = [attested EXCEPT ![c] = [snapshot |-> Snapshot(tree), artifact |-> Attested(c)]]
  BY <1>1, <1>3 DEF Succeeds, Attest
<1>5. /\ n \in Node /\ progress[n] \in Nat /\ progress[n] + 1 \in 1 .. Len(Commands(n))
      /\ DOMAIN progress = Node /\ DOMAIN attested = Control
  BY <1>1, Going DEF IInv, ShapeInv
<1>6. \A d \in Control : <<Commands(n)[progress[n] + 1], d>> \in Decides =>
        n = Decider[d] /\ progress[n] + 1 = Rank[d]
  BY <1>5, DecidedOnce
<1>7. n = Decider[c] /\ progress[n] + 1 = Rank[c]
  BY <1>1, <1>6 DEF Command
<1>8. DueSoFar
  BY <1>2 DEF GreenInv
<1>9. ASSUME NEW k \in Document, progress'[Generator[k]] # 0
      PROVE  documents'[k] = Due(tree)[k]
  <2>1. progress[Generator[k]] # 0
    <3>1. CASE Generator[k] = n /\ progress[n] = 0
      <4>1. Command(n) = Generating[k]
        BY <3>1, ScriptStarts DEF Command
      <4> QED BY <1>1, <4>1, ScriptReads
    <3>2. CASE Generator[k] # n
      BY <1>4, <1>5, <1>9, <3>2, ScriptStarts
    <3> QED BY <3>1, <3>2
  <2> QED BY <1>1, <1>8, <2>1 DEF DueSoFar
<1>10. ASSUME NEW d \in Control, progress'[Decider[d]] >= Rank[d]
       PROVE  attested'[d] = DueAttestation(tree, d)
  <2>1. Decider[d] \in Node /\ Rank[d] \in Nat /\ Rank[d] >= 1
    BY DeciderIs, NodesAre DEF Control
  <2>2. CASE d = c
    <3>1. Subject[c] # "sources" => documents[Subject[c]] = Due(tree)[Subject[c]]
      <4> SUFFICES ASSUME Subject[c] # "sources"
                   PROVE  documents[Subject[c]] = Due(tree)[Subject[c]]
        OBVIOUS
      <4>1. Subject[c] \in Document /\ Generator[Subject[c]] = n /\ Rank[c] > 1
        BY <1>7, DecidedOnce
      <4>2. progress[n] # 0
        BY <1>5, <1>7, <4>1
      <4> QED BY <1>8, <4>1, <4>2 DEF DueSoFar
    <3>2. attested'[c] = [snapshot |-> Snapshot(tree), artifact |-> Attested(c)]
      BY <1>4, <1>5
    <3>3. Attested(c) = IF Subject[c] = "sources" THEN Absent ELSE Due(tree)[Subject[c]]
      BY <3>1 DEF Attested
    <3> QED BY <2>2, <3>2, <3>3 DEF DueAttestation, Snapshot
  <2>3. CASE d # c
    <3>1. attested'[d] = attested[d]
      BY <1>4, <1>5, <2>3
    <3>2. progress[Decider[d]] >= Rank[d]
      <4>1. CASE Decider[d] # n
        BY <1>4, <1>5, <1>10, <2>1, <4>1
      <4>2. CASE Decider[d] = n
        <5>1. progress'[n] = progress[n] + 1
          BY <1>4, <1>5
        <5>2. CASE progress[n] + 1 = Rank[d]
          <6>1. Decider[d] = Decider[c] /\ Rank[d] = Rank[c]
            BY <1>7, <4>2, <5>2
          <6> QED BY <2>3, <6>1, RankedOnce
        <5>3. CASE progress[n] + 1 # Rank[d]
          BY <1>5, <1>10, <2>1, <4>2, <5>1, <5>3
        <5> QED BY <5>2, <5>3
      <4> QED BY <4>1, <4>2
    <3> QED BY <1>8, <3>1, <3>2 DEF DueSoFar
  <2> QED BY <2>2, <2>3
<1>11. DueSoFar'
  <2>1. tree' = tree /\ failed' = {}
    BY <1>1, <1>4, <1>8 DEF DueSoFar
  <2>2. \A j \in Document : progress'[Generator[j]] # 0 => documents'[j] = Due(tree')[j]
    BY <1>9, <2>1
  <2>3. \A d \in Control : progress'[Decider[d]] >= Rank[d] => attested'[d] = DueAttestation(tree', d)
    BY <1>10, <2>1
  <2> QED BY <2>1, <2>2, <2>3 DEF DueSoFar
<1> QED BY <1>11 DEF GreenInv

(* One step of any kind. *)
LEMMA SteppingInOrder ==
  ASSUME IInv, CopyInv, [Next]_vars, GreenInv
  PROVE  CopyInv' /\ GreenInv'
<1> USE DEF runVars
<1>1. CASE Edit
  <2>1. /\ UNCHANGED <<place, progress, failed, down, documents, accepted, attested>>
        /\ place = "copy" => tree' = tree
    BY <1>1 DEF Edit
  <2>2. CopyInv'
    BY <2>1 DEF CopyInv, Completed
  <2>3. GreenInv'
    <3> SUFFICES ASSUME Green' PROVE GreenInv'
      BY DEF GreenInv
    <3>1. tree' = tree
      BY <2>1 DEF Green
    <3>2. Green
      BY <2>1, <3>1 DEF Green, Disturbed, Compared
    <3> QED BY <2>1, <3>1, <3>2 DEF GreenInv, DueSoFar
  <2> QED BY <2>2, <2>3
<1>2. CASE Commit \/ Rest \/ UNCHANGED vars
  <2>1. UNCHANGED <<place, progress, failed, down, documents, accepted, attested, tree>>
    BY <1>2 DEF Commit, Rest, vars
  <2>2. CopyInv'
    BY <2>1 DEF CopyInv, Completed
  <2>3. GreenInv'
    BY <2>1 DEF GreenInv, Green, Disturbed, Compared, DueSoFar
  <2> QED BY <2>2, <2>3
<1>3. ASSUME NEW n \in Node, StartNode(n)
      PROVE  CopyInv' /\ GreenInv'
  BY <1>3 DEF StartNode, CopyInv, GreenInv, Green
<1>4. CASE StartComplete
  <2>1. progress' = NotBegun /\ failed' = {} /\ place' = "copy"
    BY <1>4 DEF StartComplete, CopyInv, IInv, ShapeInv
  <2>2. CopyInv'
    BY <2>1 DEF CopyInv, NotBegun
  <2>3. \A k \in Document : progress'[Generator[k]] = 0
    BY <2>1, ScriptStarts DEF NotBegun
  <2>4. \A c \in Control : ~(progress'[Decider[c]] >= Rank[c])
    <3> SUFFICES ASSUME NEW c \in Control PROVE ~(progress'[Decider[c]] >= Rank[c])
      OBVIOUS
    <3>1. Decider[c] \in Node /\ Rank[c] \in Nat /\ Rank[c] >= 1
      BY DeciderIs, NodesAre DEF Control
    <3>2. progress'[Decider[c]] = 0
      BY <2>1, <3>1 DEF NotBegun
    <3> QED BY <3>1, <3>2
  <2> QED BY <2>1, <2>2, <2>3, <2>4 DEF GreenInv, DueSoFar
<1>5. CASE End
  BY <1>5 DEF End, CopyInv, GreenInv, Green
<1>6. CASE RunStep /\ ~End
  <2>1. PICK n : CanGoOn(n) /\ (Succeeds(n) \/ Fails(n)) /\ place' = place
    <3>1. ASSUME NEW n, NEW broken,
                 GenerateParity(n, broken) \/ GenerateExactReplay(n, broken) \/ GenerateDistribution(n, broken)
          PROVE  CanGoOn(n) /\ (Succeeds(n) \/ Fails(n)) /\ place' = place
      BY <3>1 DEF GenerateParity, GenerateExactReplay, GenerateDistribution, Generates, Write
    <3>2. ASSUME NEW n, GenerateCompatibility(n) \/ GenerateReport(n)
          PROVE  CanGoOn(n) /\ (Succeeds(n) \/ Fails(n)) /\ place' = place
      BY <3>2 DEF GenerateCompatibility, GenerateReport, Generates, Write, WriteNothing
    <3>3. ASSUME NEW n, NEW c, Decide(n, c)
          PROVE  CanGoOn(n) /\ (Succeeds(n) \/ Fails(n)) /\ place' = place
      BY <3>3 DEF Decide
    <3> QED BY <1>6, <3>1, <3>2, <3>3 DEF RunStep
  <2>2. CopyInv'
    BY <2>1, CopyAdvances
  <2>3. GreenInv'
    BY <1>6, ProofsAreDue, EvidenceIsDue, ReportIsDue, AttestationIsDue DEF RunStep
  <2> QED BY <2>2, <2>3
<1> QED BY <1>1, <1>2, <1>3, <1>4, <1>5, <1>6 DEF Next

(* A complete run fails only for a defect of its sources, for a release that *)
(* does not extend the accepted ones or for a bridge that failed: no control *)
(* refuses what the generators write from sources in order, in any order of  *)
(* the nodes and of the edits beside them.                                   *)
THEOREM RedNeedsACause == Spec => []RedHasACause
<1>1. Init => CopyInv /\ GreenInv
  BY DEF Init, CopyInv, GreenInv, Green
<1>2. IInv /\ CopyInv /\ GreenInv /\ [Next]_vars => IInv' /\ CopyInv' /\ GreenInv'
  BY Stepping, SteppingInOrder
<1>3. GreenInv => RedHasACause
  BY DEF GreenInv, Green, DueSoFar, RedHasACause
<1> QED BY Initial, <1>1, <1>2, <1>3, PTL DEF Spec
=============================================================================
