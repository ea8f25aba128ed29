------------------------- MODULE StatisticalParity -------------------------
(***************************************************************************)
(* The two exact proofs of the statistical gate: the parity report         *)
(* (Scripts/run_statistical_reference_corpus.py) and the exact replay with *)
(* several batch sizes (Scripts/run_statistical_exact_replay.py). Both run *)
(* the cases of the versioned corpus in the two engines and compare the    *)
(* results, field by field, with the corpus and with each other.           *)
(*                                                                         *)
(* A result is a function from the fields that it carries to their values; *)
(* an engine is, for each batch size, the result of each case, or Raised.  *)
(***************************************************************************)
EXTENDS Integers, FiniteSets

CONSTANTS
  Case,              \* the cases of the corpus
  Probe,             \* the validation probes
  Batch,             \* DEFAULT_BATCH_SIZES of the exact replay
  DefaultBatch,      \* SIMULATION_BATCH_SIZE, used by the parity report
  RequiredCoverage,  \* the traits that the cases must cover between them
  Raised             \* an engine that raises instead of answering

(* REQUIRED_COVERAGE lists six dimensions: a corpus without a case has none. *)
ASSUME CoverageAssumption == RequiredCoverage # {}

(* compare_canonical: presence first, then the value. *)
CompareCanonical(expected, actual) ==
  LET fields == DOMAIN expected \cup DOMAIN actual
      kind(f) == IF f \notin DOMAIN actual THEN "missing_actual"
                 ELSE IF f \notin DOMAIN expected THEN "unexpected_actual"
                 ELSE IF expected[f] # actual[f] THEN "value_mismatch" ELSE "same"
  IN {[path |-> f, kind |-> kind(f)] : f \in {g \in fields : kind(g) # "same"}}

-----------------------------------------------------------------------------
(* run_python_corpus and the corpus bridge: a case that raises is reported. *)
EngineCases(outcome) ==
  [c \in Case |-> IF outcome[c] = Raised THEN [status |-> "engine_error"]
                  ELSE [status |-> "ok", result |-> outcome[c]]]

EngineReport(outcome) ==
  [status |-> IF \E c \in Case : outcome[c] = Raised THEN "engine_error" ELSE "completed",
   cases  |-> EngineCases(outcome)]

(* fatal_engine_report: a bridge that fails answers for no case. *)
FatalReport == [status |-> "engine_error", cases |-> <<>>]

Reported(report, c) ==
  IF c \in DOMAIN report.cases THEN report.cases[c] ELSE [status |-> "engine_error"]

(* The probes: only a refusal by the value objects counts as one; any other  *)
(* exception of an engine, or of its bridge, takes the whole report away.    *)
ProbeReport(accepts, reachable) ==
  IF reachable /\ \A p \in Probe : accepts[p] # Raised
    THEN [status |-> "completed", accepted |-> accepts]
    ELSE [status |-> "engine_error", accepted |-> <<>>]

(* Against the corpus ... *)
Normative(expected, case) ==
  IF case.status # "ok" THEN [status |-> "engine_error", differences |-> {}]
  ELSE LET differences == CompareCanonical(expected, case.result)
       IN [status      |-> IF differences = {} THEN "match" ELSE "normative_divergence",
           differences |-> differences]

(* ... and between the engines, where both have answered. *)
InterEngine(python, typescript, divergence) ==
  IF python.status # "ok" \/ typescript.status # "ok"
    THEN [status |-> "not_compared", differences |-> {}]
  ELSE LET differences == CompareCanonical(python.result, typescript.result)
       IN [status      |-> IF differences = {} THEN "match" ELSE divergence,
           differences |-> differences]

Outcomes(statuses) ==
  LET failures == statuses \ {"match", "not_compared"}
  IN IF failures = {} THEN {"match"} ELSE failures

-----------------------------------------------------------------------------
(* build_validation_alignment. *)
Alignment(expected, python, typescript) ==
  LET agrees(p) == \A report \in {python, typescript} :
                     p \in DOMAIN report.accepted /\ report.accepted[p] = expected[p]
      cases == [p \in Probe |-> IF agrees(p) THEN "match" ELSE "divergence"]
  IN [status |-> IF "engine_error" \in {python.status, typescript.status} THEN "engine_error"
                 ELSE IF \A p \in Probe : cases[p] = "match" THEN "match" ELSE "divergence",
      engines |-> [python |-> python.status, typescript |-> typescript.status],
      expected |-> expected, cases |-> cases]

(* _case_comparison, of every case. *)
CaseComparisons(expected, python, typescript) ==
  [c \in Case |->
    LET py == Normative(expected[c], Reported(python, c))
        ts == Normative(expected[c], Reported(typescript, c))
        both == InterEngine(Reported(python, c), Reported(typescript, c), "engine_divergence")
    IN [expected |-> expected[c], python |-> py, typescript |-> ts, inter |-> both,
        outcomes |-> Outcomes({py.status, ts.status, both.status})]]

Counted(cases, outcome) == Cardinality({c \in Case : outcome \in cases[c].outcomes})

(* _summary: the counters that the status and the readers use. *)
ParitySummary(cases, engines) ==
  [matching  |-> Counted(cases, "match"),
   normative |-> Counted(cases, "normative_divergence"),
   engine    |-> Counted(cases, "engine_divergence"),
   errors    |-> Counted(cases, "engine_error"),
   fatal     |-> Cardinality({e \in DOMAIN engines : engines[e] = "engine_error"})]

(* _parity_status: an error of an engine comes before a divergence. *)
ParityStatus(summary, alignment) ==
  IF summary.fatal + summary.errors > 0 \/ alignment.status = "engine_error"
    THEN "engine_error"
  ELSE IF summary.normative + summary.engine > 0 \/ alignment.status = "divergence"
    THEN "divergence" ELSE "match"

(* run_control of the parity report. down: the bridges that fail this time. *)
ParityReport(src, down) ==
  LET python == EngineReport(src.python.results[DefaultBatch])
      typescript == IF "corpus" \in down THEN FatalReport ELSE EngineReport(src.typescript.results)
      cases == CaseComparisons(src.corpus.expected, python, typescript)
      engines == [python |-> python.status, typescript |-> typescript.status]
      alignment == Alignment(src.probes.expected,
                             ProbeReport(src.python.accepts, TRUE),
                             ProbeReport(src.typescript.accepts, "probes" \notin down))
      summary == ParitySummary(cases, engines)
  IN IF ~src.corpus.valid \/ ~src.probes.valid THEN [status |-> "invalid_corpus"]
     ELSE [status |-> ParityStatus(summary, alignment), cases |-> cases,
           engines |-> engines, alignment |-> alignment, summary |-> summary]

-----------------------------------------------------------------------------
(* validate_batch_plan: for each geometry, one batch size that has it for    *)
(* every population of the corpus.                                           *)
BatchPlanIsComplete(corpus) ==
  LET every(P(_, _)) == \E b \in Batch : \A c \in Case : P(b, corpus.sims[c])
      Divides(b, n) == b < n /\ n % b = 0
      Leaves(b, n) == b < n /\ n % b # 0
      Equals(b, n) == b = n
      Exceeds(b, n) == b > n
  IN every(Divides) /\ every(Leaves) /\ every(Equals) /\ every(Exceeds)

(* build_proof_coverage, proof_coverage_issues. *)
Coverage(corpus) == UNION {corpus.traits[c] : c \in Case}

(* _build_case_report: one TypeScript execution, one Python one per batch.   *)
ReplayCase(expected, python, typescript, c) ==
  LET ts == Normative(expected, Reported(typescript, c))
      batches == [b \in Batch |-> Normative(expected, Reported(python[b], c))]
      inter == [b \in Batch |-> InterEngine(Reported(python[b], c), Reported(typescript, c),
                                            "interlanguage_divergence")]
  IN [typescript |-> ts, batches |-> batches, inter |-> inter,
      outcomes |-> Outcomes({ts.status} \cup {batches[b].status : b \in Batch}
                              \cup {inter[b].status : b \in Batch}),
      independent |-> \A b \in Batch : batches[b].status = "match"]

(* normative_diagnostics, interlanguage_diagnostics; batch 0: TypeScript. *)
ReplayDiagnostics(cases) ==
  LET of(entry, b, case) ==
        IF entry.status = "engine_error"
          THEN {[case |-> case, batch |-> b, class |-> "engine_error", path |-> "/"]}
          ELSE {[case |-> case, batch |-> b, class |-> entry.status, path |-> d.path] :
                  d \in entry.differences}
  IN (UNION {of(cases[c].typescript, 0, c) : c \in Case})
       \cup (UNION {of(cases[c].batches[b], b, c) : b \in Batch, c \in Case})
       \cup (UNION {of(cases[c].inter[b], b, c) : b \in Batch, c \in Case})

(* _report_status *)
ReplayStatus(cases) ==
  LET outcomes == UNION {cases[c].outcomes : c \in Case}
  IN IF "engine_error" \in outcomes THEN "engine_error"
     ELSE IF outcomes = {"match"} THEN "match" ELSE "divergence"

(* build_exact_replay_report *)
ReplayReport(src, down) ==
  LET python == [b \in Batch |-> EngineReport(src.python.results[b])]
      typescript == IF "replay" \in down THEN FatalReport ELSE EngineReport(src.typescript.results)
      cases == [c \in Case |-> ReplayCase(src.corpus.expected[c], python, typescript, c)]
  IN [status |-> ReplayStatus(cases), cases |-> cases, coverage |-> Coverage(src.corpus),
      batches |-> Batch, diagnostics |-> ReplayDiagnostics(cases),
      independent |-> \A c \in Case : cases[c].independent]

(* run_control of the exact replay. *)
ExactReplay(src, down) ==
  IF ~src.corpus.valid \/ ~(RequiredCoverage \subseteq Coverage(src.corpus))
    THEN [status |-> "invalid_corpus"]
  ELSE IF ~BatchPlanIsComplete(src.corpus) THEN [status |-> "invalid_configuration"]
  ELSE ReplayReport(src, down)

(* main of the two controls: the report is written, the exit code is 1 ... *)
EvidenceFails(report) ==
  report.status \in {"invalid_corpus", "invalid_configuration", "engine_error", "invalid"}
=============================================================================
