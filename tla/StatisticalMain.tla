--------------------------- MODULE StatisticalMain ---------------------------
(***************************************************************************)
(* The blocking statistical sub-graph of the profile main. Each node       *)
(* writes a proof, then Scripts/statistical_main_enforcement.py verifies   *)
(* the attestations that it requires, reads the proof and, only when       *)
(* everything matches, attests the proof for the nodes behind it. A        *)
(* complete run (quality_gate.py ci) works on a copy of the workspace, a   *)
(* run of one node (--node) in the workspace itself, where the evidence of *)
(* earlier runs is still there.                                            *)
(*                                                                         *)
(* A source tree is a record of what the controls read in it: the engines, *)
(* the corpus and its probes, the protocol and what the engines draw under *)
(* it (measures), the authority, the semantics of the components, the      *)
(* policy and the other documents (files).                                 *)
(***************************************************************************)
EXTENDS StatisticalReport, Sequences

CONSTANTS
  Starts,      \* pairs <<workspace, head>> of source trees to begin with
  Edits,       \* pairs <<from, to>>: what a developer changes
  MaxEvents    \* bound: edits, bridges that fail and nodes that are run again

-----------------------------------------------------------------------------
Document == {"parity", "exact", "distribution", "compatibility", "report"}

(* The proofs that the authority lists: three come from --proof-path. *)
ReadAs == [p \in DynamicProof |-> CASE p = "deterministic-parity" -> "parity"
                                    [] p = "exact-replay" -> "exact"
                                    [] OTHER -> "distribution"]

StaticDocument(src, p) ==
  CASE p = "reference-corpus" -> src.corpus
    [] p = "validation-probes" -> src.probes
    [] p = "distribution-protocol" -> src.protocol
    [] p = "distribution-seeds" -> src.protocol.seeds
    [] OTHER -> src.files["distribution_calibration"]

ProofDocuments(src, proofs) ==
  [p \in Proof |-> IF p \in DynamicProof THEN proofs[ReadAs[p]] ELSE StaticDocument(src, p)]

(* The three proofs of sources that no bridge fails, and all the documents   *)
(* that a run which finds nothing to refuse writes.                          *)
DueProofs(src) ==
  [parity |-> ParityReport(src, {}), exact |-> ExactReplay(src, {}),
   distribution |-> DistributionEvidence(src, {})]

Due(src) ==
  LET proofs == DueProofs(src)
      evidence == CompatibilityEvidence(src.authority, src.semantics,
                                        ProofDocuments(src, proofs), {})
      with(report) == [parity |-> proofs.parity, exact |-> proofs.exact,
                       distribution |-> proofs.distribution, compatibility |-> evidence,
                       report |-> report]
  IN with(ConsolidatedReport(src, with(Absent)))

-----------------------------------------------------------------------------
(* What can stand in a source tree: an answer is a record, or the engine     *)
(* raises; the corpus and the probes expect an answer; the measures are      *)
(* integers; releases are a list; a document, an attestation, the semantics  *)
(* of a release are there (None is none of them).                            *)
IsRecord(r) == r = [f \in DOMAIN r |-> r[f]]

IsMeasure(measure) ==
  /\ measure.kind \in {"exact_structural", "insufficient", "rate_difference", "discrete_cdf"}
  /\ measure.kind = "rate_difference" =>
       /\ measure.low \in Int /\ measure.high \in Int /\ measure.margin \in Int
       /\ measure.low <= measure.high
  /\ measure.kind = "discrete_cdf" =>
       measure.effect \in Int /\ measure.radius \in Int /\ measure.margin \in Int

HasReleases(components) ==
  \A c \in DOMAIN components :
    components[c].releases \in
      Seq({components[c].releases[i] : i \in DOMAIN components[c].releases})

NeverAbsent(src) ==
  /\ \A k \in Document :
       /\ Due(src)[k] # Absent /\ [snapshot |-> src, artifact |-> Due(src)[k]] # Absent
  /\ [snapshot |-> src, artifact |-> Absent] # Absent
  /\ src.authority # Absent =>
       /\ \A p \in DOMAIN src.authority.proofs : ProofDocuments(src, DueProofs(src))[p] # Absent
       /\ \A c \in DOMAIN src.authority.components :
            LastOf(src.authority.components[c].releases).semantics # Absent

IsSource(src) ==
  /\ NeverAbsent(src)
  /\ \A c \in Case :
       /\ IsRecord(src.corpus.expected[c]) /\ src.corpus.expected[c] \notin {Raised, Failed}
       /\ src.typescript.results[c] = Raised \/ IsRecord(src.typescript.results[c])
       /\ \A b \in Batch :
            src.python.results[b][c] = Raised \/ IsRecord(src.python.results[b][c])
  /\ Probe \subseteq DOMAIN src.python.accepts /\ Probe \subseteq DOMAIN src.typescript.accepts
  /\ \A p \in Probe : src.probes.expected[p] # Raised
  /\ \A m \in Metric : IsMeasure(src.measures[m])
  /\ src.authority # Absent => HasReleases(src.authority.components)
  /\ \A f \in DOMAIN src.files : src.files[f] \in {"valid"} \cup DOMAIN FileClass

(* The protocol has scenarios, each of them has metrics and takes its cases  *)
(* from the corpus (statistical-distribution-protocol-v1.0.schema.json).     *)
ASSUME SourceAssumption ==
  /\ \A pair \in Starts \cup Edits : IsSource(pair[1]) /\ IsSource(pair[2])
  /\ IsFiniteSet(Case) /\ {DefaultBatch, CohortBatch} \subseteq Batch /\ One \in Int
  /\ SourceCase \subseteq Case /\ Scenario # {}
  /\ \A m \in Metric : ScenarioOf[m] \in Scenario
  /\ \A s \in Scenario : \E m \in Metric : ScenarioOf[m] = s

VARIABLES
  workspace,  \* the source tree in the workspace
  head,       \* that of the last commit: the authority that it contains is accepted
  place,      \* "none", "workspace" (one node) or "copy" (complete run)
  tree,       \* the source tree that the run works on
  scope,      \* its nodes
  progress,   \* the commands of each node that have succeeded
  failed,     \* the nodes that have failed
  down,       \* the bridges to TypeScript that have failed
  documents,  \* the documents written so far, Absent for the others
  accepted,   \* the authority of HEAD when the compatibility evidence was made, and
              \* that of the evidence that the report was made from
  attested,   \* the attestations written so far
  ran,        \* the nodes that were run one by one since the last edit
  events,
  edited,     \* history: the sources of the run have changed after its first command
  torn        \* history: the controls attested on a proof of other sources (Torn)

runVars == <<place, tree, scope, progress, failed, down>>
vars == <<workspace, head, runVars, documents, accepted, attested, ran, events, edited, torn>>

Plan == INSTANCE GatePlan
Node == Plan!StatisticalNode

(* Faulty variant: the compatibility control does not wait for the replay. *)
NeedsWithoutReplay(n) ==
  (Plan!GateNeeds[n] \cap Node) \
    (IF n = "statistical-compatibility" THEN {"statistical-exact-replay"} ELSE {})

Needs(n) == Plan!GateNeeds[n] \cap Node
Commands(n) == Plan!StatisticalCommands(n)

-----------------------------------------------------------------------------
(* The attestations: one for each control; batching attests the replay too.  *)
Control ==
  {"authority_preflight", "corpus_and_probes", "distribution_protocol", "deterministic_parity",
   "exact_replay", "batching_independence", "distributional_parity",
   "statistical_compatibility", "consolidated_report"}

Subject ==
  [authority_preflight |-> "sources", corpus_and_probes |-> "sources",
   distribution_protocol |-> "sources", deterministic_parity |-> "parity",
   exact_replay |-> "exact", batching_independence |-> "exact",
   distributional_parity |-> "distribution",
   statistical_compatibility |-> "compatibility", consolidated_report |-> "report"]

(* CONTROL_REQUIREMENTS, _validation_inputs and _consolidated_inputs. *)
Requirements ==
  LET sources == {"authority_preflight", "corpus_and_probes"}
      proofs == {"deterministic_parity", "exact_replay", "batching_independence",
                 "distributional_parity"}
  IN [authority_preflight |-> {}, corpus_and_probes |-> {"authority_preflight"},
      distribution_protocol |-> sources, deterministic_parity |-> sources,
      exact_replay |-> sources, batching_independence |-> sources \cup {"exact_replay"},
      distributional_parity |-> sources \cup {"distribution_protocol"},
      statistical_compatibility |-> sources \cup {"distribution_protocol"} \cup proofs,
      consolidated_report |-> proofs \cup {"statistical_compatibility"}]

(* Faulty variant: the sources of the frontend are not in the snapshot. *)
SnapshotOfBackend(src) == [src EXCEPT !.typescript = Absent, !.measures = Absent]

(* snapshot_identity: every file that the controls read is in it. *)
Snapshot(src) == src

(* verify_attestation: the snapshot of today, the bytes that were attested.  *)
Attested(c) == IF Subject[c] = "sources" THEN Absent ELSE documents[Subject[c]]

Verifies(c) ==
  /\ attested[c] # Absent
  /\ tree.policy
  /\ attested[c] = [snapshot |-> Snapshot(tree), artifact |-> Attested(c)]

(* verify_requirements: the plan passes exactly the ones that are required.  *)
Required(c) == \A r \in Requirements[c] : Verifies(r)

-----------------------------------------------------------------------------
(* validate_authorities, validate_corpus, validate_protocol. *)
SourcesAreValid(c, src) ==
  \/ /\ c = "authority_preflight"
     /\ src.authority # Absent /\ AuthorityDiagnostics(src.authority) = {}
     /\ src.files["prng_vectors"] = "valid"
  \/ c = "corpus_and_probes" /\ src.corpus.valid /\ src.probes.valid
  \/ c = "distribution_protocol" /\ ProtocolIssue(src.protocol) = "none"

(* enforce: the artifact is usable, and its statuses are all accepted by the *)
(* policy, which accepts "match" only (status_issues).                       *)
ProofMatches(c, src, proofs) ==
  \/ /\ c = "deterministic_parity"
     /\ UsableParity(proofs.parity, src) /\ ParityStatuses(proofs.parity) = {"match"}
  \/ /\ c = "exact_replay"
     /\ UsableReplay(proofs.exact, src) /\ ReplayStatuses(proofs.exact) = {"match"}
  \/ /\ c = "batching_independence"
     /\ UsableReplay(proofs.exact, src) /\ BatchingStatuses(proofs.exact) = {"match"}
  \/ /\ c = "distributional_parity"
     /\ UsableDistribution(proofs.distribution, src)
     /\ DistributionStatuses(proofs.distribution) = {"match"}
  \/ /\ c = "statistical_compatibility"
     /\ proofs.compatibility # Absent
     /\ ReadProofs(proofs.compatibility, ProofDocuments(src, proofs))
     /\ CompatibilityStatuses(proofs.compatibility) = {"match"}

(* _consolidated_inputs: the report is the one that would be generated now.  *)
ReportMatches(src, docs) ==
  /\ docs.report # Absent /\ ~Crashes(src, docs)
  /\ docs.report = ConsolidatedReport(src, docs)
  /\ ConsolidatedStatuses(docs.report) = {"match"}

Passes(c) ==
  /\ tree.policy /\ Required(c)
  /\ \/ SourcesAreValid(c, tree)
     \/ ProofMatches(c, tree, documents)
     \/ c = "consolidated_report" /\ ReportMatches(tree, documents)

(* The control that a validating or an enforcing command decides.            *)
Decides ==
  {<<"validate-authorities", "authority_preflight">>, <<"validate-corpus", "corpus_and_probes">>,
   <<"validate-protocol", "distribution_protocol">>, <<"enforce-parity", "deterministic_parity">>,
   <<"enforce-exact-replay", "exact_replay">>, <<"enforce-batching", "batching_independence">>,
   <<"enforce-distribution", "distributional_parity">>,
   <<"enforce-compatibility", "statistical_compatibility">>,
   <<"validate-consolidated-report", "consolidated_report">>}

-----------------------------------------------------------------------------
NoDocument ==
  [parity |-> Absent, exact |-> Absent, distribution |-> Absent, compatibility |-> Absent,
   report |-> Absent]
Nothing == [c \in Control |-> Absent]
NotBegun == [n \in Node |-> 0]

Init ==
  /\ \E start \in Starts : workspace = start[1] /\ head = start[2]
  /\ place = "none" /\ tree = workspace /\ scope = {} /\ progress = NotBegun /\ failed = {}
  /\ down = {} /\ documents = NoDocument /\ attested = Nothing
  /\ accepted = [compatibility |-> Absent, report |-> Absent]
  /\ ran = {} /\ events = 0 /\ edited = FALSE /\ torn = {}

(* At any time, between two commands of a run in the workspace included: the *)
(* run goes on with the sources that it finds. The copy does not change.     *)
Edit ==
  /\ events < MaxEvents
  /\ \E e \in Edits : e[1] = workspace /\ workspace' = e[2]
  /\ events' = events + 1 /\ ran' = {}
  /\ tree' = IF place = "copy" THEN tree ELSE workspace'
  /\ edited' = (place = "workspace" /\ progress # NotBegun)
  /\ UNCHANGED <<head, place, scope, progress, failed, down, documents, accepted, attested, torn>>

Commit ==
  /\ head' = workspace /\ head # workspace
  /\ UNCHANGED <<workspace, runVars, documents, accepted, attested, ran, events, edited, torn>>

(* Bound: one by one, the nodes are first run in the order of the contract.  *)
StartNode(n) ==
  /\ place = "none"
  /\ \A m \in Node : Plan!GateOrder[m] < Plan!GateOrder[n] => m \in ran
  /\ events' = events + (IF n \in ran THEN 1 ELSE 0) /\ events' <= MaxEvents
  /\ place' = "workspace" /\ tree' = workspace /\ scope' = {n} /\ ran' = ran \cup {n} /\ down' = {}
  /\ UNCHANGED <<workspace, head, progress, failed, documents, accepted, attested, edited, torn>>

(* The copy has none of the evidence of the workspace, which Git ignores;    *)
(* bound: complete runs are started from a workspace that has none either.   *)
StartComplete ==
  /\ place = "none" /\ documents = NoDocument /\ attested = Nothing
  /\ place' = "copy" /\ tree' = workspace /\ scope' = Node /\ down' = {}
  /\ UNCHANGED <<workspace, head, progress, failed, documents, accepted, attested, ran, events,
                 edited, torn>>

Completed(n) == progress[n] = Len(Commands(n))

(* The commands of a node are run in order until one of them fails; in a     *)
(* complete run, a node starts after those it needs, if none has failed.     *)
CanGoOn(n) ==
  /\ n \in scope \ failed /\ ~Completed(n)
  /\ place = "copy" /\ progress[n] = 0 => failed = {} /\ \A m \in Needs(n) : Completed(m)
Command(n) == Commands(n)[progress[n] + 1]

Succeeds(n) == progress' = [progress EXCEPT ![n] = @ + 1] /\ UNCHANGED failed
Fails(n) == failed' = failed \cup {n} /\ UNCHANGED progress

(* A generating command writes a document, even when it then fails.          *)
Generates(n, command) ==
  /\ CanGoOn(n) /\ Command(n) = command
  /\ UNCHANGED <<workspace, head, place, tree, scope, attested, ran, edited, torn>>

Write(n, k, text, success) ==
  /\ documents' = [documents EXCEPT ![k] = text]
  /\ IF success THEN Succeeds(n) ELSE Fails(n)

WriteNothing(n) == Fails(n) /\ UNCHANGED <<documents, accepted>>

(* broken: the bridges to TypeScript that fail this time. *)
Break(broken) ==
  /\ down' = down \cup broken
  /\ events' = events + Cardinality(broken) /\ events' <= MaxEvents
  /\ UNCHANGED accepted

GenerateParity(n, broken) ==
  /\ Generates(n, "generate-parity") /\ Break(broken)
  /\ \E text \in {ParityReport(tree, broken)} :
       Write(n, "parity", text, ~EvidenceFails(text))

GenerateExactReplay(n, broken) ==
  /\ Generates(n, "generate-exact-replay") /\ Break(broken)
  /\ \E text \in {ExactReplay(tree, broken)} :
       Write(n, "exact", text, ~EvidenceFails(text))

GenerateDistribution(n, broken) ==
  /\ Generates(n, "generate-distribution") /\ Break(broken)
  /\ \E text \in {DistributionEvidence(tree, broken)} :
       Write(n, "distribution", text, ~EvidenceFails(text))

(* load_committed_authority: the accepted releases are those of HEAD. The    *)
(* evidence of an earlier run is left as it is without an authority.         *)
GenerateCompatibility(n) ==
  /\ Generates(n, "generate-compatibility") /\ UNCHANGED <<down, events>>
  /\ IF tree.authority = Absent THEN WriteNothing(n)
     ELSE \E read \in {ProofDocuments(tree, documents)} :
          \E diagnostics \in {CompatibilityDiagnostics(tree.authority, head.authority,
                                                       tree.semantics, read)} :
          \E text \in {CompatibilityEvidence(tree.authority, tree.semantics,
                                             read, diagnostics)} :
            /\ Write(n, "compatibility", text, diagnostics = {})
            /\ accepted' = [accepted EXCEPT !.compatibility = head.authority]

(* Nor is the report replaced by one that cannot be built. *)
GenerateReport(n) ==
  /\ Generates(n, "generate-consolidated-report") /\ UNCHANGED <<down, events>>
  /\ IF Crashes(tree, documents) THEN WriteNothing(n)
     ELSE \E text \in {ConsolidatedReport(tree, documents)} :
            /\ Write(n, "report", text, text.verdict \notin GeneratorFailures)
            /\ accepted' = [accepted EXCEPT !.report = accepted.compatibility]

(* The control has read a proof, or relies on a control that had read one,   *)
(* that was generated before the sources of the run changed. The report is   *)
(* compared with the one of the sources as they are.                         *)
Torn(c) ==
  \/ edited /\ Subject[c] \in {"parity", "exact", "distribution", "compatibility"}
  \/ Requirements[c] \cap torn # {}

(* write_attestation. The snapshot is taken after the control has passed.    *)
Attest(c) ==
  /\ attested' = [attested EXCEPT ![c] = [snapshot |-> Snapshot(tree), artifact |-> Attested(c)]]
  /\ torn' = IF Torn(c) THEN torn \cup {c} ELSE torn \ {c}

(* A validating or an enforcing command. *)
Decide(n, c) ==
  /\ CanGoOn(n) /\ <<Command(n), c>> \in Decides
  /\ IF Passes(c) THEN Succeeds(n) /\ Attest(c) ELSE Fails(n) /\ UNCHANGED <<attested, torn>>
  /\ UNCHANGED <<workspace, head, place, tree, scope, down, documents, accepted, ran, events, edited>>

(* The run ends when no node can go on, and its copy with it. *)
End ==
  /\ place # "none" /\ \A n \in Node : ~CanGoOn(n)
  /\ place' = "none" /\ scope' = {} /\ progress' = NotBegun /\ failed' = {} /\ tree' = workspace
  /\ edited' = FALSE
  /\ IF place = "copy" THEN documents' = NoDocument /\ attested' = Nothing
     ELSE UNCHANGED <<documents, attested>>
  /\ UNCHANGED <<workspace, head, down, accepted, ran, events, torn>>

RunStep ==
  \/ \E n \in scope, broken \in SUBSET {"corpus", "probes"} : GenerateParity(n, broken)
  \/ \E n \in scope, broken \in SUBSET {"replay"} : GenerateExactReplay(n, broken)
  \/ \E n \in scope, broken \in SUBSET {"cohorts"} : GenerateDistribution(n, broken)
  \/ \E n \in scope : GenerateCompatibility(n) \/ GenerateReport(n)
  \/ \E n \in scope, c \in Control : Decide(n, c)
  \/ End

(* Nobody starts a run. *)
Rest == place = "none" /\ UNCHANGED vars

Next == Edit \/ Commit \/ (\E n \in Node : StartNode(n)) \/ StartComplete \/ RunStep \/ Rest

Spec == Init /\ [][Next]_vars

-----------------------------------------------------------------------------
(* What the controls claim, said of the sources themselves. *)
Answers(src, outcome) == \A c \in Case : outcome[c] = src.corpus.expected[c]
WithinMargin(measure) ==
  /\ measure.kind # "insufficient"
  /\ measure.kind = "exact_structural" => ~measure.mismatch
  /\ measure.kind = "rate_difference" =>
       -measure.margin <= measure.low /\ measure.high <= measure.margin
  /\ measure.kind = "discrete_cdf" =>
       measure.effect + measure.radius <= measure.margin \/ One <= measure.margin

Extends(new, old) ==
  \A c \in DOMAIN new \cap DOMAIN old :
    \A i \in DOMAIN old[c].releases :
      i \in DOMAIN new[c].releases /\ new[c].releases[i] = old[c].releases[i]

Drifts(src) ==
  \E c \in DOMAIN src.authority.components :
    src.semantics[c] # LastOf(src.authority.components[c].releases).semantics

(* old: the authority that was accepted when the control was passed.         *)
Claim(c, src, old) ==
  /\ c = "deterministic_parity" =>
       /\ Answers(src, src.python.results[DefaultBatch]) /\ Answers(src, src.typescript.results)
       /\ \A p \in Probe : /\ src.python.accepts[p] = src.probes.expected[p]
                           /\ src.typescript.accepts[p] = src.probes.expected[p]
  /\ c = "exact_replay" =>
       Answers(src, src.typescript.results) /\ \A b \in Batch : Answers(src, src.python.results[b])
  /\ c = "batching_independence" =>
       \A b, d \in Batch : \A k \in Case : src.python.results[b][k] = src.python.results[d][k]
  /\ c = "distributional_parity" =>
       ResolvesHolm(src.protocol) /\ \A m \in Metric : WithinMargin(src.measures[m])
  /\ c = "statistical_compatibility" =>
       ~Drifts(src) /\ (old # Absent => Extends(src.authority.components, old.components))

StaticFiles(src) ==
  \A f \in DOMAIN src.files : src.files[f] = "valid"

(* ControlsAreTrue: an attestation that verifies tells the truth about the   *)
(* sources as they are now, whatever was run, edited and left behind before; *)
(* that of the report tells all of it (verify_attestation, enforce). There   *)
(* is one exception, torn: sources edited under a run in the workspace       *)
(* itself, between a proof and its attestation, are attested with the proof  *)
(* of those before them, because write_attestation takes the snapshot last.  *)
(* It ends when the control is passed again; and only the control itself and *)
(* those that were passed on its attestation are concerned.                  *)
ControlsAreTrue ==
  \A c \in Control :
    Verifies(c) /\ c \notin torn =>
      IF c = "consolidated_report"
        THEN /\ StaticFiles(tree)
             /\ \A d \in Control : Claim(d, tree, accepted.report)
      ELSE Claim(c, tree, accepted.compatibility)

(* RedHasACause: a complete run fails only for a defect of its sources, for  *)
(* a release that does not extend the accepted ones, or for a bridge that    *)
(* failed: no node refuses what the others have proved.                      *)
Defective(src) ==
  \/ ~src.policy \/ src.authority = Absent \/ ~StaticFiles(src)
  \/ \E c \in {"authority_preflight", "corpus_and_probes", "distribution_protocol"} :
       ~SourcesAreValid(c, src)
  \/ ~(RequiredCoverage \subseteq Coverage(src.corpus)) \/ ~BatchPlanIsComplete(src.corpus)
  \/ Drifts(src)
  \/ \E p \in DOMAIN src.authority.proofs :
       src.authority.proofs[p].fingerprint # ProofDocuments(src, DueProofs(src))[p]
  \/ \E c \in Control \ {"statistical_compatibility"} : ~Claim(c, src, Absent)

Compared ==
  progress["statistical-compatibility"] # 0 \/ "statistical-compatibility" \in failed

Disturbed ==
  \/ down # {}
  \/ /\ Compared /\ accepted.compatibility # Absent
     /\ EvolutionDiagnostics(tree.authority, accepted.compatibility) # {}

RedHasACause == place = "copy" /\ failed # {} => Disturbed \/ Defective(tree)

(* The two readers of the proofs: a control, and the report of all of them.  *)
ReadBy(controls) == \A c \in controls : ProofMatches(c, tree, documents)
ReadInReport(source, levels) ==
  /\ Available(documents.report.diagnostics, source)
  /\ \A l \in levels : documents.report.levels[l] = "match"

(* ReadersAgree: when the sources are valid, the consolidated report finds a *)
(* proof good exactly when its specialized control does. The two are written *)
(* twice, by different rules (observed_statuses; build_proof_levels and the  *)
(* diagnostics), and read the same documents.                                *)
ReadersAgree ==
  ( /\ \A k \in Document : documents[k] # Absent
    /\ documents.report.sources = ReportSources(tree, documents)
    /\ tree.policy /\ StaticFiles(tree) /\ tree.authority # Absent
    /\ \A c \in {"corpus_and_probes", "distribution_protocol"} : SourcesAreValid(c, tree) )
  => /\ ReadBy({"deterministic_parity"})
          <=> ReadInReport("deterministic_parity", {"parity", "probes"})
     /\ ReadBy({"exact_replay", "batching_independence"})
          <=> ReadInReport("exact_replay", {"exact", "batching"})
     /\ ReadBy({"distributional_parity"}) <=> ReadInReport("distribution_evidence", {"distribution"})
     /\ CompatibilityStatuses(documents.compatibility) = {"match"}
          <=> ReadInReport("compatibility_evidence", {"compatibility"})
=============================================================================
