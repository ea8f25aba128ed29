---------------------- MODULE StatisticalCompatibility ----------------------
(***************************************************************************)
(* The compatibility control (Scripts/run_statistical_compatibility.py):   *)
(* the semantics of each component of the sources must be the one of its   *)
(* last accepted release, a release is a traced decision that is never     *)
(* rewritten, and the proofs that a release requires are regenerated.      *)
(*                                                                         *)
(* A fingerprint stands for what it is computed from: the fingerprint of a *)
(* document is the document. A diagnostic is a pair <<component, code>>.   *)
(***************************************************************************)
EXTENDS Integers, Sequences, FiniteSets

CONSTANTS
  Component,     \* the monitored components
  StaticProof,   \* the proofs that are files of the repository
  Surface,       \* SURFACES: what the components have to cover between them
  Absent         \* no document, no earlier release, no extractable semantics

DynamicProof == {"deterministic-parity", "exact-replay", "distribution-evidence"}
Proof == StaticProof \cup DynamicProof

ReleaseClass ==
  {"compatible_without_historical_result_change", "compatible_contract_extension",
   "normative_result_change", "replay_incompatibility", "pseudo_random_stream_change",
   "serialized_shape_change", "migration_required", "invalidation_required"}
Disruptive == ReleaseClass \ {"compatible_without_historical_result_change",
                              "compatible_contract_extension"}

(* The codes that are not errors of the control itself: _status calls        *)
(* evidence with only such diagnostics blocked, and any other control_error. *)
Blocking ==
  {"version_not_incremented", "decision_missing_surfaces", "historical_treatment_missing",
   "migration_plan_missing", "invalidation_plan_missing", "prng_identity_not_changed",
   "release_without_semantic_change", "invalid_release_classification",
   "release_proof_set_incomplete", "historical_treatment_incoherent",
   "proof_version_not_incremented", "component_manifest_changed_without_release",
   "release_proofs_not_regenerated", "proof_manifest_changed_without_release",
   "proof_unavailable", "proof_fingerprint_drift", "semantic_drift_without_release",
   "semantic_drift_version_unchanged"}

Unless(fine, code) == IF fine THEN {} ELSE {code}
LastOf(s) == s[Len(s)]
Treatments(r) == {r.treatments[d] : d \in DOMAIN r.treatments}

-----------------------------------------------------------------------------
(* _lineage_diagnostics: old is the release before r, or Absent. *)
LineageIssues(r, old) ==
  LET origin == IF old = Absent THEN Absent ELSE <<old.version, old.semantics>>
  IN Unless(r.to = <<r.version, r.semantics>>, "decision_target_mismatch")
       \cup Unless(r.from = origin, "release_lineage_broken")
       \cup Unless(old = Absent \/ r.version > old.version, "version_not_incremented")

(* _surface_diagnostics *)
SurfaceIssues(component, r, old) ==
  Unless(r.changed \subseteq component.surfaces, "decision_surface_outside_component")
    \cup Unless(old # Absent \/ ( /\ r.changed = {}
                                  /\ r.class = "compatible_without_historical_result_change" ),
                "baseline_decision_incoherent")
    \cup Unless(old = Absent \/ r.semantics = old.semantics \/ r.changed # {},
                "decision_missing_surfaces")

(* _treatment_diagnostics *)
TreatmentIssues(component, r) ==
  Unless(DOMAIN r.treatments = component.affected, "historical_treatment_missing")
    \cup Unless(r.class = "migration_required" => "deterministic_migration" \in Treatments(r),
                "migration_plan_missing")
    \cup Unless(r.class = "invalidation_required"
                  => Treatments(r) \cap {"invalidation", "purge", "explicit_rejection"} # {},
                "invalidation_plan_missing")

(* _classification_diagnostics: what a class may be said of. *)
MayDeclare(class, id) ==
  CASE class = "compatible_contract_extension" ->
         id \in {"input-contract", "canonical-response", "serialization-and-history",
                 "reference-corpus-contract", "exact-replay-proof", "distributional-proof"}
    [] class = "pseudo_random_stream_change" -> id = "prng"
    [] class = "serialized_shape_change" ->
         id \in {"canonical-response", "serialization-and-history"}
    [] OTHER -> TRUE

(* release_decision_diagnostics, of every release but the first. *)
DecisionIssues(id, component, r, old) ==
  IF old = Absent THEN {}
  ELSE Unless(r.semantics # old.semantics, "release_without_semantic_change")
         \cup Unless(r.class \in ReleaseClass, "invalid_release_classification")
         \cup Unless(r.proofs = component.required, "release_proof_set_incomplete")
         \cup Unless(MayDeclare(r.class, id), "decision_incompatible_with_component")
         \cup Unless(r.class \in Disruptive
                       => Treatments(r) # {"compatible_without_action"},
                     "historical_treatment_incoherent")

(* release_diagnostics: of a release r and the one before it, then of all.   *)
PairIssues(id, component, r, old) ==
  DecisionIssues(id, component, r, old) \cup LineageIssues(r, old)
    \cup SurfaceIssues(component, r, old) \cup TreatmentIssues(component, r)
    \cup Unless(old # Absent /\ r.class = "pseudo_random_stream_change"
                  => r.identity # old.identity, "prng_identity_not_changed")

ReleaseIssues(id, component) ==
  (UNION {PairIssues(id, component, component.releases[i],
                     IF i = 1 THEN Absent ELSE component.releases[i - 1]) :
            i \in DOMAIN component.releases})
    \cup Unless(LastOf(component.releases).version = component.version,
                "current_release_mismatch")

(* semantic_diagnostics: each surface belongs to one component. *)
SurfacesAreCovered(components) ==
  /\ UNION {components[c].surfaces : c \in DOMAIN components} = Surface
  /\ \A c, d \in DOMAIN components :
       c # d => components[c].surfaces \cap components[d].surfaces = {}

ReferenceIssues(component, authority) ==
  Unless(component.required \subseteq DOMAIN authority.proofs, "required_proof_unknown")
    \cup Unless(\A d \in component.dependencies :
                  /\ d[1] \in DOMAIN authority.components
                  /\ authority.components[d[1]].version = d[2], "dependency_version_mismatch")

AuthorityDiagnostics(authority) ==
  (UNION {{id} \X (ReleaseIssues(id, authority.components[id])
                     \cup ReferenceIssues(authority.components[id], authority)) :
            id \in DOMAIN authority.components})
    \cup {"authority"} \X Unless(SurfacesAreCovered(authority.components),
                                "surface_coverage_incomplete")

-----------------------------------------------------------------------------
(* evolution_diagnostics: against the authority of the last commit. The      *)
(* entry of a proof is its version and its fingerprint.                      *)
ChangedProofs(authority, old) ==
  {p \in DOMAIN authority.proofs \cap DOMAIN old.proofs : authority.proofs[p] # old.proofs[p]}

Rewritten(component, old) ==
  \/ Len(component.releases) < Len(old.releases)
  \/ SubSeq(component.releases, 1, Len(old.releases)) # old.releases

Appended(component, old) ==
  ~Rewritten(component, old) /\ Len(component.releases) > Len(old.releases)

(* The fields of the manifest are all those of a component but its releases. *)
SameManifest(component, old) == [component EXCEPT !.releases = old.releases] = old

ComponentEvolution(component, old, changed) ==
  IF Rewritten(component, old) THEN {"accepted_release_modified"}
  ELSE Unless(SameManifest(component, old) \/ Appended(component, old),
              "component_manifest_changed_without_release")
         \cup Unless(Appended(component, old) => component.required \subseteq changed,
                     "release_proofs_not_regenerated")

EvolutionDiagnostics(authority, old) ==
  LET changed == ChangedProofs(authority, old)
      shared == DOMAIN authority.components \cap DOMAIN old.components
      proof(p) == Unless(authority.proofs[p].version # old.proofs[p].version,
                         "proof_version_not_incremented")
      removed == {"accepted_component_removed" : c \in DOMAIN old.components \ shared}
                   \cup {"accepted_proof_removed" : p \in DOMAIN old.proofs \ DOMAIN authority.proofs}
      untraced == changed # {} /\ ~\E c \in shared :
                    Appended(authority.components[c], old.components[c])
  IN {"authority"} \X (removed \cup (UNION {proof(p) : p \in changed})
                         \cup Unless(~untraced, "proof_manifest_changed_without_release"))
       \cup (UNION {{c} \X ComponentEvolution(authority.components[c], old.components[c], changed) :
                      c \in shared})

-----------------------------------------------------------------------------
(* validate_proof_catalog: documents are the proofs as they are read now.    *)
ProofIssues(entry, document) ==
  IF document = Absent THEN {"proof_unavailable"}
  ELSE Unless(document = entry.fingerprint, "proof_fingerprint_drift")

(* evaluate_components: the two diagnostics of a drift.                      *)
DriftIssues(component, semantics) ==
  IF semantics = Absent THEN {"authority_extraction_failed"}
  ELSE IF semantics = LastOf(component.releases).semantics THEN {}
  ELSE {"semantic_drift_without_release", "semantic_drift_version_unchanged"}

(* validate_authority_and_evaluate. old: the authority of HEAD, if any.      *)
CompatibilityDiagnostics(authority, old, semantics, documents) ==
  AuthorityDiagnostics(authority)
    \cup (IF old = Absent THEN {} ELSE EvolutionDiagnostics(authority, old))
    \cup (UNION {{"authority"} \X ProofIssues(authority.proofs[p], documents[p]) :
                   p \in DOMAIN authority.proofs})
    \cup (UNION {{c} \X DriftIssues(authority.components[c], semantics[c]) :
                   c \in DOMAIN authority.components})

(* build_evidence *)
Codes(diagnostics) == {d[2] : d \in diagnostics}

CompatibilityEvidence(authority, semantics, documents, diagnostics) ==
  [status |-> IF Codes(diagnostics) \ Blocking # {} THEN "control_error"
              ELSE IF diagnostics # {} THEN "blocked" ELSE "match",
   diagnostics |-> diagnostics, authority |-> authority, components |-> semantics,
   proofs |-> documents]

(* compatibility_proof_issues: the proofs that the evidence has read are     *)
(* those that the attestations of the run are about.                         *)
ReadProofs(evidence, attested) ==
  \A p \in DynamicProof : evidence.proofs[p] = attested[p]
=============================================================================
