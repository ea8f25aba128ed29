SPECIFICATION Spec
CONSTANTS
  Case <- MCCase
  Probe = {"zeros", "weeks"}
  Batch <- MCBatch
  DefaultBatch = 2048
  RequiredCoverage <- MCCoverage
  Raised = Raised
  Metric = {"cdf", "rate", "shape"}
  Scenario = {"pooled", "structural"}
  ScenarioOf <- MCScenarioOf
  SourceCase <- MCCase
  CohortBatch = 1000
  One = 1000
  AlphaInverse = 20
  Failed = Raised
  Component = {"prng", "canonical-response"}
  StaticProof = {"reference-corpus", "validation-probes", "distribution-protocol"}
  Surface = {"prng_algorithm", "canonical_response_shape"}
  Absent = Absent
  Starts <- MCStarts
  Edits <- MCEdits
  MaxEvents = 2
INVARIANTS
  ControlsAreTrue
  RedHasACause
  ReadersAgree
CHECK_DEADLOCK TRUE
