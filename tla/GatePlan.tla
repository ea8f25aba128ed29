------------------------------ MODULE GatePlan ------------------------------
(***************************************************************************)
(* What a gate decides to run: Scripts/quality_gate.py classifies every    *)
(* changed path, resolves the tests it calls for, and                      *)
(* Scripts/quality_gate_plan.py lays the commands out on the nodes of      *)
(* config/test-execution-profiles.json.                                    *)
(*                                                                         *)
(* A path is one of the kinds that the two functions tell apart, and the   *)
(* name of a kind also stands for the test files that it resolves to.      *)
(***************************************************************************)
EXTENDS Integers, Sequences, FiniteSets

Kind ==
  {"outside", "central", "normative", "documentation", "sharedBackend",
   "backendInit", "sharedFrontend", "sharedUnlisted", "sharedTest",
   "backendTest", "backendDirect", "backendOther", "frontendTest",
   "componentDirect", "componentOther", "unknown"}

(* _classify_changed_path: the first rule that applies decides. *)
Level(k) ==
  CASE k \in {"outside", "central", "normative", "unknown"} -> "massive"
    [] k \in {"sharedBackend", "backendInit", "sharedFrontend",
              "sharedUnlisted", "sharedTest"} -> "impacted"
    [] OTHER -> "targeted"

(* classify_changes: the widest level of the paths; nothing known is massive. *)
Classification(paths) ==
  IF paths = {} \/ \E k \in paths : Level(k) = "massive" THEN "massive"
  ELSE IF \E k \in paths : Level(k) = "impacted" THEN "impacted" ELSE "targeted"

(* _resolve_path_tests: the domain of a path, "none" when no test is known. *)
Domain(k) ==
  CASE k \in {"documentation", "normative"} -> "documentation"
    [] k \in {"sharedBackend", "backendTest", "backendDirect"} -> "backend"
    [] k \in {"sharedFrontend", "sharedTest", "frontendTest", "componentDirect"}
         -> "frontend"
    [] OTHER -> "none"

(* ... and whether the whole domain is controlled: a test file never asks it. *)
Impacts(k) == k \in {"sharedBackend", "sharedFrontend"}

(* resolve_tests: a path without known tests falls back on the full plan. *)
Resolution(mode, paths) ==
  LET massive == \/ mode = "ci"
                 \/ Classification(paths) = "massive"
                 \/ \E k \in paths : Domain(k) = "none"
  IN [level    |-> IF massive THEN "massive" ELSE Classification(paths),
      impacted |-> IF massive THEN {} ELSE {Domain(k) : k \in {p \in paths : Impacts(p)}},
      backend  |-> IF massive THEN {} ELSE {k \in paths : Domain(k) = "backend"},
      frontend |-> IF massive THEN {} ELSE {k \in paths : Domain(k) = "frontend"}]

-----------------------------------------------------------------------------
(* The nodes of the contract, and its profiles. *)
StatisticalNode ==
  {"statistical-authorities", "statistical-deterministic-parity",
   "statistical-exact-replay", "statistical-distributional-parity",
   "statistical-compatibility", "statistical-consolidated-report"}
BranchNode == {"backend-static", "frontend-static", "backend-tests",
               "frontend-tests", "e2e", "release-or-container-checks"}
GateNode == {"preflight", "aggregate"} \cup BranchNode \cup StatisticalNode

(* active_nodes: the statistical sub-graph is absent from the profile pr. *)
ActiveNodes(profile) == IF profile = "pr" THEN GateNode \ StatisticalNode ELSE GateNode

(* needs and conditionalNeeds of each node. *)
GateNeeds ==
  LET proofs == {"statistical-deterministic-parity", "statistical-exact-replay",
                 "statistical-distributional-parity"}
  IN [n \in GateNode |->
       CASE n = "preflight" -> {}
         [] n \in BranchNode \cup {"statistical-authorities"} -> {"preflight"}
         [] n \in proofs -> {"statistical-authorities"}
         [] n = "statistical-compatibility" -> proofs
         [] n = "statistical-consolidated-report" ->
              proofs \cup {"statistical-compatibility"}
         [] n = "aggregate" -> BranchNode \cup {"statistical-consolidated-report"}]

(* order of each node: batches are started and read in this order. *)
GateOrder ==
  [n \in GateNode |->
    CASE n = "preflight" -> 10 [] n = "backend-static" -> 20
      [] n = "statistical-authorities" -> 25 [] n = "frontend-static" -> 30
      [] n = "statistical-deterministic-parity" -> 32
      [] n = "statistical-exact-replay" -> 34
      [] n = "statistical-distributional-parity" -> 36
      [] n = "backend-tests" -> 40 [] n = "frontend-tests" -> 50 [] n = "e2e" -> 60
      [] n = "release-or-container-checks" -> 70
      [] n = "statistical-compatibility" -> 72
      [] n = "statistical-consolidated-report" -> 80 [] n = "aggregate" -> 100]

-----------------------------------------------------------------------------
(* execution_profile_for_mode. *)
DefaultProfile(mode) ==
  CASE mode = "push" -> "main" [] mode \in {"nightly", "release"} -> mode [] OTHER -> "pr"

When(condition, steps) == IF condition THEN steps ELSE <<>>

(* statistical_commands: the evidence of a node is produced, then enforced. *)
StatisticalCommands(n) ==
  CASE n = "statistical-authorities" ->
         <<"validate-authorities", "validate-corpus", "validate-protocol">>
    [] n = "statistical-deterministic-parity" -> <<"generate-parity", "enforce-parity">>
    [] n = "statistical-exact-replay" ->
         <<"generate-exact-replay", "enforce-exact-replay", "enforce-batching">>
    [] n = "statistical-distributional-parity" ->
         <<"generate-distribution", "enforce-distribution">>
    [] n = "statistical-compatibility" -> <<"generate-compatibility", "enforce-compatibility">>
    [] OTHER -> <<"generate-consolidated-report", "validate-consolidated-report">>

(* build_execution_plan, grouped by node as _commands_by_node groups it.     *)
(* full: the complete plan. Test governance runs in every plan; it asks for  *)
(* the results of the run only in the complete one.                          *)
Commands(profile, r) ==
  LET full == r.level = "massive"
      main == full /\ profile # "pr"
  IN [n \in ActiveNodes(profile) |->
       CASE n = "preflight" ->
              <<"repository-hygiene", "backlog-consistency", "backlog-atomicity",
                "test-classification", "identity-boundary", "naming", "maintainability">>
         [] n = "backend-static" -> When(full \/ "backend" \in r.impacted, <<"ruff">>)
         [] n = "frontend-static" ->
              When(full \/ "frontend" \in r.impacted, <<"eslint", "typecheck">>)
                \o When(main, <<"build">>)
         [] n = "backend-tests" ->
              When(main, <<"selection", "backend-coverage", "per-file-coverage">>)
                \o When(full /\ ~main, <<"selection", "backend-tests">>)
                \o When(r.backend # {}, <<"selected-backend-tests">>)
         [] n = "frontend-tests" ->
              When(main, <<"frontend-coverage">>)
                \o When(full /\ ~main, <<"frontend-tests">>)
                \o When(r.frontend # {}, <<"selected-frontend-tests">>)
         [] n = "e2e" -> When(main, <<"playwright">>)
         [] n = "release-or-container-checks" -> When(main, <<"release-checks">>)
         [] n = "aggregate" ->
              When(full, <<"count-reference">>)
                \o When(main, <<"vitals-report", "vitals-compliance">>)
                \o <<"test-governance">> \o When(full, <<"test-strategy">>)
         [] OTHER -> When(main, StatisticalCommands(n))]

(* GateExecutionPlan. docker: the smoke test of the containers follows the  *)
(* release checks, in the automation modes only.                            *)
Plan(mode, profile, paths) ==
  LET r == Resolution(mode, paths)
  IN [mode |-> mode, profile |-> profile, active |-> ActiveNodes(profile),
      commands |-> Commands(profile, r), full |-> r.level = "massive",
      suites |-> r.backend \cup r.frontend,
      docker |-> r.level = "massive" /\ profile # "pr"
                   /\ mode \in {"ci", "nightly", "release"}]

(* needs_frontend_dependencies: the classification control of preflight      *)
(* declares that it uses the frontend tools, so a complete execution does;   *)
(* so do the nodes that call npm.                                            *)
UsesFrontendTools(n) ==
  n \in {"preflight", "frontend-static", "frontend-tests", "e2e",
         "statistical-deterministic-parity", "statistical-exact-replay",
         "statistical-distributional-parity"}

(* Nothing of a change may be left out of the plan that validates it. *)
Covers(plan, paths) ==
  plan.full \/ \A k \in paths : k = "documentation" \/ k \in plan.suites
=============================================================================
