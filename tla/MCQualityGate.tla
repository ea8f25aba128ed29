--------------------------- MODULE MCQualityGate ---------------------------
(***************************************************************************)
(* A repository of five commits: 1 and 2 are on the remote, 3 changes a    *)
(* component and the documentation, 4 a backend module and a shared        *)
(* frontend one, 5 merges 3 and 4 and changes the documentation. The last  *)
(* fetch saw a branch that ended at 4, since deleted, and not yet 2.       *)
(***************************************************************************)
EXTENDS QualityGate

MCParents == <<{}, {1}, {2}, {1}, {3, 4}>>
MCPaths ==
  <<{"central"}, {"documentation"}, {"componentDirect", "documentation"},
    {"backendDirect", "sharedFrontend", "documentation"}, {"documentation"}>>

Update(l, r) == [local |-> l, remote |-> r]

(* Fast-forwards, new references, two references ending at one commit, a     *)
(* reference already on the remote, a rewind, a deletion, an unknown tip.    *)
MCPushes ==
  {{}, {Update(3, 2)}, {Update(5, 2), Update(5, 0)}, {Update(3, 0), Update(4, 0)},
   {Update(5, 0)}, {Update(2, 0)}, {Update(1, 2)}, {Update(0, 9), Update(3, 2)},
   {Update(3, 9)}}

MCStaged == {{"documentation"}, {"documentation", "sharedBackend"}}

MCCiPlans == {[profile |-> "main", node |-> "all"], [profile |-> "pr", node |-> "aggregate"],
              [profile |-> "pr", node |-> "all"], [profile |-> "main", node |-> "e2e"]}

(* What tests/test_quality_gate.py:205 has its commands do. *)
MCWrites == {<<"backend-static", "preflight">>, <<"frontend-static", "backend-static">>}
=============================================================================
