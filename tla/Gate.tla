-------------------------------- MODULE Gate --------------------------------
(***************************************************************************)
(* What every execution of a gate plan promises, whatever its order and    *)
(* its parallelism: a node passes only when the nodes of the scope that it *)
(* requires have passed in the same execution, the verdict is green only   *)
(* when the whole scope has passed, and a red verdict is final.            *)
(***************************************************************************)
CONSTANT Node

VARIABLES scope, required, passed, verdict

gvars == <<scope, required, passed, verdict>>

GInit == passed = {} /\ verdict = "idle"

(* An execution begins, with the nodes that it has to run. *)
Begin ==
  /\ verdict # "running" /\ verdict' = "running"
  /\ scope' \in SUBSET Node /\ required' \in [Node -> SUBSET Node]
  /\ passed' = {}

(* Some nodes pass, the ones that they require having passed before. *)
MayPass(S) ==
  /\ S \subseteq scope
  /\ \A n \in S : required[n] \cap scope \subseteq passed
  /\ passed' = passed \cup S

Pass ==
  /\ verdict = "running"
  /\ \E S \in SUBSET Node : MayPass(S)
  /\ UNCHANGED <<scope, required, verdict>>

(* A batch with a failing node may still count the nodes read before it. *)
Reject ==
  /\ verdict = "running" /\ verdict' = "red"
  /\ \E S \in SUBSET Node : MayPass(S)
  /\ UNCHANGED <<scope, required>>

Accept ==
  /\ verdict = "running" /\ passed = scope
  /\ verdict' = "green"
  /\ UNCHANGED <<scope, required, passed>>

GNext == Begin \/ Pass \/ Reject \/ Accept

GSpec == GInit /\ [][GNext]_gvars
=============================================================================
