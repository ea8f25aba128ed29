------------------------------ MODULE GateDag ------------------------------
(***************************************************************************)
(* Scripts/quality_gate_dag.py: execution of the commands of a plan        *)
(* through the graph of nodes. An execution starts every ready node at     *)
(* once, waits for all of them and reads their outcomes in the order of    *)
(* the contract, until no node is left; a selected node runs alone.        *)
(*                                                                         *)
(* Every node that runs leaves its proof on disk, result.json, which the   *)
(* last node reads: residual results of earlier executions may be there,   *)
(* and a command may write over the result of another node.                *)
(***************************************************************************)
EXTENDS Integers, Sequences, FiniteSets

CONSTANTS
  Node,          \* the nodes of the contract
  Needs,         \* [Node -> SUBSET Node]: needs and conditionalNeeds
  Order,         \* [Node -> Nat]: a distinct position for every node
  Depth,         \* [Node -> Nat]: decreases along the edges
  Aggregate,     \* the node that concludes
  Release,       \* the node after which the docker smoke test runs
  Writes,        \* <<n, m>>: a command of n may write over the result of m
  MaxFaults,     \* a bound: the nodes of one batch that fail or raise
  Runs           \* [plan: plan, mode: "parallel" or a selected node]

ASSUME ContractAssumption ==
  /\ Needs \in [Node -> SUBSET Node]
  /\ Order \in [Node -> Nat]
  /\ \A m, n \in Node : Order[m] = Order[n] => m = n
  /\ {Aggregate, Release} \subseteq Node /\ Writes \subseteq Node \X Node
  /\ "parallel" \notin Node

(* dependency_errors: a contract with a cycle is refused. *)
ASSUME AcyclicAssumption ==
  /\ Depth \in [Node -> Nat]
  /\ \A n \in Node : \A m \in Needs[n] : Depth[m] < Depth[n]

(* The nodes of a plan are those of its profile. *)
ASSUME RunsAssumption ==
  \A r \in Runs :
    /\ r.plan.active \subseteq Node
    /\ r.plan.commands \in [r.plan.active -> Seq(STRING)]
    /\ r.plan.docker \in BOOLEAN
    /\ r.mode \in {"parallel"} \cup r.plan.active

VARIABLES
  run,        \* the plan and how it is executed
  phase,      \* "idle", "choose" a batch, "run" it, "done"
  pending,    \* nodes not completed yet
  completed,  \* nodes that no longer hold the others back
  batch,      \* nodes submitted together
  outcomes,   \* of the nodes of the batch
  results,    \* result.json of each node
  code        \* what the execution returns

vars == <<run, phase, pending, completed, batch, outcomes, results, code>>

Active == run.plan.active
CommandsOf(n) == run.plan.commands[n]

(* The nodes that have something to run. *)
Busy(r) == {n \in r.plan.active : r.plan.commands[n] # <<>>}

(* What the verdict is about: the selected node, or all the busy ones. *)
Scope(r) == IF r.mode \in r.plan.active THEN {r.mode} ELSE Busy(r)

(* Nodes without a command hold nobody back, and nothing a selected node. *)
InitialPending(r) == IF r.mode = "parallel" THEN Busy(r) ELSE {r.mode}

Result == {"none", "residual", "ok", "failed"}
Outcome == {"none", "running", "ok", "failed", "raised"}
Code == {"none", "green", "red", "stuck", "raised", "interrupted"}

TypeOK ==
  /\ run \in Runs
  /\ phase \in {"idle", "choose", "run", "done"}
  /\ pending \subseteq Active /\ completed \subseteq Active
  /\ pending \cap completed = {} /\ batch \subseteq pending
  /\ outcomes \in [Active -> Outcome]
  /\ results \in [Active -> Result] /\ code \in Code

Init ==
  /\ run \in Runs
  /\ phase = "idle" /\ batch = {} /\ code = "none"
  /\ pending = {} /\ completed = {}
  /\ outcomes = [n \in Active |-> "none"]
  /\ results = [n \in Active |-> "none"]

(* execute_gate_plan: an execution begins, in a fresh workspace or in one    *)
(* that holds the results of earlier executions.                             *)
Begin(r) ==
  /\ phase \in {"idle", "done"}
  /\ run' = r /\ phase' = "choose" /\ batch' = {} /\ code' = "none"
  /\ pending' = InitialPending(r) /\ completed' = r.plan.active \ InitialPending(r)
  /\ outcomes' = [n \in r.plan.active |-> "none"]
  /\ \E old \in {"none", "residual"} : results' = [n \in r.plan.active |-> old]

-----------------------------------------------------------------------------
(* Faulty variant: the ends of the edges are not restricted to the profile. *)
DepsOfContract(n) == Needs[n]

(* active_dependencies: both ends of the edge take part in the profile. *)
Deps(n) == Needs[n] \cap Active

(* Faulty variant: the edges are ignored, every node is ready at once. *)
ReadyRegardless == pending

(* _ready_nodes. *)
Ready == {n \in pending : Deps(n) \subseteq completed}

First(S) == CHOOSE n \in S : \A m \in S : Order[n] <= Order[m]

(* Faulty variant: the files are left as they are found. *)
RestoredFromDisk == results

(* _restore_current_results: the proofs of this execution, written again. *)
Restored ==
  [n \in Active |-> IF n \in completed \cap Scope(run) THEN "ok" ELSE results[n]]

(* All the ready nodes are submitted; when none is, the graph is stuck. *)
Choose ==
  /\ phase = "choose" /\ pending # {}
  /\ IF Ready = {}
     THEN phase' = "done" /\ code' = "stuck" /\ UNCHANGED <<batch, outcomes, results>>
     ELSE /\ phase' = "run" /\ code' = code
          /\ batch' = Ready
          /\ outcomes' = [n \in Active |-> IF n \in Ready THEN "running" ELSE "none"]
          /\ results' = IF Aggregate \in Ready /\ run.mode = "parallel"
                        THEN Restored ELSE results
  /\ UNCHANGED <<run, pending, completed>>

-----------------------------------------------------------------------------
(* _run_node: the commands of a node run in order, up to the first that      *)
(* fails, and the proof is written. A command may meet the file of another   *)
(* node on its way.                                                          *)
Overwrite(n, m) ==
  /\ outcomes[n] = "running" /\ <<n, m>> \in Writes /\ CommandsOf(n) # <<>>
  /\ results' = [results EXCEPT ![m] = "residual"]
  /\ UNCHANGED <<run, phase, pending, completed, batch, outcomes, code>>

Faults == {n \in batch : outcomes[n] \in {"failed", "raised"}}

(* A command fails, or the smoke test of the containers that follows. *)
FailNode(n) ==
  /\ outcomes[n] = "running" /\ Cardinality(Faults) < MaxFaults
  /\ CommandsOf(n) # <<>> \/ (run.plan.docker /\ n = Release)
  /\ outcomes' = [outcomes EXCEPT ![n] = "failed"]
  /\ results' = [results EXCEPT ![n] = "failed"]
  /\ UNCHANGED <<run, phase, pending, completed, batch, code>>

(* The inputs of the aggregation cannot be read, a command cannot be set up: *)
(* nothing is written.                                                       *)
RaiseInNode(n) ==
  /\ outcomes[n] = "running" /\ Cardinality(Faults) < MaxFaults
  /\ CommandsOf(n) # <<>> \/ n = Aggregate
  /\ outcomes' = [outcomes EXCEPT ![n] = "raised"]
  /\ UNCHANGED <<run, phase, pending, completed, batch, results, code>>

FinishNode(n) ==
  /\ outcomes[n] = "running"
  /\ outcomes' = [outcomes EXCEPT ![n] = "ok"]
  /\ results' = [results EXCEPT ![n] = "ok"]
  /\ UNCHANGED <<run, phase, pending, completed, batch, code>>

(* The main thread is interrupted while it waits: the pool is joined first. *)
Interrupt ==
  /\ phase = "run" /\ code = "none"
  /\ code' = "interrupted"
  /\ UNCHANGED <<run, phase, pending, completed, batch, outcomes, results>>

-----------------------------------------------------------------------------
(* Faulty variant: a failing node is waited for again and again. *)
JoinedWhenGreen == phase = "run" /\ \A n \in batch : outcomes[n] = "ok"

Joined == phase = "run" /\ \A n \in batch : outcomes[n] # "running"
Failing == {n \in batch : outcomes[n] = "failed"}

(* future.result() raises before any outcome is read. *)
HarvestRaise ==
  /\ Joined
  /\ code = "interrupted" \/ \E n \in batch : outcomes[n] = "raised"
  /\ code' = IF code = "none" THEN "raised" ELSE code
  /\ phase' = "done" /\ batch' = {}
  /\ UNCHANGED <<run, pending, completed, outcomes, results>>

(* The outcomes are read in order: the first failing node ends the gate. *)
HarvestFailure ==
  /\ Joined /\ code = "none" /\ Failing # {}
  /\ \A n \in batch : outcomes[n] # "raised"
  /\ LET read == {n \in batch : Order[n] < Order[First(Failing)]}
     IN pending' = pending \ read /\ completed' = completed \cup read
  /\ code' = "red" /\ phase' = "done" /\ batch' = {}
  /\ UNCHANGED <<run, outcomes, results>>

HarvestSuccess ==
  /\ Joined /\ code = "none"
  /\ \A n \in batch : outcomes[n] = "ok"
  /\ pending' = pending \ batch /\ completed' = completed \cup batch
  /\ phase' = "choose" /\ batch' = {}
  /\ UNCHANGED <<run, outcomes, results, code>>

(* Everything has run: _aggregate writes the result of the last node, unless *)
(* another node was selected.                                                *)
Conclude ==
  /\ phase = "choose" /\ pending = {}
  /\ code' = "green" /\ phase' = "done"
  /\ results' = IF run.mode \in Active \ {Aggregate} THEN results
                ELSE [n \in Active |-> IF n = Aggregate THEN "ok" ELSE results[n]]
  /\ UNCHANGED <<run, pending, completed, batch, outcomes>>

RunNode(n) == FailNode(n) \/ RaiseInNode(n) \/ FinishNode(n)

Harvest == HarvestRaise \/ HarvestFailure \/ HarvestSuccess

Execute ==
  \/ Choose
  \/ \E n \in Active : RunNode(n) \/ \E m \in Active \ {n} : Overwrite(n, m)
  \/ Interrupt \/ Harvest \/ Conclude

Next == Execute \/ \E r \in Runs : Begin(r)

(* The promise, seen through the nodes that the execution has to run. *)
Verdict ==
  IF phase = "idle" THEN "idle"
  ELSE IF code = "none" THEN "running" ELSE IF code = "green" THEN "green" ELSE "red"

G == INSTANCE Gate WITH
       scope <- Scope(run),
       required <- [n \in Node |-> Needs[n] \cap Active],
       passed <- completed \cap Scope(run),
       verdict <- Verdict

Spec == Init /\ [][Next]_vars
-----------------------------------------------------------------------------
(* ImplementsGate: whatever the batches, the order in which the outcomes are *)
(* read and the interruptions, an execution keeps the promise of Gate: no    *)
(* node passes before the nodes that it needs, green means that every node   *)
(* of the plan has passed in this very execution (_execute_parallel).        *)
ImplementsGate == G!GSpec

(* TheGraphNeverStalls: no plan can make the scheduler return code 2, not    *)
(* even one that leaves most nodes without a command (_ready_nodes).         *)
TheGraphNeverStalls == code # "stuck"
=============================================================================
