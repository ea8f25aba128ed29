-------------------------- MODULE QualityGateProofs --------------------------
(***************************************************************************)
(* What GateDag guarantees for every acyclic contract and every plan, then *)
(* what the hooks of QualityGate guarantee for every history of commits,   *)
(* every push and every staged change.                                     *)
(***************************************************************************)
EXTENDS QualityGate, WellFoundedInduction, TLAPS

USE ContractAssumption, RunsAssumption

(* The next-state relation, action by action. *)
LEMMA NextCases ==
  ASSUME Next
  PROVE  \/ \E r \in Runs : Begin(r)
         \/ Choose
         \/ \E n \in Active : FailNode(n)
         \/ \E n \in Active : RaiseInNode(n)
         \/ \E n \in Active : FinishNode(n)
         \/ \E n, m \in Active : Overwrite(n, m)
         \/ Interrupt \/ HarvestRaise \/ HarvestFailure \/ HarvestSuccess \/ Conclude
  BY DEF Next, Execute, RunNode, Harvest

(* A run is a plan of the contract, executed whole or through one node. *)
LEMMA RunFacts ==
  \A r \in Runs :
    /\ r.plan.active \subseteq Node
    /\ Busy(r) \subseteq r.plan.active
    /\ InitialPending(r) \subseteq r.plan.active
    /\ Scope(r) \subseteq r.plan.active
    /\ (r.plan.active \ InitialPending(r)) \cap Scope(r) = {}
    /\ Scope(r) \subseteq InitialPending(r)
  BY DEF Busy, InitialPending, Scope

(* Typing: every state of an execution is well formed; in particular a batch *)
(* is made of nodes that are not completed, and no node is in both sets.     *)
THEOREM Typing == Spec => []TypeOK
<1> USE DEF Result, Outcome, Code, Active
<1>1. Init => TypeOK
  BY DEF Init, TypeOK
<1>2. TypeOK /\ [Next]_vars => TypeOK'
  <2> SUFFICES ASSUME TypeOK, [Next]_vars PROVE TypeOK'
    OBVIOUS
  <2>0. CASE UNCHANGED vars
    BY <2>0 DEF TypeOK, vars
  <2>1. ASSUME NEW r \in Runs, Begin(r) PROVE TypeOK'
    <3>1. run' = r /\ pending' \subseteq Active' /\ completed' \subseteq Active'
      BY <2>1, RunFacts DEF Begin
    <3>2. pending' \cap completed' = {} /\ batch' \subseteq pending'
      BY <2>1 DEF Begin
    <3>3. outcomes' \in [Active' -> Outcome] /\ results' \in [Active' -> Result]
      BY <2>1 DEF Begin
    <3> QED
      BY <2>1, <3>1, <3>2, <3>3 DEF Begin, TypeOK
  <2>2. CASE Choose
    <3>1. UNCHANGED <<run, pending, completed>>
      BY <2>2 DEF Choose
    <3>2. batch' \subseteq pending' /\ phase' \in {"idle", "choose", "run", "done"}
      BY <2>2 DEF Choose, Ready, TypeOK
    <3>3. outcomes' \in [Active -> Outcome]
      BY <2>2 DEF Choose, TypeOK
    <3>4. results' \in [Active -> Result]
      BY <2>2 DEF Choose, TypeOK, Restored
    <3>5. code' \in Code
      BY <2>2 DEF Choose, TypeOK
    <3> QED
      BY <3>1, <3>2, <3>3, <3>4, <3>5 DEF TypeOK
  <2>3. ASSUME NEW n \in Active, FailNode(n) PROVE TypeOK'
    BY <2>3 DEF TypeOK, FailNode
  <2>4. ASSUME NEW n \in Active, RaiseInNode(n) PROVE TypeOK'
    BY <2>4 DEF TypeOK, RaiseInNode
  <2>5. ASSUME NEW n \in Active, FinishNode(n) PROVE TypeOK'
    BY <2>5 DEF TypeOK, FinishNode
  <2>6. ASSUME NEW n \in Active, NEW m \in Active, Overwrite(n, m) PROVE TypeOK'
    BY <2>6 DEF TypeOK, Overwrite
  <2>7. CASE Interrupt
    BY <2>7 DEF TypeOK, Interrupt
  <2>8. CASE HarvestRaise
    BY <2>8 DEF TypeOK, HarvestRaise
  <2>9. CASE HarvestFailure
    <3>1. PICK read \in SUBSET batch :
            pending' = pending \ read /\ completed' = completed \cup read
      BY <2>9 DEF HarvestFailure
    <3>2. UNCHANGED <<run, outcomes, results>> /\ code' = "red" /\ phase' = "done" /\ batch' = {}
      BY <2>9 DEF HarvestFailure
    <3> QED
      BY <3>1, <3>2 DEF TypeOK
  <2>10. CASE HarvestSuccess
    BY <2>10 DEF TypeOK, HarvestSuccess
  <2>11. CASE Conclude
    BY <2>11 DEF TypeOK, Conclude
  <2> QED
    BY NextCases, <2>0, <2>1, <2>2, <2>3, <2>4, <2>5, <2>6, <2>7, <2>8, <2>9, <2>10, <2>11
<1> QED
  BY <1>1, <1>2, PTL DEF Spec

(* Between the batches the nodes are either pending or completed, and a      *)
(* batch is exactly what was ready when it was submitted.                    *)
Coherent ==
  /\ phase = "idle" => completed = {} /\ code = "none"
  /\ phase # "idle" => Active \subseteq pending \cup completed
  /\ phase = "choose" => code = "none"
  /\ phase = "run" => code \in {"none", "interrupted"} /\ batch = Ready
  /\ phase = "done" => code # "none"
  /\ phase # "run" => batch = {}

THEOREM Coherence == Spec => []Coherent
<1> USE DEF Active, Coherent
<1>1. Init => Coherent
  BY DEF Init
<1>2. TypeOK /\ Coherent /\ [Next]_vars => Coherent'
  <2> SUFFICES ASSUME TypeOK, Coherent, [Next]_vars PROVE Coherent'
    OBVIOUS
  <2>0. CASE UNCHANGED vars
    BY <2>0 DEF vars, Ready, Deps
  <2>1. ASSUME NEW r \in Runs, Begin(r) PROVE Coherent'
    BY <2>1 DEF Begin
  <2>2. CASE Choose
    BY <2>2 DEF Choose, Ready, Deps
  <2>3. ASSUME NEW n \in Active, FailNode(n) PROVE Coherent'
    BY <2>3 DEF FailNode, Ready, Deps
  <2>4. ASSUME NEW n \in Active, RaiseInNode(n) PROVE Coherent'
    BY <2>4 DEF RaiseInNode, Ready, Deps
  <2>5. ASSUME NEW n \in Active, FinishNode(n) PROVE Coherent'
    BY <2>5 DEF FinishNode, Ready, Deps
  <2>6. ASSUME NEW n \in Active, NEW m \in Active, Overwrite(n, m) PROVE Coherent'
    BY <2>6 DEF Overwrite, Ready, Deps
  <2>7. CASE Interrupt
    BY <2>7 DEF Interrupt, Ready, Deps
  <2>8. CASE HarvestRaise
    BY <2>8 DEF HarvestRaise, Joined
  <2>9. CASE HarvestFailure
    <3>1. PICK read \in SUBSET batch :
            pending' = pending \ read /\ completed' = completed \cup read
      BY <2>9 DEF HarvestFailure
    <3>2. run' = run /\ code' = "red" /\ phase' = "done" /\ batch' = {} /\ phase = "run"
      BY <2>9 DEF HarvestFailure, Joined
    <3> QED
      BY <3>1, <3>2
  <2>10. CASE HarvestSuccess
    BY <2>10 DEF HarvestSuccess, Joined
  <2>11. CASE Conclude
    BY <2>11 DEF Conclude
  <2> QED
    BY NextCases, <2>0, <2>1, <2>2, <2>3, <2>4, <2>5, <2>6, <2>7, <2>8, <2>9, <2>10, <2>11
<1> QED
  BY <1>1, <1>2, Typing, PTL DEF Spec

(* A pending node of least depth has nothing pending before it. *)
LEMMA SomeNodeIsReady ==
  ASSUME TypeOK, Coherent, phase # "idle", pending # {}
  PROVE  Ready # {}
<1> DEFINE R == OpToRel(<, Nat)
           D == {Depth[n] : n \in pending}
<1>1. run \in Runs /\ pending \subseteq Node /\ Active \subseteq Node
  BY DEF TypeOK, Active
<1>2. IsWellFoundedOn(R, Nat)
  BY NatLessThanWellFounded, Zenon
<1>3. D \subseteq Nat /\ D # {}
  BY <1>1, AcyclicAssumption
<1>4. PICK d \in D : \A e \in D : ~(<<e, d>> \in R)
  <2> HIDE DEF R, D
  <2> QED
    BY <1>2, <1>3, WFMin, Zenon
<1>5. PICK n \in pending : d = Depth[n]
  BY <1>4
<1>6. \A m \in pending : ~(Depth[m] < Depth[n])
  BY <1>1, <1>4, <1>5, AcyclicAssumption, ZenonT(60) DEF OpToRel
<1>7. \A m \in Deps(n) : m \in Active /\ m \notin pending
  BY <1>1, <1>5, <1>6, AcyclicAssumption DEF Deps
<1>8. Deps(n) \subseteq completed
  BY <1>7 DEF Coherent
<1> QED
  BY <1>5, <1>8 DEF Ready

(* NoStall: the scheduler never finds pending nodes and none of them ready,  *)
(* whatever the contract, as long as it has no cycle, and whatever the nodes *)
(* that the plan leaves empty (_ready_nodes, _execute_parallel).             *)
THEOREM NoStall == Spec => []TheGraphNeverStalls
<1>1. Init => TheGraphNeverStalls
  BY DEF Init, TheGraphNeverStalls
<1>2. TypeOK /\ Coherent /\ TheGraphNeverStalls /\ [Next]_vars => TheGraphNeverStalls'
  <2> SUFFICES ASSUME TypeOK, Coherent, TheGraphNeverStalls, [Next]_vars PROVE TheGraphNeverStalls'
    OBVIOUS
  <2>1. CASE Choose
    <3>1. Ready # {}
      BY <2>1, SomeNodeIsReady DEF Choose
    <3> QED
      BY <2>1, <3>1 DEF Choose, TheGraphNeverStalls
  <2>2. CASE UNCHANGED vars
    BY <2>2 DEF vars, TheGraphNeverStalls
  <2>3. ASSUME Next, ~Choose PROVE TheGraphNeverStalls'
    BY <2>3, NextCases
       DEF TheGraphNeverStalls, Begin, FailNode, RaiseInNode, FinishNode, Overwrite, Interrupt,
           HarvestRaise, HarvestFailure, HarvestSuccess, Conclude
  <2> QED
    BY <2>1, <2>2, <2>3
<1> QED
  BY <1>1, <1>2, Typing, Coherence, PTL DEF Spec

(* The nodes counted at the end of a batch were ready, so what they need and *)
(* the execution has to run has passed (_ready_nodes, _execute_parallel).    *)
LEMMA BatchMayPass ==
  ASSUME TypeOK, Coherent, phase = "run",
         NEW S \in SUBSET batch,
         completed' = completed \cup S, run' = run
  PROVE  /\ S \cap Scope(run) \in SUBSET Node
         /\ G!MayPass(S \cap Scope(run))
<1>1. run \in Runs /\ Active \subseteq Node /\ batch = Ready
  BY DEF TypeOK, Active, Coherent
<1>2. Scope(run) \subseteq Active
  BY <1>1, RunFacts DEF Active
<1>3. Scope(run') = Scope(run)
  OBVIOUS
<1>4. S \subseteq Ready
  BY <1>1
<1>5. \A n \in S : Needs[n] \cap Active \subseteq completed
  BY <1>4 DEF Ready, Deps
<1> DEFINE required == [n \in Node |-> Needs[n] \cap Active]
<1>6. \A n \in S \cap Scope(run) :
        required[n] \cap Scope(run) \subseteq completed \cap Scope(run)
  BY <1>1, <1>2, <1>5
<1>7. completed' \cap Scope(run') = (completed \cap Scope(run)) \cup (S \cap Scope(run))
  BY <1>3
<1> HIDE DEF required
<1> QED
  BY <1>1, <1>2, <1>6, <1>7 DEF G!MayPass, required

(* GateIsKept: every execution of every plan over every acyclic contract     *)
(* implements Gate: an action of the scheduler starts an execution, lets     *)
(* nodes pass, rejects or accepts, or does nothing that the promise sees.    *)
THEOREM GateIsKept == Spec => ImplementsGate
<1>1. Init => G!GInit
  BY DEF Init, G!GInit, Verdict
<1>2. TypeOK /\ Coherent /\ [Next]_vars => [G!GNext]_(G!gvars)
  <2> SUFFICES ASSUME TypeOK, Coherent, [Next]_vars PROVE G!GNext \/ UNCHANGED G!gvars
    OBVIOUS
  <2> DEFINE Same == run' = run /\ completed' = completed
  <2>0. Same /\ Verdict' = Verdict => UNCHANGED G!gvars
    BY DEF G!gvars, Active
  <2>1. CASE UNCHANGED vars
    BY <2>0, <2>1 DEF vars, Verdict
  <2>2. ASSUME NEW r \in Runs, Begin(r) PROVE G!Begin
    <3>1. Verdict # "running" /\ Verdict' = "running"
      BY <2>2 DEF Begin, Verdict, Coherent
    <3>2. run' = r /\ completed' \cap Scope(run') = {}
      BY <2>2, RunFacts DEF Begin
    <3>3. Scope(run') \in SUBSET Node
      BY <3>2, RunFacts
    <3> QED
      BY <3>1, <3>2, <3>3 DEF G!Begin
  <2>3. CASE Choose
    <3>1. Ready # {}
      BY <2>3, SomeNodeIsReady DEF Choose
    <3>2. Same /\ phase = "choose" /\ phase' = "run" /\ code' = code
      BY <2>3, <3>1 DEF Choose
    <3> QED
      BY <2>0, <3>2 DEF Verdict
  <2>4. ASSUME NEW n \in Active, FailNode(n) \/ RaiseInNode(n) \/ FinishNode(n)
        PROVE UNCHANGED G!gvars
    BY <2>0, <2>4 DEF FailNode, RaiseInNode, FinishNode, Verdict
  <2>5. ASSUME NEW n \in Active, NEW m \in Active, Overwrite(n, m)
        PROVE UNCHANGED G!gvars
    BY <2>0, <2>5 DEF Overwrite, Verdict
  <2>6. ASSUME Same, phase = "run", code = "none", Verdict' = "red" PROVE G!Reject
    <3>1. Verdict = "running"
      BY <2>6 DEF Verdict
    <3>2. {} \cap Scope(run) = {} /\ completed' = completed \cup {} /\ {} \in SUBSET batch
      BY <2>6
    <3>3. {} \in SUBSET Node /\ G!MayPass({})
      BY <2>6, <3>2, BatchMayPass
    <3>4. UNCHANGED <<Scope(run), [n \in Node |-> Needs[n] \cap Active]>>
      BY <2>6 DEF Active
    <3> QED
      BY <2>6, <3>1, <3>3, <3>4 DEF G!Reject
  <2>7. CASE Interrupt
    BY <2>6, <2>7 DEF Interrupt, Verdict, G!GNext
  <2>8. CASE HarvestRaise
    <3>1. Same /\ phase = "run" /\ phase' = "done"
      BY <2>8 DEF HarvestRaise, Joined
    <3>2. CASE code = "none"
      BY <2>6, <2>8, <3>1, <3>2 DEF HarvestRaise, Verdict, G!GNext
    <3>3. CASE code = "interrupted"
      BY <2>0, <2>8, <3>1, <3>3 DEF HarvestRaise, Verdict
    <3> QED
      BY <3>1, <3>2, <3>3 DEF Coherent
  <2>9. CASE HarvestFailure
    <3>1. PICK read \in SUBSET batch : completed' = completed \cup read
      BY <2>9 DEF HarvestFailure
    <3>2. run' = run /\ phase = "run" /\ code = "none" /\ phase' = "done" /\ code' = "red"
      BY <2>9 DEF HarvestFailure, Joined
    <3>3. /\ read \cap Scope(run) \in SUBSET Node
          /\ G!MayPass(read \cap Scope(run))
      BY <3>1, <3>2, BatchMayPass
    <3>4. UNCHANGED <<Scope(run), [n \in Node |-> Needs[n] \cap Active]>>
      BY <3>2 DEF Active
    <3> QED
      BY <3>2, <3>3, <3>4 DEF G!Reject, G!GNext, Verdict
  <2>10. CASE HarvestSuccess
    <3>1. run' = run /\ phase = "run" /\ code = "none" /\ phase' = "choose" /\ code' = "none"
      BY <2>10 DEF HarvestSuccess, Joined
    <3>2. completed' = completed \cup batch /\ batch \in SUBSET batch
      BY <2>10 DEF HarvestSuccess
    <3>3. /\ batch \cap Scope(run) \in SUBSET Node
          /\ G!MayPass(batch \cap Scope(run))
      BY <3>1, <3>2, BatchMayPass
    <3>4. UNCHANGED <<Scope(run), [n \in Node |-> Needs[n] \cap Active]>>
      BY <3>1 DEF Active
    <3> QED
      BY <3>1, <3>3, <3>4 DEF G!Pass, G!GNext, Verdict
  <2>11. CASE Conclude
    <3>1. Same /\ phase = "choose" /\ phase' = "done" /\ code' = "green" /\ pending = {}
      BY <2>11 DEF Conclude
    <3>2. Scope(run) \subseteq Active /\ Active \subseteq completed
      BY <3>1, RunFacts DEF TypeOK, Coherent, Active
    <3>3. completed \cap Scope(run) = Scope(run)
      BY <3>2
    <3>4. UNCHANGED <<Scope(run), [n \in Node |-> Needs[n] \cap Active],
                      completed \cap Scope(run)>>
      BY <3>1 DEF Active
    <3>5. Verdict = "running" /\ Verdict' = "green"
      BY <3>1 DEF Coherent, Verdict
    <3> QED
      BY <3>3, <3>4, <3>5 DEF G!Accept, G!GNext
  <2> QED
    BY NextCases, <2>1, <2>2, <2>3, <2>4, <2>5, <2>7, <2>8, <2>9, <2>10, <2>11 DEF G!GNext
<1> QED
  BY <1>1, <1>2, Typing, Coherence, PTL DEF Spec, ImplementsGate, G!GSpec

-----------------------------------------------------------------------------
(* The hooks: their own variables, from the start to the answer.           *)
Stages == {"idle", "idle-push", "prepare", "expose", "gate", "withdraw", "clean", "done"}
Validated == {v[1] : v \in validated}

(* A hook keeps track of its terminal commits: each one is still to do, in   *)
(* progress or validated, and what runs is the plan of the one in progress.  *)
Tracks ==
  /\ todo \subseteq Targets(updates)
  /\ stage = "idle" => todo = {} /\ target = 0
  /\ stage = "idle-push" => hook = "push" /\ target = 0
  /\ hook = "push" /\ stage # "done" => updates \in Pushes /\ Resolvable(updates)
  /\ hook = "push" /\ (stage # "done" \/ exit = "accepted") =>
       Resolvable(updates) /\ updates \in Pushes
         /\ Targets(updates) \subseteq todo \cup {target} \cup Validated
  /\ hook = "push" /\ exit = "accepted" => todo = {} /\ target = 0
  /\ hook = "push" => \A v \in validated : v[2] = PushRun(v[1], updates).plan
  /\ hook = "push" /\ stage \in {"prepare", "expose", "gate", "withdraw", "clean"} =>
       run = PushRun(target, updates)

(* The directories that a hook has made are gone whenever nothing is in      *)
(* progress; Git may still list one of them.                                 *)
Gone(w) == w \in {"none", "registered"}
Tidy ==
  /\ stage \in {"idle", "idle-push", "prepare"} => Gone(workspace) /\ ~linked
  /\ exit = "accepted" => Gone(workspace) /\ ~linked

HookInv ==
  /\ stage \in Stages
  /\ stage # "done" => exit = "none"
  /\ stage = "idle" => validated = {} /\ updates = {}
  /\ Tracks /\ Tidy

LEMMA HookCases ==
  ASSUME QNext
  PROVE  \/ \E paths \in Staged : StartCommit(paths)
         \/ \E c \in CiPlans : StartCi(c)
         \/ \E ups \in Pushes : StartPush(ups)
         \/ \E t \in todo : NextTarget(t)
         \/ Materialize \/ Expose \/ ExecutePlan \/ Return \/ Withdraw \/ Clean \/ AcceptPush
         \/ UNCHANGED allVars
  BY DEF QNext, Ended

(* Every action of a node and of the executor leaves the run as it is.       *)
LEMMA ExecutionKeepsRun == Execute => run' = run
  BY DEF Execute, Choose, RunNode, FailNode, RaiseInNode, FinishNode, Overwrite, Interrupt,
         Harvest, HarvestRaise, HarvestFailure, HarvestSuccess, Conclude

LEMMA HookInvariant == QInit /\ [][QNext]_allVars => []HookInv
<1>1. QInit => HookInv
  BY DEF QInit, HookInv, Tracks, Tidy, Gone, Stages, Targets, Validated
<1>2. HookInv /\ [QNext]_allVars => HookInv'
  <2> SUFFICES ASSUME HookInv, [QNext]_allVars PROVE HookInv'
    OBVIOUS
  <2> USE DEF HookInv, Tidy, Stages, Gone
  <2>0. CASE UNCHANGED allVars
    BY <2>0 DEF allVars, vars, hookVars, Tracks, Validated
  <2>1. ASSUME NEW paths \in Staged, StartCommit(paths) PROVE HookInv'
    BY <2>1 DEF StartCommit, Tracks, Validated
  <2>2. ASSUME NEW c \in CiPlans, StartCi(c) PROVE HookInv'
    BY <2>2 DEF StartCi, Tracks, Validated
  <2>3. ASSUME NEW ups \in Pushes, StartPush(ups) PROVE HookInv'
    BY <2>3 DEF StartPush, Tracks, Validated
  <2>4. ASSUME NEW t \in todo, NextTarget(t) PROVE HookInv'
    <3>1. /\ stage = "idle-push" /\ hook' = "push" /\ target = 0 /\ stage' = "prepare"
          /\ target' = t /\ todo' = todo \ {t} /\ run' = PushRun(t, updates)
          /\ UNCHANGED <<updates, workspace, linked, exit, validated>>
      BY <2>4 DEF NextTarget, Begin, Tracks
    <3>2. 0 \notin Targets(updates)
      BY DEF Targets
    <3> QED
      BY <3>1, <3>2 DEF Tracks, Validated
  <2>5. CASE Materialize
    BY <2>5 DEF Materialize, vars, Tracks, Validated
  <2>6. CASE Expose
    BY <2>6 DEF Expose, vars, Tracks, Validated
  <2>7. CASE ExecutePlan
    BY <2>7, ExecutionKeepsRun DEF ExecutePlan, hookVars, Tracks, Validated
  <2>8. CASE Return
    BY <2>8 DEF Return, vars, Tracks, Validated
  <2>9. CASE Withdraw
    BY <2>9 DEF Withdraw, vars, Tracks, Validated
  <2>10. CASE Clean
    <3>1. stage = "clean" /\ exit = "none" /\ UNCHANGED <<run, hook, updates, todo>>
      BY <2>10 DEF Clean, vars
    <3>2. CASE hook = "push" /\ verdict = "accepted" /\ workspace' # "left"
      <4>1. /\ stage' = "idle-push" /\ exit' = exit /\ target' = 0 /\ ~linked'
            /\ validated' = validated \cup {<<target, run.plan>>}
        BY <2>10, <3>2 DEF Clean
      <4>2. Validated' = Validated \cup {target}
        <5> DEFINE entry == <<target, run.plan>>
        <5>1. entry[1] = target /\ validated' = validated \cup {entry}
          BY <4>1
        <5> HIDE DEF entry
        <5> QED
          BY <5>1 DEF Validated
      <4>3. run.plan = PushRun(target, updates).plan
        BY <3>1, <3>2 DEF Tracks
      <4>4. Gone(workspace')
        BY <2>10, <3>2 DEF Clean
      <4> QED
        BY <3>1, <3>2, <4>1, <4>2, <4>3, <4>4 DEF Tracks
    <3>3. CASE ~(hook = "push" /\ verdict = "accepted" /\ workspace' # "left")
      <4>1. /\ stage' = "done" /\ target' = 0 /\ validated' = validated
            /\ hook = "push" => exit' # "accepted"
            /\ exit' = "accepted" => Gone(workspace') /\ ~linked'
        <5>1. CASE workspace' \in {"none", "registered"} /\ linked' = FALSE
          BY <2>10, <3>3, <5>1 DEF Clean
        <5>2. CASE workspace' = "left"
          BY <2>10, <3>3, <5>2 DEF Clean
        <5> QED
          BY <2>10, <5>1, <5>2 DEF Clean
      <4> QED
        BY <3>1, <4>1 DEF Tracks
    <3> QED
      BY <3>2, <3>3
  <2>11. CASE AcceptPush
    BY <2>11 DEF AcceptPush, vars, Tracks, Validated
  <2> QED
    BY HookCases, <2>0, <2>1, <2>2, <2>3, <2>4, <2>5, <2>6, <2>7, <2>8, <2>9, <2>10, <2>11
<1> QED
  BY <1>1, <1>2, PTL

(* NothingLeftBehind: a hook that answers yes has cleaned up, for every plan,  *)
(* whichever copies, links and removals failed (exposed_frontend_dependencies, *)
(* _cleanup_detached_worktree).                                                *)
THEOREM NothingLeftBehind == QSpec => []NothingIsLeftBehind
<1>1. HookInv => NothingIsLeftBehind
  BY DEF HookInv, Tidy, Gone, NothingIsLeftBehind
<1> QED
  BY HookInvariant, <1>1, PTL DEF QSpec

(* A commit that neither the remote nor a tracking reference has is one that *)
(* the push introduces, through every reference that ends at the same commit.*)
LEMMA PushedPathsAreTargeted ==
  ASSUME NEW ups \in Pushes, Resolvable(ups), NEW t \in Targets(ups)
  PROVE  UNION {Paths[c] : c \in Unseen(t)} \subseteq TargetPaths(t, ups)
<1>1. PICK u \in ups : u.local = t /\ t # 0
  BY DEF Targets
<1>2. Unseen(t) \subseteq Introduced(u)
  <2>1. CASE u.remote # 0
    <3>1. u.remote \in RemoteHeads
      BY <1>1, <2>1, PushAssumption DEF Resolvable
    <3>2. Ancestors[u.remote] \subseteq Known(RemoteHeads)
      BY <3>1 DEF Known
    <3> QED
      BY <1>1, <2>1, <3>2 DEF Introduced, Unseen
  <2>2. CASE u.remote = 0
    BY <1>1, <2>2 DEF Introduced, Unseen
  <2> QED
    BY <2>1, <2>2
<1>3. UNION {Paths[c] : c \in Introduced(u)} \subseteq TargetPaths(t, ups)
  BY <1>1 DEF TargetPaths
<1> QED
  BY <1>2, <1>3

(* A plan leaves out nothing of the paths that it was made from: a path whose  *)
(* tests are not known, or are all the tests, makes the plan complete.         *)
LEMMA PlansCoverTheirPaths ==
  ASSUME NEW mode, NEW profile, NEW paths, NEW part \in SUBSET paths
  PROVE  Covers(Plan(mode, profile, paths), part)
<1> DEFINE r == Resolution(mode, paths)
<1>1. CASE r.level = "massive"
  BY <1>1 DEF Covers, Plan
<1>2. CASE r.level # "massive"
  <2>1. /\ \A k \in paths : Domain(k) # "none" /\ Level(k) # "massive"
        /\ r.backend = {k \in paths : Domain(k) = "backend"}
        /\ r.frontend = {k \in paths : Domain(k) = "frontend"}
    BY <1>2 DEF Resolution, Classification
  <2>2. ASSUME NEW k \in paths
        PROVE  k = "documentation" \/ k \in r.backend \cup r.frontend
    <3>1. Domain(k) \in {"documentation", "backend", "frontend"}
      BY <2>1, Zenon DEF Domain
    <3>2. Domain(k) = "documentation" => k = "documentation"
      BY <2>1 DEF Domain, Level
    <3> QED
      BY <2>1, <3>1, <3>2
  <2>3. Plan(mode, profile, paths).suites = r.backend \cup r.frontend
    BY DEF Plan
  <2> QED
    BY <2>2, <2>3 DEF Covers
<1> QED
  BY <1>1, <1>2

(* PushedChangesAreCovered: what an accepted push brings, and neither the      *)
(* remote nor a tracking reference has, is covered by a green gate, whatever   *)
(* the merges, the number of references and the commits that they share, and   *)
(* however far the tracking references are from the remote                     *)
(* (build_push_validation_plan, resolve_tests).                                *)
THEOREM PushedChangesAreCovered == QSpec => []AcceptedChangesAreCovered
<1>1. HookInv => AcceptedChangesAreCovered
  <2> SUFFICES ASSUME HookInv, hook = "push", exit = "accepted", NEW t \in Targets(updates)
               PROVE  \E v \in validated :
                        /\ v[1] = t
                        /\ Covers(v[2], UNION {Paths[c] : c \in Unseen(t)})
    BY DEF AcceptedChangesAreCovered
  <2>1. /\ Resolvable(updates) /\ updates \in Pushes
        /\ Targets(updates) \subseteq {0} \cup Validated
        /\ \A v \in validated : v[2] = PushRun(v[1], updates).plan
    BY DEF HookInv, Tracks
  <2>2. PICK v \in validated : v[1] = t
    BY <2>1 DEF Validated, Targets
  <2>3. v[2] = Plan("push", DefaultProfile("push"), TargetPaths(t, updates))
    BY <2>1, <2>2 DEF PushRun
  <2>4. UNION {Paths[c] : c \in Unseen(t)} \subseteq TargetPaths(t, updates)
    BY <2>1, PushedPathsAreTargeted, Zenon
  <2> DEFINE part == UNION {Paths[c] : c \in Unseen(t)}
             paths == TargetPaths(t, updates)
  <2>5. Covers(v[2], part)
    <3>1. part \in SUBSET paths
      BY <2>4
    <3> HIDE DEF part, paths
    <3>2. Covers(Plan("push", DefaultProfile("push"), paths), part)
      BY <3>1, PlansCoverTheirPaths, Zenon
    <3> QED
      BY <2>3, <3>2, Zenon DEF paths
  <2> QED
    BY <2>2, <2>5, Zenon
<1> QED
  BY HookInvariant, <1>1, PTL DEF QSpec

(* A hook hands the executor plans of the contract only, and starts no         *)
(* execution before the end of another.                                        *)
LEMMA HooksOnlyExecute == HookInv /\ [QNext]_allVars => [Next]_vars
<1> SUFFICES ASSUME HookInv, [QNext]_allVars PROVE Next \/ UNCHANGED vars
  OBVIOUS
<1>1. ASSUME NEW paths \in Staged, StartCommit(paths) PROVE Next
  <2>1. CommitRun(paths) \in Runs
    BY GraphAssumption DEF HookRuns
  <2> QED
    BY <1>1, <2>1 DEF StartCommit, Next
<1>2. ASSUME NEW c \in CiPlans, StartCi(c) PROVE Next
  <2>1. CiRun(c) \in Runs
    BY GraphAssumption DEF HookRuns
  <2> QED
    BY <1>2, <2>1 DEF StartCi, Next
<1>3. ASSUME NEW t \in todo, NextTarget(t) PROVE Next
  <2>1. updates \in Pushes /\ Resolvable(updates) /\ t \in Targets(updates)
    BY <1>3 DEF NextTarget, HookInv, Tracks
  <2>2. PushRun(t, updates) \in Runs
    BY <2>1, GraphAssumption DEF HookRuns
  <2> QED
    BY <1>3, <2>2 DEF NextTarget, Next
<1>4. CASE ExecutePlan
  BY <1>4 DEF ExecutePlan, Next
<1>5. ASSUME NEW ups \in Pushes, StartPush(ups) PROVE UNCHANGED vars
  BY <1>5 DEF StartPush
<1>6. CASE Materialize \/ Expose \/ Return \/ Withdraw \/ Clean \/ AcceptPush
  BY <1>6 DEF Materialize, Expose, Return, Withdraw, Clean, AcceptPush
<1>7. CASE UNCHANGED allVars
  BY <1>7 DEF allVars
<1> QED
  BY HookCases, <1>1, <1>2, <1>3, <1>4, <1>5, <1>6, <1>7

(* HooksExecuteTheDag: seen through its executor, a hook is an execution of    *)
(* GateDag, however it prepares and removes its workspaces.                    *)
THEOREM HooksExecuteTheDag == QSpec => Spec
<1>1. QInit => Init
  BY DEF QInit
<1> QED
  BY HookInvariant, HooksOnlyExecute, <1>1, PTL DEF QSpec, Spec

(* HooksKeepTheGate: what a hook runs keeps the promise of Gate, one terminal  *)
(* commit after the other.                                                     *)
THEOREM HooksKeepTheGate == QSpec => ImplementsGate
  BY HooksExecuteTheDag, GateIsKept, PTL

(* HooksNeverStall: no plan of a hook, and no order of its nodes, makes the    *)
(* executor return code 2.                                                     *)
THEOREM HooksNeverStall == QSpec => []TheGraphNeverStalls
  BY HooksExecuteTheDag, NoStall, PTL

-----------------------------------------------------------------------------
(* What the last node reads.                                               *)

(* A node that has run had all that it needs before it; only busy nodes are  *)
(* ever pending; and a node runs in the current batch only.                  *)
Ordered ==
  /\ \A n \in completed \cap Scope(run) : Deps(n) \subseteq completed
  /\ pending \subseteq InitialPending(run)
  /\ \A n \in Active : outcomes[n] = "running" => phase = "run" /\ n \in batch

LEMMA OrderInvariant == Spec => []Ordered
<1> USE DEF Active, Ordered
<1>1. Init => Ordered
  BY DEF Init
<1>2. TypeOK /\ Coherent /\ Ordered /\ [Next]_vars => Ordered'
  <2> SUFFICES ASSUME TypeOK, Coherent, Ordered, [Next]_vars PROVE Ordered'
    OBVIOUS
  <2>0. CASE UNCHANGED vars
    BY <2>0 DEF vars, Deps
  <2>1. ASSUME NEW r \in Runs, Begin(r) PROVE Ordered'
    BY <2>1, RunFacts DEF Begin
  <2>2. CASE Choose
    BY <2>2 DEF Choose, Deps
  <2>3. ASSUME NEW n \in Active, FailNode(n) PROVE Ordered'
    BY <2>3 DEF FailNode, Deps, TypeOK
  <2>4. ASSUME NEW n \in Active, RaiseInNode(n) PROVE Ordered'
    BY <2>4 DEF RaiseInNode, Deps, TypeOK
  <2>5. ASSUME NEW n \in Active, FinishNode(n) PROVE Ordered'
    BY <2>5 DEF FinishNode, Deps, TypeOK
  <2>6. ASSUME NEW n \in Active, NEW m \in Active, Overwrite(n, m) PROVE Ordered'
    BY <2>6 DEF Overwrite, Deps
  <2>7. CASE Interrupt
    BY <2>7 DEF Interrupt, Deps
  <2>8. CASE HarvestRaise
    BY <2>8 DEF HarvestRaise, Joined, Deps
  <2>9. CASE HarvestFailure \/ HarvestSuccess
    <3>1. PICK read \in SUBSET batch :
            pending' = pending \ read /\ completed' = completed \cup read
      BY <2>9 DEF HarvestFailure, HarvestSuccess
    <3>2. UNCHANGED <<run, outcomes>> /\ Joined
      BY <2>9 DEF HarvestFailure, HarvestSuccess
    <3>3. batch = Ready
      BY <3>2 DEF Joined, Coherent
    <3>4. \A n \in read : Deps(n) \subseteq completed
      BY <3>1, <3>3 DEF Ready
    <3> QED
      BY <3>1, <3>2, <3>4 DEF Joined, Deps
  <2>10. CASE Conclude
    BY <2>10 DEF Conclude, Deps
  <2> QED
    BY NextCases, <2>0, <2>1, <2>2, <2>3, <2>4, <2>5, <2>6, <2>7, <2>8, <2>9, <2>10
<1> QED
  BY <1>1, <1>2, Typing, Coherence, PTL DEF Spec

(* In a complete plan the static controls of the backend always run, and so  *)
(* do all the statistical nodes of a profile that has them.                  *)
LEMMA CompletePlans ==
  ASSUME NEW r \in Runs, r.plan.full
  PROVE  /\ "backend-static" \in Busy(r) /\ Aggregate \in r.plan.active
         /\ \/ r.plan.active = GateNode \ StatisticalNode
            \/ r.plan.active = GateNode /\ StatisticalNode \subseteq Busy(r)
<1>1. PICK mode, profile, paths : r.plan = Plan(mode, profile, paths)
  BY GraphAssumption DEF HookRuns, CommitRun, CiRun, PushRun
<1> DEFINE plan == Resolution(mode, paths)
<1>2. /\ r.plan.active = ActiveNodes(profile) /\ r.plan.commands = Commands(profile, plan)
      /\ plan.level = "massive"
  BY <1>1 DEF Plan
<1> HIDE DEF plan
<1>3. /\ "backend-static" \in ActiveNodes(profile) /\ "aggregate" \in ActiveNodes(profile)
      /\ r.plan.commands["backend-static"] = <<"ruff">>
  BY <1>2 DEF ActiveNodes, GateNode, BranchNode, StatisticalNode, Commands, When
<1>4. ASSUME profile # "pr", NEW n \in StatisticalNode
      PROVE  n \in ActiveNodes(profile) /\ r.plan.commands[n] # <<>>
  <2>1. n \in ActiveNodes(profile)
    BY <1>4 DEF ActiveNodes, GateNode
  <2>2. r.plan.commands[n] = StatisticalCommands(n)
    BY <1>2, <1>4, <2>1 DEF Commands, When, StatisticalNode
  <2>3. StatisticalCommands(n) # <<>>
    BY <1>4 DEF StatisticalCommands, StatisticalNode
  <2> QED
    BY <2>1, <2>2, <2>3
<1>5. r.plan.commands["backend-static"] # <<>>
  <2>1. <<"ruff">> # <<>>
    OBVIOUS
  <2> QED
    BY <1>3, <2>1
<1>6. "backend-static" \in Busy(r) /\ Aggregate \in r.plan.active
  BY <1>2, <1>3, <1>5, GraphAssumption DEF Busy
<1>7. CASE profile = "pr"
  BY <1>2, <1>6, <1>7 DEF ActiveNodes
<1>8. CASE profile # "pr"
  <2>1. StatisticalNode \subseteq Busy(r)
    BY <1>2, <1>4, <1>8 DEF Busy
  <2> QED
    BY <1>2, <1>6, <1>8, <2>1 DEF ActiveNodes
<1> QED
  BY <1>7, <1>8

(* When the last node of a complete plan is ready, every other one has run.  *)
LEMMA AggregationComesLast ==
  ASSUME TypeOK, Coherent, Ordered, run.mode = "parallel", run.plan.full, Aggregate \in Ready
  PROVE  Busy(run) \ {Aggregate} \subseteq completed
<1>1. run \in Runs /\ Scope(run) = Busy(run)
  BY DEF TypeOK, Scope
<1>2. \A n \in completed \cap Busy(run) : GateNeeds[n] \cap Active \subseteq completed
  BY <1>1, GraphAssumption DEF Ordered, Deps
<1>3. GateNeeds["aggregate"] \cap Active \subseteq completed
  BY GraphAssumption DEF Ready, Deps
<1>4. /\ "backend-static" \in Busy(run)
      /\ \/ Active = GateNode \ StatisticalNode
         \/ Active = GateNode /\ StatisticalNode \subseteq Busy(run)
  BY <1>1, CompletePlans DEF Active
<1>5. /\ GateNeeds["aggregate"] = BranchNode \cup {"statistical-consolidated-report"}
      /\ GateNeeds["backend-static"] = {"preflight"}
      /\ GateNeeds["statistical-consolidated-report"] =
           {"statistical-deterministic-parity", "statistical-exact-replay",
            "statistical-distributional-parity", "statistical-compatibility"}
      /\ GateNeeds["statistical-deterministic-parity"] = {"statistical-authorities"}
  BY DEF GateNeeds, GateNode, BranchNode, StatisticalNode
<1>6. BranchNode \subseteq completed /\ "preflight" \in completed
  BY <1>2, <1>3, <1>4, <1>5 DEF BranchNode, GateNode, StatisticalNode
<1>7. CASE Active = GateNode \ StatisticalNode
  BY <1>1, <1>6, <1>7, RunFacts, GraphAssumption DEF Active, GateNode
<1>8. CASE Active = GateNode /\ StatisticalNode \subseteq Busy(run)
  <2>1. "statistical-consolidated-report" \in completed
    BY <1>3, <1>5, <1>8 DEF GateNode, StatisticalNode
  <2>2. {"statistical-deterministic-parity", "statistical-exact-replay",
         "statistical-distributional-parity", "statistical-compatibility"} \subseteq completed
    BY <1>2, <1>5, <1>8, <2>1 DEF GateNode, StatisticalNode
  <2>3. "statistical-authorities" \in completed
    BY <1>2, <1>5, <1>8, <2>2 DEF GateNode, StatisticalNode
  <2>4. StatisticalNode \subseteq completed
    BY <2>1, <2>2, <2>3 DEF StatisticalNode
  <2> QED
    BY <1>1, <1>6, <1>8, <2>4, RunFacts, GraphAssumption DEF Active, GateNode
<1> QED
  BY <1>4, <1>7, <1>8

(* While the aggregation of a complete plan reads, it runs alone.            *)
Reading == outcomes[Aggregate] = "running" /\ run.mode = "parallel" /\ run.plan.full
ProofInv ==
  Reading => batch = {Aggregate} /\ \A n \in Busy(run) \ {Aggregate} : results[n] = "ok"

LEMMA ProofInvariant == Spec => []ProofInv
<1> USE DEF Active, ProofInv, Reading
<1>1. Init => ProofInv
  <2>1. ASSUME Init, Reading PROVE FALSE
    <3>1. run \in Runs /\ run.plan.full
      BY <2>1 DEF Init
    <3>2. Aggregate \in Active
      BY <3>1, CompletePlans
    <3> QED
      BY <2>1, <3>2 DEF Init
  <2> QED
    BY <2>1
<1>2. TypeOK /\ Coherent /\ Ordered /\ ProofInv /\ [Next]_vars => ProofInv'
  <2> SUFFICES ASSUME TypeOK, Coherent, Ordered, ProofInv, [Next]_vars, Reading'
               PROVE  batch' = {Aggregate} /\ \A n \in Busy(run') \ {Aggregate} : results'[n] = "ok"
    BY DEF Busy
  <2>a. run' \in Runs /\ Aggregate \in run'.plan.active
    <3>1. run' \in Runs
      BY NextCases DEF TypeOK, vars, Begin, Choose, FailNode, RaiseInNode, FinishNode, Overwrite,
           Interrupt, HarvestRaise, HarvestFailure, HarvestSuccess, Conclude
    <3> QED
      BY <3>1, CompletePlans
  <2>0. CASE UNCHANGED vars
    BY <2>0 DEF vars, Busy
  <2>1. ASSUME NEW r \in Runs, Begin(r) PROVE FALSE
    BY <2>1, <2>a DEF Begin
  <2>2. CASE Choose
    <3>1. Aggregate \in Ready /\ Ready # {} /\ run' = run
      BY <2>2, <2>a, SomeNodeIsReady DEF Choose, Coherent, TypeOK, Ordered
    <3>2. Busy(run) \ {Aggregate} \subseteq completed
      BY <3>1, AggregationComesLast
    <3>3. batch' = Ready /\ results' = Restored
      BY <2>2, <3>1 DEF Choose
    <3>4. Ready \subseteq Busy(run) /\ Ready \cap completed = {}
      BY <3>1 DEF Ready, Ordered, InitialPending, TypeOK
    <3>5. batch' = {Aggregate}
      BY <3>1, <3>2, <3>3, <3>4
    <3>6. Busy(run) = Scope(run) /\ Busy(run) \subseteq Active
      BY <3>1, RunFacts DEF Scope, TypeOK
    <3> QED
      BY <3>1, <3>2, <3>3, <3>5, <3>6 DEF Restored
  <2>3. ASSUME NEW n \in Active, FailNode(n) \/ RaiseInNode(n) \/ FinishNode(n) PROVE FALSE
    <3>1. n # Aggregate /\ Reading /\ outcomes[n] = "running"
      BY <2>3, <2>a DEF FailNode, RaiseInNode, FinishNode, TypeOK
    <3> QED
      BY <3>1 DEF Ordered
  <2>4. ASSUME NEW n \in Active, NEW m \in Active, Overwrite(n, m) PROVE FALSE
    <3>1. Reading /\ outcomes[n] = "running"
      BY <2>4 DEF Overwrite
    <3>2. n = Aggregate /\ <<n, m>> \in Writes
      BY <2>4, <3>1 DEF Ordered, Overwrite
    <3> QED
      BY <3>2, GraphAssumption
  <2>5. CASE Interrupt
    BY <2>5 DEF Interrupt, Busy
  <2>6. CASE HarvestRaise \/ HarvestFailure \/ HarvestSuccess
    <3>1. Joined /\ UNCHANGED <<run, outcomes>>
      BY <2>6 DEF HarvestRaise, HarvestFailure, HarvestSuccess
    <3> QED
      BY <3>1, <2>a DEF Joined, Ordered
  <2>7. CASE Conclude
    BY <2>7, <2>a DEF Conclude, Ordered
  <2> QED
    BY NextCases, <2>0, <2>1, <2>2, <2>3, <2>4, <2>5, <2>6, <2>7
<1> QED
  BY <1>1, <1>2, Typing, Coherence, OrderInvariant, PTL DEF Spec

(* ProofsAreCurrent: the strategy report never reads a result of another       *)
(* execution, nor one that a command of another node wrote over, in any        *)
(* complete plan of any hook: what it needs has run, what has run is written   *)
(* again, and nothing else runs while it reads (_restore_current_results).     *)
THEOREM ProofsAreCurrent == QSpec => []ProofsAreOfThisRun
<1>1. ProofInv => ProofsAreOfThisRun
  BY DEF ProofInv, Reading, ProofsAreOfThisRun
<1> QED
  BY HooksExecuteTheDag, ProofInvariant, <1>1, PTL
=============================================================================
