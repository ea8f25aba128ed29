---------------------------- MODULE QualityGate ----------------------------
(***************************************************************************)
(* Scripts/quality_gate.py around the execution of a plan: the pre-commit  *)
(* hook (mode fast) works on a copy of the Git index, the pre-push hook on *)
(* a detached worktree per terminal commit, the complete local validation  *)
(* (mode ci) on a copy of the workspace, a CI job in its own checkout. The *)
(* frontend tools of the host are linked into an isolated workspace, and   *)
(* both are removed whatever the execution did.                            *)
(***************************************************************************)
EXTENDS GateDag, GatePlan

CONSTANTS
  Commit,        \* the commits of the repository, numbered after their parents
  Parents,       \* [Commit -> SUBSET Commit]
  Paths,         \* [Commit -> SUBSET Kind]: the paths that a commit changes
  RemoteHeads,   \* the heads of the remote
  Tracked,       \* the remote-tracking references of this repository
  Pushes,        \* sets of updates: [local, remote], 0 for no commit
  Staged,        \* sets of staged paths
  CiPlans        \* [profile, node]: the automation runs, node "all" for complete

ASSUME RepositoryAssumption ==
  /\ Commit \subseteq Nat \ {0}
  /\ \A c \in Commit : Parents[c] \subseteq {p \in Commit : p < c}
  /\ Tracked \subseteq Commit /\ RemoteHeads \subseteq Commit

VARIABLES
  hook,       \* "commit", "push" or "ci"
  stage,      \* "idle", "prepare", "expose", "gate", "withdraw", "clean", "done"
  updates,    \* the references that are pushed
  todo,       \* terminal commits still to validate
  target,     \* the terminal commit being validated, 0 outside a push
  workspace,  \* "none", "ready", "left" when its removal failed, "registered"
              \* when Git still lists a worktree whose directory is gone
  linked,     \* the host tools are exposed in the workspace
  verdict,    \* of the current workspace: "none", "accepted" or "refused"
  exit,       \* of the hook: "none", "accepted" or "refused"
  validated   \* terminal commits validated by a green gate, with its plan

hookVars ==
  <<hook, stage, updates, todo, target, workspace, linked, verdict, exit, validated>>
allVars == <<vars, hookVars>>

Ancestors[c \in Commit] == {c} \cup UNION {Ancestors[p] : p \in Parents[c]}
Known(heads) == UNION {Ancestors[c] : c \in heads}

(* What a terminal commit has that neither the remote nor this repository's *)
(* picture of it has.                                                       *)
Unseen(t) == Ancestors[t] \ (Known(RemoteHeads) \cup Known(Tracked))

(* Faulty variant: only the terminal commit of an update is looked at. *)
IntroducedTip(u) == {u.local} \ {0}

(* _revision_args_for_update and rev-list: the commits that an update brings. *)
(* A new reference that brings nothing stands for its terminal commit.        *)
Introduced(u) ==
  IF u.local = 0 THEN {}
  ELSE IF u.remote # 0 THEN Ancestors[u.local] \ Ancestors[u.remote]
  ELSE IF Ancestors[u.local] \subseteq Known(Tracked) THEN {u.local}
  ELSE Ancestors[u.local] \ Known(Tracked)

(* build_push_validation_plan: one target per terminal commit, with the paths *)
(* of all the updates that end there.                                         *)
Targets(ups) == {u.local : u \in ups} \ {0}
TargetPaths(t, ups) ==
  UNION {UNION {Paths[c] : c \in Introduced(u)} : u \in {v \in ups : v.local = t}}

(* resolve_commit_sha: the tip of the remote may be unknown here, which does *)
(* not matter for a reference that is deleted.                               *)
Resolvable(ups) == \A u \in ups : u.local = 0 \/ u.remote = 0 \/ u.remote \in Commit

(* The plan of the index, of a terminal commit, of a CI job (run_gate,         *)
(* run_pre_push_gate), and how it is executed.                                 *)
CommitRun(paths) ==
  [plan |-> Plan("fast", DefaultProfile("fast"), paths), mode |-> "parallel"]
PushRun(t, ups) ==
  [plan |-> Plan("push", DefaultProfile("push"), TargetPaths(t, ups)), mode |-> "parallel"]
CiRun(c) ==
  [plan |-> Plan("ci", c.profile, {}), mode |-> IF c.node = "all" THEN "parallel" ELSE c.node]

HookRuns ==
  {CommitRun(paths) : paths \in Staged} \cup {CiRun(c) : c \in CiPlans}
    \cup UNION {{PushRun(t, ups) : t \in Targets(ups)} : ups \in {u \in Pushes : Resolvable(u)}}

(* The graph is the one of config/test-execution-profiles.json. The commands   *)
(* of the last node read the results of the others and write reports only.     *)
ASSUME GraphAssumption ==
  /\ Node = GateNode /\ Needs = GateNeeds /\ Aggregate = "aggregate"
  /\ Runs = HookRuns
  /\ \A w \in Writes : w[1] # Aggregate

(* git gives the pre-push hook the head that an updated reference has on the   *)
(* remote. The tracking references are only what was last fetched: the remote  *)
(* may have more by now, and may have lost branches that they still name.      *)
ASSUME PushAssumption ==
  \A ups \in Pushes : \A u \in ups : u.remote \in Commit => u.remote \in RemoteHeads

QInit ==
  /\ Init
  /\ hook = "none" /\ stage = "idle" /\ updates = {} /\ todo = {} /\ target = 0
  /\ workspace = "none" /\ linked = FALSE /\ verdict = "none" /\ exit = "none"
  /\ validated = {}

-----------------------------------------------------------------------------
(* run_gate: the plan comes from the index (fast) or from the profile. *)
StartCommit(paths) ==
  /\ stage = "idle"
  /\ hook' = "commit" /\ stage' = "prepare"
  /\ Begin(CommitRun(paths))
  /\ UNCHANGED <<updates, todo, target, workspace, linked, verdict, exit, validated>>

StartCi(c) ==
  /\ stage = "idle"
  /\ hook' = "ci"
  /\ stage' = IF c.node = "all" /\ c.profile # "pr" THEN "prepare" ELSE "expose"
  /\ Begin(CiRun(c))
  /\ UNCHANGED <<updates, todo, target, workspace, linked, verdict, exit, validated>>

(* run_pre_push_gate: no update is a success, a reference that does not *)
(* resolve is a refusal, and so is nothing else yet.                    *)
StartPush(ups) ==
  /\ stage = "idle"
  /\ hook' = "push" /\ updates' = ups
  /\ IF ~Resolvable(ups)
     THEN exit' = "refused" /\ stage' = "done" /\ todo' = {}
     ELSE exit' = "none" /\ stage' = "idle-push" /\ todo' = Targets(ups)
  /\ UNCHANGED <<vars, target, workspace, linked, verdict, validated>>

NextTarget(t) ==
  /\ stage = "idle-push" /\ t \in todo
  /\ target' = t /\ todo' = todo \ {t} /\ stage' = "prepare"
  /\ Begin(PushRun(t, updates))
  /\ UNCHANGED <<hook, updates, workspace, linked, verdict, exit, validated>>

-----------------------------------------------------------------------------
Isolated == hook # "ci" \/ (run.mode = "parallel" /\ run.plan.profile # "pr")

(* staged_index_snapshot, workspace_snapshot, detached_commit_worktree. *)
Materialize ==
  /\ stage = "prepare"
  /\ \/ workspace' = "ready" /\ stage' = "expose" /\ verdict' = verdict
     \/ workspace' = "none" /\ stage' = "clean" /\ verdict' = "refused"
  /\ UNCHANGED <<vars, hook, updates, todo, target, linked, exit, validated>>

NeedsFrontend ==
  \E n \in Scope(run) : run.plan.commands[n] # <<>> /\ UsesFrontendTools(n)

(* _ensure_frontend_dependencies and exposed_frontend_dependencies: the tools *)
(* may be missing on the host, the link may be impossible to make.            *)
Expose ==
  /\ stage = "expose"
  /\ \/ linked' = (NeedsFrontend /\ Isolated) /\ stage' = "gate" /\ verdict' = verdict
     \/ NeedsFrontend /\ linked' = FALSE /\ stage' = "clean" /\ verdict' = "refused"
  /\ UNCHANGED <<vars, hook, updates, todo, target, workspace, exit, validated>>

(* The nodes run: GateDag. *)
ExecutePlan ==
  /\ stage = "gate"
  /\ Execute
  /\ UNCHANGED hookVars

Return ==
  /\ stage = "gate" /\ phase = "done"
  /\ verdict' = IF code = "green" THEN "accepted" ELSE "refused"
  /\ stage' = "withdraw"
  /\ UNCHANGED <<vars, hook, updates, todo, target, workspace, linked, exit, validated>>

(* The link is removed whatever happened; a removal that fails is an error. *)
Withdraw ==
  /\ stage = "withdraw" /\ stage' = "clean"
  /\ \/ linked' = FALSE /\ verdict' = verdict
     \/ linked /\ linked' = linked /\ verdict' = "refused"
  /\ UNCHANGED <<vars, hook, updates, todo, target, workspace, exit, validated>>

(* Faulty variant: a workspace that resists is only logged. *)
CleanLenient ==
  /\ stage = "clean" /\ verdict' = "none" /\ target' = 0
  /\ workspace' \in {"none", IF workspace = "ready" THEN "left" ELSE "none"}
  /\ linked' = (workspace' = "left" /\ linked)
  /\ validated' = IF verdict = "accepted" /\ hook = "push"
                  THEN validated \cup {<<target, run.plan>>} ELSE validated
  /\ IF hook = "push" /\ verdict = "accepted"
     THEN stage' = "idle-push" /\ exit' = exit
     ELSE stage' = "done" /\ exit' = verdict
  /\ UNCHANGED <<vars, hook, updates, todo>>

(* The temporary workspace is removed. A failure that says something, or    *)
(* that leaves the directory, is never a success; a "git worktree remove"   *)
(* that fails without a word leaves its entry in the list of worktrees. A   *)
(* push goes on with the next terminal commit after a success only.         *)
Clean ==
  /\ stage = "clean"
  /\ LET clean(v) ==
           /\ validated' = IF v = "accepted" /\ hook = "push"
                           THEN validated \cup {<<target, run.plan>>} ELSE validated
           /\ verdict' = "none" /\ target' = 0
           /\ IF hook = "push" /\ v = "accepted"
              THEN stage' = "idle-push" /\ exit' = exit
              ELSE stage' = "done" /\ exit' = v
     IN \/ workspace' = "none" /\ linked' = FALSE /\ clean(verdict)
        \/ /\ workspace = "ready" /\ hook = "push"
           /\ workspace' = "registered" /\ linked' = FALSE /\ clean(verdict)
        \/ workspace = "ready" /\ workspace' = "left" /\ linked' = linked /\ clean("refused")
  /\ UNCHANGED <<vars, hook, updates, todo>>

AcceptPush ==
  /\ stage = "idle-push" /\ todo = {}
  /\ stage' = "done" /\ exit' = "accepted"
  /\ UNCHANGED <<vars, hook, updates, todo, target, workspace, linked, verdict, validated>>

(* The hook has returned. *)
Ended == stage = "done" /\ UNCHANGED allVars

QNext ==
  \/ \E paths \in Staged : StartCommit(paths)
  \/ \E c \in CiPlans : StartCi(c)
  \/ \E ups \in Pushes : StartPush(ups)
  \/ \E t \in todo : NextTarget(t)
  \/ Materialize \/ Expose \/ ExecutePlan \/ Return \/ Withdraw \/ Clean \/ AcceptPush
  \/ Ended

(* What the hook waits for without a timeout: git and the copies that make   *)
(* and remove a workspace, the commands of the nodes (subprocess.run).       *)
Waiting ==
  \/ stage \in {"prepare", "clean"}
  \/ stage = "gate" /\ \E n \in batch : outcomes[n] = "running"

(* The hook's own steps are taken; nothing is assumed of what it waits for,  *)
(* and nobody has to interrupt.                                              *)
Fairness ==
  /\ WF_allVars(Expose) /\ WF_allVars(Return) /\ WF_allVars(Withdraw) /\ WF_allVars(AcceptPush)
  /\ WF_allVars(\E t \in todo : NextTarget(t))
  /\ WF_allVars(stage = "gate" /\ (Choose \/ Harvest \/ Conclude) /\ UNCHANGED hookVars)

QSpec == QInit /\ [][QNext]_allVars /\ Fairness

-----------------------------------------------------------------------------
(* ProofsAreOfThisRun: while the strategy report reads the results of the    *)
(* nodes, each of them is the green result of this execution: not one of an  *)
(* earlier execution in the same workspace, and not what a command of        *)
(* another node wrote over it (_restore_current_results).                    *)
ProofsAreOfThisRun ==
  (/\ outcomes[Aggregate] = "running" /\ run.mode = "parallel" /\ run.plan.full)
    => \A n \in Busy(run) \ {Aggregate} : results[n] = "ok"

(* AcceptedChangesAreCovered: when a push is accepted, each terminal commit  *)
(* has had a green gate whose plan covers every path of every commit that is *)
(* neither on the remote nor behind a tracking reference, however many       *)
(* references end there (build_push_validation_plan, resolve_tests).         *)
AcceptedChangesAreCovered ==
  hook = "push" /\ exit = "accepted" =>
    \A t \in Targets(updates) :
      \E v \in validated :
        v[1] = t /\ Covers(v[2], UNION {Paths[c] : c \in Unseen(t)})

(* NothingIsLeftBehind: a hook that reports a success has removed the link   *)
(* to the host tools and the directory it worked in; at most Git still lists *)
(* the worktree (exposed_frontend_dependencies, _cleanup_detached_worktree). *)
NothingIsLeftBehind == exit = "accepted" => workspace \in {"none", "registered"} /\ ~linked

(* EveryHookEnds: a hook that has started gives its answer, unless git or a  *)
(* command it waits for never ends; a node that fails, raises or is          *)
(* interrupted holds nobody back (_execute_parallel, run_pre_push_gate).     *)
EveryHookEnds == (stage # "idle") ~> (stage = "done" \/ []Waiting)
=============================================================================
