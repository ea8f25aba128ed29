# Verification of monte-carlo-azure in TLA+

Monte Carlo Azure forecasts deliveries from the history of an Azure DevOps team.
A React application in the browser talks to Azure DevOps directly, collects the
weekly throughput of a team, and asks a small FastAPI service to simulate; the
service keeps an anonymous history of the simulations in MongoDB.  The same
repository holds the quality infrastructure that gates every change.

This directory models the parts of that code whose correctness depends on the
order of events, and the statistical definitions it is built on.  The modules
are translated from the source; `PROJECT.json` gives, for every definition, the
lines it stands for.

## Inventory

### Backend (`src/backend`)

| Component | State | Operations | Interacts with |
| --- | --- | --- | --- |
| `simulation_store.py` | `_client`, `_collection`, `_lock`; the MongoDB collection and its TTL index | `connect`, `_reset_client`, `_run_with_reconnect`, `save_simulation`, `list_recent`, `ping`, `close` | called from pool threads by the routes, from the lifespan by `api.py` |
| `Scripts/purge_inactive_clients.py`, `scrub_simulation_identity.py` | none of their own; the same collection | purge the documents of inactive browsers, remove identity fields | run beside the service, against the same collection |
| `api_routes_simulate.py` | the limiter's warning state, request-scoped background tasks | `POST /simulate`, `GET /simulations/history`, limiter checks | store, simulation service, Redis |
| `simulation_service.py`, `mc_core.py`, `mca_prng_v1_sample_index_draw_port.py` | the generator's state | draw, cumulate, censor, percentiles | pure, called in a pool thread |
| `histogram.py`, `risk_score.py`, `throughput_reliability.py`, `simulation_value_objects.py` | none | pure definitions and their invariants | service, mappers |
| `simulation_mappers.py`, `api_models.py`, `api_config.py`, `api_static.py` | none | conversions, configuration, static files | routes |

### Frontend (`src/frontend/src`)

| Component | State | Operations | Interacts with |
| --- | --- | --- | --- |
| `hooks/useOnboarding.ts` | PAT, organisation, projects, teams, step, loading flags | submit, go to projects, go to teams, back, disconnect | Azure DevOps through `adoClient.ts`, asynchronously |
| `hooks/useTeamOptions.ts`, `useSimulationQuickFilters.ts` | options of the selected team, persisted filters | load, reset, apply, persist | Azure DevOps, `localStorage` |
| `hooks/useSimulation.ts`, `simulationForecast*.ts`, `utils/simulationSignature.ts` | selected parameters, executed simulation, result, history | run, reset, restore, replay by seed | Azure DevOps, backend, history |
| `hooks/useSimulationHistory.ts`, `storage/*` | at most ten entries, `localStorage` | push, clear, migrate | `useSimulation` |
| `hooks/usePortfolio.ts`, `usePortfolioReport.ts` | selected teams, modal, options cache, report progress | add, remove, load options, generate report | Azure DevOps, backend |
| `adoClient.ts`, `adoErrors.ts`, `adoPlatform.ts` | two maps of requests in flight | profile, collections, projects, teams, delivery data in batches | Azure DevOps |
| `domain/*`, `utils/*` | none | the TypeScript twins of the statistics, diagnostics, cycle time | hooks, components |
| `components/*`, PDF and SVG rendering | view state only | rendering and export | hooks |

### Quality infrastructure (`src/Scripts`, `src/config`, `src/contracts`)

| Component | State | Operations |
| --- | --- | --- |
| `quality_gate_dag.py`, `test_execution_profiles*.py` | completed nodes, results on disk | sequential and parallel execution of a profile, aggregation |
| `quality_gate.py`, `quality_gate_plan.py`, `quality_gate_change_policy.py`, `quality_gate_workspace_snapshot.py` | worktrees, snapshots, the link to the host's tools | hooks of commit and push, CI job, change policy, plan of commands, isolation |
| `git_staging.py`, `pre_commit_guard.py` | the Git index | stage, check, restore |
| `run_statistical_*`, `generate_statistical_*` | four proofs and a report on disk | replay, parity, distribution, compatibility, consolidation |
| `statistical_main_*`, `quality_gate_statistical_*` | attestations on disk | verify what is required, judge a proof, attest it |
| `test_classification_*`, `test_governance_*`, `test_strategy_*`, `report_*`, `check_*`, `maintainability_*`, `dependency_graph*`, `backlog_atomicity_*` | reports | static analyses of the repository |

## Where it is hard

* Threads of the server share one MongoDB client; only part of its accesses take
  the lock (`SimulationStore`).
* Writes are retried after a lost reply; another program deletes from the same
  collection; a TTL monitor does too (`HistoryRetention`).
* A simulation outlives its HTTP timeout; persistence runs after the answer.
* The browser's answers arrive after the user has moved on: disconnection, change
  of team, change of organisation.
* Batches and simulations of a portfolio run in parallel and fail one by one.
* The gate runs its nodes in parallel and must never turn green by accident: its
  nodes share one directory of results, which earlier executions and the commands
  themselves also write.
* What a push has to validate is computed from references that are those of the
  last fetch, and executed in a workspace that has to be removed whatever happens.
* A statistical proof is written by one command, attested by another, required by
  a third and read again by the consolidated report; sources, commits and proofs
  change in between, and a run of one node leaves all of it to the next.

## What makes each component correct

* **Store**: one client at a time, none leaked, none closed twice; a request
  ends, and fails only if the environment did; an acknowledged save has written.
* **Retention**: an acknowledged save rejuvenates the whole history of its
  browser; neither deletion takes the history of an active one; idle history goes.
* **TTL index**: workers that repair the same index concurrently, and die in the
  middle, leave the right index and all end up serving.
* **Routes**: every request is answered in bounded time whatever the
  computations do; only an answered result is saved; the pool never shrinks.
* **Rate limiter**: the limit is shared by the workers while Redis lasts, and
  nothing goes unlimited without a warning in the log.
* **Engines**: both languages give simulation *i* the outcome of its own draws,
  whatever the batches and early stops, and publish the same numbers.
* **Statistics**: a published percentile, score or histogram says of the
  population exactly what `docs/standards/STD-STAT-001.md` says it means.
* **Team filters**: the screen shows the options of its own team; what is selected
  is visible, unless a restored entry brought it; what is stored for a team is that
  team's.
* **Forecast session**: a displayed result answers the parameters displayed; a
  seed is replayed for its own configuration only; loading ends.
* **Onboarding**: no screen past the login without a token, and lists that belong
  to the selected organisation and project, however late the answers come.
* **Portfolio**: each section holds its own team's samples and seed; the progress
  counts every simulation once; a failing team takes nothing else with it.
* **Delivery client**: two callers of one key share one request and one outcome; a
  partial history is never silent.
* **Gate**: green only if every node of this execution succeeded, in either mode,
  whatever earlier executions left on disk; it always answers; what it lets through
  is covered by the plan that it ran; nothing it set up is left behind.
* **Statistical controls**: an attestation that verifies tells the truth about the
  sources as they are now; a run is red only for a cause; the two readers of a proof
  agree.
* **Staging**: after any failure the index is what it was.

The remaining components convert, render or report; they keep no state between
two calls, and their correctness is a matter of unit tests.

## Modules

| Module | Code | State and actions |
| --- | --- | --- |
| `SimulationStore` | `simulation_store.py`, the lifespan of `api.py` | the store's three attributes, the clients built and open; each thread's program counter, attempt and local handle. One action per read or write of a shared attribute, because only part of them are under the lock; one per driver call, with its failures before or after it takes effect |
| `HistoryWrites` | the promise of `save_simulation` | copies written and last update, per request; the abstract specification of `SimulationStore` |
| `HistoryRetention` | `save_simulation`, `purge_inactive_clients.py`, MongoDB's TTL monitor (external) | documents with their `last_seen`; saves that visit documents one by one; the script's selection and per-browser deletions; a clock |
| `TtlIndex` | `_ensure_indexes` | the index and one program counter per worker; one action per command |
| `SimulateRequests` | `POST /simulate`, `GET /simulations/history` | request, computation and background task of each simulation; the tokens of the thread pool (external) |
| `RateLimiter` | `ObservableLimiter` | Redis counters (external), and per worker the warning state and the log |
| `McaPrng`, `Statistics` | generator; percentiles, score, histogram | pure operators |
| `Forecast` | what an engine computes | the abstract specification of both engines |
| `ForecastEngines` | `mc_core.py`, `mca_prng_v1_*`, `simulation.ts` | the two engines side by side on one command: batches for Python, weeks for TypeScript |
| `Population` | the statistics of a growing population | a multiset of outcomes; used to check `Statistics` after every simulation |
| `TeamFilters` | `useTeamOptions.ts`, `useSimulationQuickFilters.ts`, the selection in `useSimulation.ts` | screen, team, selection, options, requests in flight with their `active` flag, stored filters per team, and the history with the identity of each entry's array of types: React compares arrays by identity, and the effect that drops the states no longer offered runs only when `types` or `statesByType` is another one |
| `ForecastSession` | `useSimulation.ts`, `simulationSignature.ts`, `useSimulationHistory.ts` | parameters, result, executed signature, replay context, runs in flight, history |
| `Gate` | the promise of the gate | what of a plan has succeeded, the verdict; the abstract specification of `GateDag` |
| `GateDag` | `quality_gate_dag.py`, `test_execution_profiles_runner.py` | states of the nodes, results on disk, the batch in progress, the outcomes read; start of a batch, end of a node, reading, restoration, interruption |
| `GatePlan` | `quality_gate_plan.py`, `quality_gate_change_policy.py`, `config/test-execution-profiles.json`, `quality_gate_statistical_plan.py` | operators: the contract's graph, the resolution of changes, the commands of each node |
| `QualityGate` | `quality_gate.py`, `quality_gate_workspace_snapshot.py` | the hooks of commit and push and the CI job around `GateDag`: targets, workspaces, tools, removal |
| `StatisticalParity` | corpus runner, parity report, exact replay | operators: what each script writes for given engines and corpus |
| `StatisticalDistribution` | `statistical_distribution_*`, `run_statistical_distribution.py` | operators: regions, permutation tests, Holm's adjustment, verdicts, evidence |
| `StatisticalCompatibility` | `statistical_compatibility_*` | operators: releases, evolution against the accepted authority, drift, evidence |
| `StatisticalReport` | `statistical_main_evidence.py`, `statistical_consolidated_*` | operators: the two readers of the proofs |
| `StatisticalMain` | `statistical_main_enforcement*.py`, `statistical_main_policy.py`, the statistical nodes of the gate | sources in the workspace, in HEAD and in the run; documents and attestations on disk; one action per generating script, one for the controls, edits, commits and both kinds of run |

`QualityGate` EXTENDS `GateDag` and `GatePlan`; `StatisticalMain` takes the
statistical nodes, their dependencies and their scripts from `GatePlan`.  In the
gate a node succeeds or fails; in `StatisticalMain` the same nodes do what their
commands do.  `MC*` modules give TLC its instances.  `*Proofs` modules hold the theorems.
Definitions named *Faulty variant* are plausible mistakes in the definition that
follows them; each property of a run fails when one of them takes its place, as
`PROJECT.json` records under `mutants`.  No specification uses them.

In the frontend modules an action is a user event or a network answer together
with the effects React runs before the next event: state updates are batched and
effects flushed before another event is handled.  What stays interleaved is what
really is: the answers.  A team of `TeamFilters` and a scope of `ForecastSession`
stand for an organisation, a project and a team.

## Runs

`tlc -config X.cfg M`, as listed in `PROJECT.json`.

| Run | Question | Bounds |
| --- | --- | --- |
| `store` | Can threads break, leak or starve each other through the shared client? Does it do what `HistoryWrites` says? | two requests of any kind and the lifespan, three faults: each request can use its retry while the other rebuilds, and the lifespan may close in between |
| `retention` | What do saves, the TTL monitor and the purge do to each other's documents? | two browsers, two saves with two attempts each, a failure or crash, five instants with a retention of two |
| `ttl_index` | Do concurrent and interrupted repairs settle? | three workers (the image's two and one more, as in a rolling restart), three failures, any initial index |
| `simulate` | Who waits for whom behind computations that never end? | three simulations and a history for two threads |
| `rate_limit` | What can a worker's memory of an outage let through? | two workers, two outages, limit 2, five requests |
| `engines` | Do the engines agree draw by draw? | a generator of 16 words, horizon 3, five simulations, batches of 1, 2, 3 and 7 (cut, exact and larger than the work), histories with zeros and one without any delivery |
| `population` | Do the published numbers mean what the standard says? | every population of up to ten simulations with values 0 to 5: all the ranks at which P50, P70 and P90 round, all the widths for three buckets |
| `filters` | Can a late or failed answer show the wrong thing? | two teams, four visits, three edits; the second team gets no states and falls back; a history of three stored entries, two of them with the same types, and room for the one of a run |
| `session` | Can a late answer, a restoration or a replay show the wrong thing? | two projects with a team of the same name, three runs, three edits, a history of two that starts with two stored entries, one of them without its seed |
| `gates` | Can a hook or a CI job turn green by accident, hang, or leave something behind? | the fourteen nodes of the contract; five commits with a merge, nine pushes, tracking references that lack a commit of the remote and still have one that it has lost, two staged changes, four CI jobs; up to two nodes of a batch that fail or raise, an interruption, a removal that fails, aloud or silently; any command may never end |
| `statistical` | Can a control speak for sources that it has not judged? | nineteen source trees, twenty-one starts, four edits, two events (edits at any time, between two commands of a run in the workspace included; bridges that fail; nodes run again); two cases, two probes, three metrics, four batch sizes, two components |

One run refutes what the repository says of itself: `restored_states`.  A test of
`useSimulation` says that it "filters obsolete states"
(`useSimulation.test.tsx:154`), but the effect that does so
(`useSimulation.ts:234-236`) waits for a new array of types or new options.  An entry
of the history that is restored twice in a row sets the same array again, and its
states stay selected without a checkbox (`useSimulation.ts:427`).
`HiddenStatesAreRestored` says that this is the only way to get such a state, and
that the next change of the types or of the options drops it.

Other behaviours were met while modelling.  They are part of the models, and are
described here rather than stated as properties:

* One `PyMongoError` is enough for a request to fail when two are in flight: each
  thread closes whatever client is installed (`simulation_store.py:186`), so one
  closes the client the other has just rebuilt and uses up its single retry.
* `assert self._collection is not None` (`simulation_store.py:164`) reads without
  the lock and can fail after another thread's reset; the `AssertionError` is not
  retried.
* The purge selects browsers by `last_seen` and deletes by browser alone
  (`purge_inactive_clients.py:41`), as `docs/backend-responsibilities-map.md:38`
  describes it: a save acknowledged in between is deleted too.
* Of two workers that repair the same index, the later one may get *index not
  found* and fail to start; it starts again (`DropNothing` in `TtlIndex`).
* On the first commit of the simulation screen the persistence effect runs with the
  new team's key and the previous team's selection
  (`useSimulationQuickFilters.ts:39`), against
  `docs/frontend-responsibilities-map.md:88`.
* A disconnection clears the loading flag of a pending run (`useSimulation.ts:408`),
  after which the same simulation can be launched again.
* With a plan of documentation only, the node `aggregate` runs beside the others
  (`quality_gate_dag.py:153`), where `docs/test-classification.md:155` has it depend
  on the six branches.
* The commits that a push has to validate are those that no tracking reference has
  (`quality_gate.py:354-362`).  A branch deleted or rewritten on the remote, and not
  pruned here, takes its commits out of the plan although the remote no longer has
  them.  `AcceptedChangesAreCovered` is about the commits that neither the remote nor
  the tracking references have.
* A `git worktree remove` that fails without a word is not reported
  (`quality_gate.py:1204-1212`): the directory is removed anyway, and Git still lists
  the worktree (`registered` in `QualityGate`).
* The commands of the gate have no timeout (`quality_gate.py:1030`): one that hangs
  hangs its hook.
* In a run of one node in the workspace, the snapshot of an attestation is taken when
  it is written (`statistical_main_enforcement_common.py:113`): sources edited after
  the generation of a proof are attested with the proof of those before.
  `ControlsAreTrue` excepts the controls in `torn`: the control attested so, and those
  passed on its attestation, until they are passed again.
* `_execute_sequential` is reached by neither `run_gate` nor `run_pre_push_gate`, and
  `_execute_commands_sequentially` only without a contract file.
* An attestation carries no identity of its run: an earlier one with the same
  snapshot and the same bytes is accepted, where
  `docs/statistical-main-enforcement.md:100-101` speaks of refusing those of an
  earlier run.  `ControlsAreTrue` shows that what it says still holds.
* The accepted authority is that of HEAD in the live repository, also for a run in a
  copy (`statistical_compatibility_evolution.py:53`).  In a run that follows the
  commit, a CI job for instance, an authority is compared with itself; a rewritten
  release is refused only before it is committed, by a run of the profile main.  A
  commit during a complete run changes what the run compares with.
* A component on which another depends cannot be released alone: the other one's
  dependency then names a version that is not the current one, and its manifest
  cannot change without a release of its own.
* When the distributional evidence is invalid the generator of the consolidated
  report raises `KeyError` (`Crashes`) and leaves the report of an earlier run; its
  control refuses that report.
* The contract lists a command, *Blocking consolidated statistical verdict*
  (`config/test-execution-profiles.json:153`), that the plan never produces.

The bounds are chosen so that every action fires, every order of the listed hazards
fits, and each faulty variant is caught; they are constants of the modules (`MaxFaults`, `MaxTime`, `MaxVisits`,
`MaxEdits`, `MaxHistory`, `MaxRuns`, `MaxOutages`, `MaxRequests`, `MaxSims`, `MaxValue`,
`MaxEvents`) and appear only in guards.  Two more bounds of `StatisticalMain` are in
its guards: nodes run one by one are first run in the order of the contract, and
complete runs start from a workspace without evidence.  A complete run works on a
copy that has none anyway; one by one, any node can be run again, at the price of an
event, and that is enough for every proof to be stale for every control behind it.

Deadlock is checked in `gates` and `statistical`, where an execution that stops in
the middle is a fault.  Elsewhere it is off because in every instance the work ends,
or the bounded clock or counters stop.

In the statistical modules a source tree is a record of what the controls read in
it, and its snapshot is that record: a fingerprint stands for what it is computed
from.  The engines are given by what they answer to each case, so that a tree can
hold an engine that is wrong, raises, or depends on the size of its batches; the
draws of a protocol are given by one measure per metric.  The rules of the corpus
validator and of the schemas are one Boolean each.

### Fairness

* Store: a thread that can run is scheduled, and every driver call returns, since
  the client is built with server-selection, connect and socket timeouts.
* Retention: time passes, the TTL monitor runs every minute, calls return.
* Index: workers are restarted by their supervisor, commands return.
* Routes: the event loop runs its coroutines and timers (weak fairness); the pool
  serves its waiters in order (strong fairness of taking a token).  Nothing is
  assumed of the duration of a computation.
* Engines: a loop that can go on does.
* Frontend: the browser's network stack ends every request.  Nothing is assumed
  of the user.
* Gates: the executor reads and joins what has ended, and the hook takes its own
  steps.  Nothing is assumed of the commands of the nodes, which have no timeout, nor
  of the copies and the git commands that set up and remove a workspace (`Waiting`),
  nor of the user: `EveryHookEnds` says that a hook answers or waits for one of those
  for ever, whatever the others do.
* Rate limiter, statistical controls: none; their properties are safety.

## Proofs

A theorem holds for every value of the constants that satisfies the named
assumptions of its module.  Nothing else is assumed: every lemma is checked to its
leaves.  Per module, the theorems, the invariant they rest on, and why a weaker one
is not enough:

* `SimulationStoreProofs`.  Mutual exclusion, ownership of clients and matching of
  the collection hold together: the invariant says who owns which client at each
  program point, that the lock holder is inside its block, and what an unlocked
  reader may have read.  From it follow `NoClientLeaks`, `NothingLeftOpen`,
  `FaultFreeRequestsSucceed` (no request fails before the first fault) and the
  refinement `StoreImplementsHistoryWrites`, step by step.
* `HistoryCollectionProofs`, of `HistoryRetention` and `TtlIndex`.
  `AcknowledgedSaveRefreshesHistory` is not inductive: the invariant adds that every
  stamp in flight is recent (no save outlasts `MaxLag`) and that a save about to
  acknowledge has visited every document older than it.  Both deletions are then
  safe as action properties.  For the index, the invariant says that a worker past
  its repair excludes the old index, and, before any failure, that a missing index
  has a worker about to create it.
* `SimulateRoutesProofs`, of `SimulateRequests` and `RateLimiter`.  `Served` adds to
  the properties which waits each kind of request can be in; the holders of tokens
  are then followed action by action.  The counter bounds what was admitted while
  Redis lasts (`LimitHolds`); a worker that remembers an outage has not announced the
  recovery since, whence the two properties of its log.
* `ForecastProofs`, of the two engines and of the statistics they publish.
  * *Engines.*  `Loops` types the two loops, and `EnginesAligned` says that each is at
    the position of the generator that its simulations have come to; the arithmetic
    of the generator is `AdvanceAdds`.  The batched engine implements `Forecast`
    (`BatchRefinement`): `FirstHit` shows that `argmax` over the weeks, read under
    `has_hit` only, is the first week that reaches the backlog.  The one that goes
    week by week stops a simulation as soon
    as its target is reached and skips the draws that are left: `Progress` says that
    what it has delivered is the sum of the row's first weeks, and that no week
    before the last reached the target, so that its outcome is that of the whole row
    (`SlotRefinement`).  `OwnResults` says that the results of each engine are the
    outcomes its draws are owed, without those that the command leaves out; hence
    `EnginesAgree` (`EnginesPublishTheSame`), whatever the batches.
  * *Statistics.*  Over every population, and not only those of ten simulations: the
    promised delay is reached by the share of simulations that it names
    (`DelaysArePromised`), the promised capacity is delivered (`CapacitiesArePromised`),
    the score is the nearest one (`ScoresArePublished`), the histogram counts every
    simulation once (`HistogramsAreFaithful`), and a simulation more that is censored
    never shortens a delay (`CensoredNeverHelp`).  The invariant only types the
    population; the work is in the lemmas on its sums.
  * *How sums are reasoned about.*  The induction theorems of the library cannot be
    used by these provers, so an induction is done by hand: a property of the natural
    numbers that fails somewhere fails at a least number, which the property of its
    predecessor excludes.  A sum over a set is used through the equation
    that defines the fold of the community modules, one element at a time, and the
    terms of a row through `Kept`, which `Forecast` writes as a recursive function for
    this reason.
* `TeamFiltersProofs`.  The three properties are proved together: `OneRequest` says
  that the only request in flight whose answer still counts is the one of the team
  on the screen, while it loads.  Without it, an answer that comes late could be that
  of another team.  `SharedArrays` says that one array holds the same types in every
  entry and on the screen, so that an effect that does not run has left the types as
  they were (`HiddenStatesComeFromRestores`).  `FiltersAssumption` gives the answers the types of what Azure
  DevOps sends.
* `ForecastSessionProofs`.  `ResultAnswersTheScreen`: the invariant keeps every
  displayed result filed under the signature of the parameters on the screen, and
  every entry of the history whole (`ResultIsFiled`, `HistoryIsWhole`); what makes it
  inductive is that a commit and the effect behind it (`Settled`) are one step.
  `SeedsAreNotShared` needs more than the history: a seed is *held* by a request in
  flight, an entry or the replay context, all of them under one signature, and
  seeds that no run has drawn yet are held by nothing (`SeedsInv`).
  `StorageAssumption`: the entries that are found in the storage agree with each
  other, and no later run draws a seed of theirs again; the code draws a seed at
  random (`simulation_seed.py`) and relies on the same.
* `QualityGateProofs`, of `GateDag` and of the hooks around it.
  * *Graph.*  `GateDag` implements `Gate` for any graph whose dependencies have a
    lower rank (`GateIsKept`), and never stops with a node that is neither ready nor
    running (`NoStall`): among the nodes that are left, one of least rank has all its
    dependencies.  `Coherent` relates the states of the nodes, the batch and the
    results on disk; `Ordered` adds that a completed node has completed dependencies.
  * *Hooks.*  A hook executes nothing but the graph (`HooksExecuteTheDag`), so that
    all of the above holds of it.  `Tracks` says that each terminal commit of a push
    is to do, in progress or validated with the plan of its own changes; a push that
    is accepted has none left, and the plans cover what it changes
    (`PushedChangesAreCovered`).  `Tidy` says that workspace and tools are there only
    between their setting up and their removal (`NothingLeftBehind`), except for an
    entry of Git's list of worktrees.
  * *Proofs of this run.*  While the last node of a complete plan reads, it runs
    alone, and the result of every busy node is that of this execution and succeeded
    (`ProofInv`, `ProofsAreCurrent`); it rests on the contract's own graph.
  * `GraphAssumption` takes the graph of `GatePlan`.  `PushAssumption`: git gives the
    hook the remote's head of an updated reference.  Nothing is assumed of the
    tracking references, which may name what the remote has lost.
* `StatisticalMainProofs`.  `ControlsAreTrue` for every source tree and every order
  of runs and edits, those under a run in the workspace included
  (`ControlsTellTheTruth`).  It has two halves.  Six theorems say
  what a document made from a source tree means once its reader accepts it: that the
  engines agree with the corpus (`ParityIsTrue`, `ReplayIsTrue`, `BatchingIsTrue`),
  that every measured effect is within its margin (`DistributionIsTrue`), that no
  release was rewritten and no component has drifted (`CompatibilityIsTrue`), that
  every file is valid (`ReportIsTrue`).  The invariant then says that, once the first
  command of its node has succeeded, a document is about the sources of the run
  (`FreshInv`: it is not enough that the document exists, it may be an earlier
  one's; and not after an edit under the run); which accepted authority an evidence was compared with (`OriginInv`); and
  that what was attested is true of its own snapshot (`AttestedInv`), which does not
  change when the sources do, unless the control is torn.  It assumes `SourceAssumption`, what the schemas and the
  loaders accept: answers are records, measures integers with the low end of an
  interval first, releases lists; every scenario has a metric and takes its cases from
  the corpus; the corpus and the probes expect an answer; no document, attestation or
  release is `None`.

  `ReadersAgree` (`ReadersTellTheSame`) needs less of the history and more of the
  operators.  The invariant (`MadeInv`) says of every document that its generator
  wrote it, from some sources: the two readers do differ on documents that nobody
  could have generated.  `AvailableProofs` and `ReportReads` reduce what the report
  says of a proof to what it is made of, and `ParityReaders`, `ReplayReaders`,
  `DistributionReaders` and `CompatibilityReaders` show that each set of rules comes
  down to one condition on the cases or the metrics.  `CoverageAssumption` (the
  required coverage is not empty) excludes a corpus without a case, of which the two
  readers would say different things.

  `RedHasACause` (`RedNeedsACause`) is the converse: `ControlsAreTrue` would hold of
  controls that refuse everything.  `Due` names the five documents that sources in
  order give, and `ParityInOrder`, `ReplayInOrder`, `DistributionInOrder`,
  `CompatibilityInOrder`, `EvidenceInOrder` and `ReportInOrder` show that each of them
  is written with success, usable, and accepted by its control.  The invariant has two
  parts.  `CopyInv`: in a complete run, every node before a node that has begun is
  complete (`NeedsFirst`: the contract makes a node wait for its direct needs only, and
  those have waited for theirs).  `GreenInv`: while nothing has disturbed a complete
  run of sources without a defect, no node has failed, every document written so far
  is the one due, and every control decided so far is attested for it; documents of an
  earlier run, or a control decided before what it requires (`RequiredFirst`), would
  break it.  A cause to fail never disappears before the run ends (`GreenBefore`), so
  that a run that is green now was green at each of its commands.

Type correctness of the proved modules is a theorem or a part of an invariant
rather than a run.

Only model-checked:

* every liveness property (`EveryRequestEnds`, `EveryRequestAnswered`,
  `EverySaveEnds`, `IdleHistoryDisappears`, `RepairSettles`, `LoadingEnds`,
  `EveryHookEnds`): they rest on fairness, which is out of the prover's reach.

## What the models leave out

* A write that timed out is applied at once or never; MongoDB applying it later,
  behind the retry, is not modelled.  `retryWrites` is not either: the deployed
  MongoDB is standalone, where it has no effect.
* The purge runs from a cron that the image does not contain.  With the defaults
  the 30 days of the TTL index come before the 90 of the purge.
* Integers are mathematical: an `int64` sum of throughputs does not wrap.  The
  generator's words do (`WordSize`); its finalizer is an arbitrary constant.
* The reliability metrics (square roots, floating point), the wording of
  diagnostics, rendering, and the content of messages.
* The TypeScript histogram and score are the same formulas as Python's and are not
  modelled twice.
* When the options of a team fail to load, its stored filters are cut down to the
  fallback types and stored again; `TeamFilters` does this too, and no document
  says what should be preserved.
* Edits during one command of a run in the workspace: they come between two commands.
  One just before the snapshot of `write_attestation` has the effect of one between the
  two; a proof whose generator reads sources on both sides of an edit is not modelled.
* The validator of the corpus, the calibration of the distributional protocol, and
  what the extractors of the compatibility control find in a source file: given, not
  computed.
* Onboarding, whose requests are never cancelled, the portfolio, and the Azure
  DevOps client: their hazards are in `PROJECT.json`, without a property.
  `TeamFilters` and `ForecastSession` translate the transitions that they depend on.
* Staging and the guard of commits: the index is saved, checked and restored around
  a command that may fail (`git_staging.py:97`, `pre_commit_guard.py:120`); Git
  itself is external.
* Storage conversions, diagnostics, views, API edges, the scrub script, governance
  reports and packaging: they convert, render, report or configure, and keep no
  state between two calls.  The reasons are in `PROJECT.json`, component by
  component.

## Plan

Done, in this order: store, retention, index, routes, limiter, engines and
statistics, filters, session; the gate, its plan and its hooks; the statistical
proofs, their readers and controls; the theorems of every module above, all the
safety properties of the runs among them.

Next, most important behaviour first:

1. `Onboarding`: `submitPat`, the lists, back, disconnect, with requests that
   answer after a disconnection (`useOnboarding.ts` never cancels them), composed
   with `TeamFilters` and `ForecastSession` in the place of their free `SelectTeam`
   and `Disconnect`, so that one run replaces two.
2. `AdoDelivery`: shared requests in flight, batches and partial histories.
3. `PortfolioReport`: two phases of parallel calls that fail one by one.
4. `GitStaging`: stage, check, restore around failures.

Every safety and action property of the runs now has its theorem; the modules above
would each come with theirs.
