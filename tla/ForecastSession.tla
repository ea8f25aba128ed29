--------------------------- MODULE ForecastSession ---------------------------
(***************************************************************************)
(* The forecast on the simulation screen (useSimulation.ts): parameters    *)
(* the user edits at any time, runs that take their time and cannot be     *)
(* cancelled, a local history from which results are restored, and the     *)
(* signature that ties a result to the parameters it was computed for.     *)
(*                                                                         *)
(* An action is an event together with the effects React runs before the   *)
(* next event.  Messages, notices and the chart tab are left out; the      *)
(* weekly rows, the cycle times and the sample statistics are set and      *)
(* cleared with the result and stand with it.                              *)
(***************************************************************************)
EXTENDS Naturals, Sequences, FiniteSets

CONSTANTS
  Scopes, NoScope,      \* (organisation, project, team) selected in the onboarding
  TeamName(_),          \* the team's name in a scope
  Filters, NoFilters,   \* complete selections of types and states
  Backlogs, Weeks,      \* values of the two objectives
  Preferences,          \* modes and objectives the preferences may hold at first
  Legacy,               \* history read from the storage of an earlier version
  None,
  MaxHistory,           \* MAX_SIM_HISTORY
  MaxRuns, MaxEdits     \* bounds: runs launched, parameters edited or restored

ASSUME SessionAssumption ==
  /\ NoScope \notin Scopes /\ NoFilters \notin Filters
  /\ MaxHistory \in Nat \ {0} /\ MaxRuns \in Nat /\ MaxEdits \in Nat

VARIABLES
  screen,       \* "teams" or "simulation"
  pat,          \* is there a session token?
  params,       \* the parameters on the screen
  result,       \* state "result": None or what the engine answered
  executed,     \* executedSimulation: None or a signature
  replay,       \* replayContext
  launched,     \* hasLaunchedOnce
  loading,
  requests,     \* runs in flight, with the parameters and the seed they captured
  history,      \* simulationHistory, newest first
  runs, edits

vars == <<screen, pat, params, result, executed, replay, launched, loading,
          requests, history, runs, edits>>

-----------------------------------------------------------------------------
Modes == {"backlog_to_weeks", "weeks_to_items"}

Params == [scope : Scopes \cup {NoScope}, filters : Filters \cup {NoFilters},
           mode : Modes, backlogSize : Backlogs, targetWeeks : Weeks]

\* canonicalizeSimulationParameters: only the active objective counts.
Signature(p) ==
  [scope |-> p.scope, filters |-> p.filters, mode |-> p.mode,
   objective |-> IF p.mode = "weeks_to_items" THEN p.targetWeeks ELSE p.backlogSize]

Signatures == [scope : Scopes \cup {NoScope}, filters : Filters \cup {NoFilters},
               mode : Modes, objective : Backlogs \cup Weeks]

\* What the engine computes: the result of these parameters, whole.
Forecast(p, seed) ==
  [scope |-> p.scope, filters |-> p.filters, mode |-> p.mode, seed |-> seed,
   objective |-> IF p.mode = "weeks_to_items" THEN p.targetWeeks ELSE p.backlogSize]

\* Does a result answer the question that a configuration asks?
Answers(f, p) == f = Forecast(p, f.seed)

\* A fresh seed is the number of its run; an entry of an earlier version may
\* have none.
Seeds == 1..MaxRuns \cup ({Legacy[i].seed : i \in DOMAIN Legacy} \ {None})

Forecasts == [scope : Scopes \cup {NoScope}, filters : Filters \cup {NoFilters}, mode : Modes,
              objective : Backlogs \cup Weeks, seed : Seeds \cup {None}]

\* What the storage gives back: complete simulations, whose seeds no later run
\* draws again, and the selections of the preferences.
ASSUME StorageAssumption ==
  /\ Preferences \subseteq Params
  /\ Legacy \in Seq([params : Params, seed : Nat \cup {None}, reusable : BOOLEAN, result : Forecasts])
  /\ \A i \in DOMAIN Legacy :
       /\ Legacy[i].result = Forecast(Legacy[i].params, Legacy[i].seed)
       /\ Legacy[i].seed \notin 1..MaxRuns
       /\ \A j \in DOMAIN Legacy : Legacy[i].seed = Legacy[j].seed /\ Legacy[i].seed # None
            => Signature(Legacy[i].params) = Signature(Legacy[j].params)

ASSUME NoneAssumption == None \notin Signatures /\ None \notin Forecasts /\ None \notin Nat

\* findLatestReusableSimulation: the newest complete entry with this signature.
Reusable(sig) == {i \in DOMAIN history : history[i].reusable /\ Signature(history[i].params) = sig}
Latest(S) == CHOOSE i \in S : \A j \in S : i <= j

-----------------------------------------------------------------------------
\* A commit and the effect of useSimulation that drops a result whose signature
\* is no longer that of the parameters.
Settled(p, res, exe, rep, lau) ==
  LET outdated == res # None /\ exe # None /\ exe # Signature(p)
  IN  /\ params' = p
      /\ result'   = IF outdated THEN None ELSE res
      /\ executed' = IF outdated THEN None ELSE exe
      /\ replay'   = IF outdated THEN None ELSE rep
      /\ launched' = IF outdated THEN FALSE ELSE lau

Init ==
  /\ screen = "teams" /\ pat = TRUE
  /\ \E p \in Preferences : params = [p EXCEPT !.scope = NoScope, !.filters = NoFilters]
  /\ result = None /\ executed = None /\ replay = None
  /\ launched = FALSE /\ loading = FALSE
  /\ requests = {}
  /\ history = Legacy
  /\ runs = 0 /\ edits = 0

-----------------------------------------------------------------------------
\* setSelectedTeam, setSelectedProject... on the screens of the onboarding.
SelectTeam(s) ==
  /\ screen = "teams" /\ s # params.scope
  /\ Settled([params EXCEPT !.scope = s], result, executed, replay, launched)
  /\ UNCHANGED <<screen, pat, loading, requests, history, runs, edits>>

\* goToSimulationAndReset: resetForTeamSelection.
OpenSimulation ==
  /\ screen = "teams" /\ params.scope # NoScope
  /\ screen' = "simulation"
  /\ Settled(params, None, None, None, FALSE)
  /\ UNCHANGED <<pat, loading, requests, history, runs, edits>>

LeaveSimulation ==
  /\ screen = "simulation"
  /\ screen' = "teams"
  /\ UNCHANGED <<pat, params, result, executed, replay, launched, loading, requests,
                 history, runs, edits>>

\* The user edits a control, or the options of the team replace the filters.
Edit(p) ==
  /\ screen = "simulation" /\ edits < MaxEdits
  /\ p # params /\ p.scope = params.scope
  /\ edits' = edits + 1
  /\ Settled(p, result, executed, replay, launched)
  /\ UNCHANGED <<screen, pat, loading, requests, history, runs>>

\* The button that clears the result: resetForTeamSelection.
ResetResults ==
  /\ screen = "simulation" /\ launched
  /\ Settled(params, None, None, None, FALSE)
  /\ UNCHANGED <<screen, pat, loading, requests, history, runs, edits>>

-----------------------------------------------------------------------------
\* runForecast.  Its button shows while nothing was launched and is disabled
\* during the loading.
CanRun == screen = "simulation" /\ ~launched /\ ~loading /\ params.scope # NoScope

\* onInvalidFilters: the replay context stays.
RunWithoutFilters ==
  /\ CanRun /\ params.filters = NoFilters
  /\ Settled(params, None, None, replay, FALSE)
  /\ UNCHANGED <<screen, pat, loading, requests, history, runs, edits>>

\* restoreComputedSimulation.
Restore(p, e) ==
  Settled(p, e.result, Signature(e.params),
          IF e.seed = None THEN None ELSE [seed |-> e.seed, signature |-> Signature(e.params)],
          TRUE)

\* An identical complete simulation is in the history.
RunFromHistory ==
  /\ CanRun /\ params.filters # NoFilters
  /\ Reusable(Signature(params)) # {}
  /\ Restore(params, history[Latest(Reusable(Signature(params)))])
  /\ UNCHANGED <<screen, pat, loading, requests, history, runs, edits>>

\* Faulty variant: any remembered seed is replayed.
AnyReplayedSeed == IF replay = None THEN runs + 1 ELSE replay.seed

\* resolveSimulationSeed: the seed to replay, or a fresh one (the run's number).
SeedToRun ==
  IF replay # None /\ replay.signature = Signature(params) THEN replay.seed ELSE runs + 1

LaunchRun ==
  /\ CanRun /\ params.filters # NoFilters
  /\ Reusable(Signature(params)) = {}
  /\ pat /\ runs < MaxRuns
  /\ runs' = runs + 1
  /\ requests' = requests \cup {[run |-> runs + 1, params |-> params, seed |-> SeedToRun]}
  /\ loading' = TRUE
  /\ Settled(params, None, None, replay, TRUE)
  /\ UNCHANGED <<screen, pat, history, edits>>

Entry(r) == [params |-> r.params, seed |-> r.seed, reusable |-> TRUE,
             result |-> Forecast(r.params, r.seed)]

\* pushSimulationHistory.
Pushed(e) == SubSeq(<<e>> \o history, 1,
                    IF Len(history) < MaxHistory THEN Len(history) + 1 ELSE MaxHistory)

\* Faulty variant: the answer is filed under the parameters now on the screen.
ExecutedOnScreen(r) == Signature(params)

\* executedSimulation is set to the snapshot the run captured.
ExecutedBy(r) == Signature(r.params)

RunSucceeds(r) ==
  /\ r \in requests
  /\ requests' = requests \ {r}
  /\ loading' = FALSE
  /\ Settled(params, Forecast(r.params, r.seed), ExecutedBy(r), replay, launched)
  /\ history' = Pushed(Entry(r))
  /\ UNCHANGED <<screen, pat, runs, edits>>

\* Faulty variant: the failure of a run leaves the loading on.
LoadingAfterFailure(r) == loading

\* The finally clause of runForecast.
LoadingAfter(r) == FALSE

RunFails(r) ==
  /\ r \in requests
  /\ requests' = requests \ {r}
  /\ loading' = LoadingAfter(r)
  /\ Settled(params, result, executed, replay, FALSE)
  /\ UNCHANGED <<screen, pat, history, runs, edits>>

-----------------------------------------------------------------------------
\* applyHistoryEntry: the list shows the entries of the team's name.  The
\* options of the team may drop the entry's filters in the same commit.
ApplyHistoryEntry(i) ==
  /\ screen = "simulation" /\ edits < MaxEdits
  /\ i \in DOMAIN history
  /\ TeamName(history[i].params.scope) = TeamName(params.scope)
  /\ edits' = edits + 1
  /\ \E f \in {history[i].params.filters, NoFilters} :
       Restore([history[i].params EXCEPT !.scope = params.scope, !.filters = f], history[i])
  /\ UNCHANGED <<screen, pat, loading, requests, history, runs>>

ClearSimulationHistory ==
  /\ screen = "simulation" /\ history # <<>>
  /\ history' = <<>>
  /\ UNCHANGED <<screen, pat, params, result, executed, replay, launched, loading,
                 requests, runs, edits>>

\* handleDisconnect: disconnect and resetAll; a run in flight goes on.
Disconnect ==
  /\ pat
  /\ screen' = "teams" /\ pat' = FALSE /\ loading' = FALSE
  /\ Settled([params EXCEPT !.scope = NoScope, !.filters = NoFilters], None, None, None, FALSE)
  /\ UNCHANGED <<requests, history, runs, edits>>

Reconnect ==
  /\ ~pat
  /\ pat' = TRUE
  /\ UNCHANGED <<screen, params, result, executed, replay, launched, loading, requests,
                 history, runs, edits>>

-----------------------------------------------------------------------------
RunEnds(r) == RunSucceeds(r) \/ RunFails(r)

Next ==
  \/ \E s \in Scopes : SelectTeam(s)
  \/ OpenSimulation \/ LeaveSimulation
  \/ \E p \in Params : Edit(p)
  \/ ResetResults
  \/ RunWithoutFilters \/ RunFromHistory \/ LaunchRun
  \/ \E r \in requests : RunSucceeds(r)
  \/ \E r \in requests : RunFails(r)
  \/ \E i \in 1..MaxHistory : ApplyHistoryEntry(i)
  \/ ClearSimulationHistory
  \/ Disconnect \/ Reconnect

Spec == Init /\ [][Next]_vars

\* Azure DevOps and the service answer, or the browser gives up.
FairSpec == Spec /\ WF_vars(\E r \in requests : RunEnds(r))

-----------------------------------------------------------------------------
\* Between two events, the result, the rows that a CSV export writes and the
\* statistics answer the question on the screen, team included, whichever runs
\* answered late and whichever entries were restored (RISK-008).
ResultAnswersTheScreen == result # None => Answers(result, params)

\* A seed is replayed for the configuration it was drawn for only: two runs or
\* entries with the same seed are the same simulation.
SeedsAreNotShared ==
  LET runsAndEntries == {[seed |-> r.seed, params |-> r.params] : r \in requests}
                        \cup {[seed |-> history[i].seed, params |-> history[i].params] : i \in DOMAIN history}
  IN  \A a, b \in runsAndEntries : a.seed = b.seed /\ a.seed # None
         => Forecast(a.params, a.seed) = Forecast(b.params, b.seed)

\* A screen that shows a run stops showing it: the finally clause of the run, or
\* the disconnection.
LoadingEnds == loading ~> ~loading
=============================================================================
