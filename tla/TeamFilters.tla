------------------------------ MODULE TeamFilters ------------------------------
(***************************************************************************)
(* The filters of the simulated team: the options that useTeamOptions.ts   *)
(* loads from Azure DevOps, the selection held by useSimulation.ts, and    *)
(* the "quick filters" that useSimulationQuickFilters.ts keeps for each    *)
(* team in localStorage.                                                   *)
(*                                                                         *)
(* React runs the effects of a commit before the next event of the user,   *)
(* so an action is an event together with the effects it triggers.  What   *)
(* remains interleaved is the network: an answer may arrive at any later   *)
(* moment, for a team the user has left.                                   *)
(*                                                                         *)
(* React compares arrays by identity.  The effect that drops the states no *)
(* longer offered runs only when filteredDoneStateOptions is computed      *)
(* again, that is when the array of types or statesByType is another one;  *)
(* so the module says which array of the history, if any, the screen holds.*)
(***************************************************************************)
EXTENDS Naturals, FiniteSets

CONSTANTS
  Teams, NoTeam,
  Types, States,        \* work item types and their states
  DefaultTypes, DefaultStates,
  Reply,                \* Reply[t]: what Azure DevOps answers for team t
  NoFilters,            \* no entry under a team's key
  Arrays, NoArray,      \* identities of the arrays of types in the history
  Saved,                \* the history read from localStorage
  MaxVisits, MaxEdits,  \* bounds: simulation screens opened, selections changed
  MaxHistory            \* a bound: entries in the history

ASSUME FiltersAssumption ==
  /\ NoTeam \notin Teams
  /\ DefaultTypes \subseteq Types
  /\ DefaultStates \subseteq States
  /\ \A t \in Teams :
       /\ Reply[t].types \subseteq Types
       /\ \A ty \in DOMAIN Reply[t].states : Reply[t].states[ty] \subseteq States
  /\ NoArray \notin Arrays
  /\ Saved \subseteq [array : Arrays, types : SUBSET Types, states : SUBSET States]
  /\ \A d, e \in Saved : d.array = e.array => d = e
  /\ MaxVisits \in Nat /\ MaxEdits \in Nat /\ MaxHistory \in Nat

VARIABLES
  step,         \* "teams" or "simulation": the screens that matter here
  team,         \* selectedTeam
  types, doneStates,
  held,         \* the array of the history that types is, or NoArray
  history,      \* simulationHistory: filters and the array of types they hold
  options,      \* workItemTypeOptions and statesByType
  hasConfig,    \* hasQuickFilterConfig
  loading,      \* loadingTeamOptions
  requests,     \* the effects' requests in flight, with their "active" flag;
                \* two cancelled ones of a team count as one
  stored,       \* localStorage, by team
  visits, edits

vars == <<step, team, types, doneStates, held, history, options, hasConfig, loading,
          requests, stored, visits, edits>>

-----------------------------------------------------------------------------
Options   == [types : SUBSET Types, states : [Types -> SUBSET States]]
Selection == [types : SUBSET Types, states : SUBSET States]

NoStates == [ty \in Types |-> {}]
InitialOptions == [types |-> DefaultTypes, states |-> NoStates]

\* The answer of Azure DevOps with the fallbacks of withFallbackStatesByType.
Offered(reply) ==
  LET ts == IF reply.types = {} THEN DefaultTypes ELSE reply.types
      of(ty) == IF ty \in DOMAIN reply.states THEN reply.states[ty] ELSE DefaultStates
  IN  [types |-> ts, states |-> [ty \in Types |-> IF ty \in ts THEN of(ty) ELSE {}]]

FallbackOptions == Offered([types |-> {}, states |-> <<>>])

\* filteredDoneStateOptions: the states offered for a set of types.
Allowed(o, ts) == UNION {o.states[ty] : ty \in ts}

\* A selection restricted to what the options offer.
Valid(o, sel) ==
  LET ts == sel.types \cap o.types
  IN  [types |-> ts, states |-> sel.states \cap Allowed(o, ts)]

Complete(sel) == sel.types # {} /\ sel.states # {}

-----------------------------------------------------------------------------
\* The effect of useSimulationQuickFilters on the state of a commit.
Persisted(st, tm, o, sel) ==
  IF st = "simulation" /\ tm # NoTeam /\ Complete(Valid(o, sel))
  THEN [stored EXCEPT ![tm] = Valid(o, sel)]
  ELSE stored

\* Faulty variant: the effect that drops the states no longer offered is missing.
AllStatesKept(o, ts, ds, computed) == ds

\* The effect of useSimulation that drops the states no longer offered, when
\* filteredDoneStateOptions is computed again.
StatesKept(o, ts, ds, computed) == IF computed THEN ds \cap Allowed(o, ts) ELSE ds

\* Faulty variant: the cleanup of the effect does not clear the flag.
StillActive(rs) == rs

\* The cleanup of the effect: active = false.
Cancelled(rs) == {[r EXCEPT !.active = FALSE] : r \in rs}

\* A commit of the selection; "array" is the one that its types now are.
Commit(st, tm, o, sel, array, computed) ==
  /\ types' = sel.types /\ held' = array
  /\ doneStates' = StatesKept(o, sel.types, sel.states, computed)
  /\ stored' = Persisted(st, tm, o, sel)

\* New arrays, and the same ones as before.
CommitNew(st, tm, o, sel) == Commit(st, tm, o, sel, NoArray, TRUE)
CommitSame(st, tm, sel) == Commit(st, tm, options, sel, held, FALSE)

-----------------------------------------------------------------------------
Init ==
  /\ step = "teams" /\ team = NoTeam
  /\ types = {} /\ doneStates = {} /\ held = NoArray
  /\ history = Saved
  /\ options = InitialOptions
  /\ hasConfig = FALSE /\ loading = FALSE
  /\ requests = {}
  /\ stored = [t \in Teams |-> NoFilters]
  /\ visits = 0 /\ edits = 0

\* Current selection, as a record.
Current == [types |-> types, states |-> doneStates]

SelectTeam(t) ==
  /\ step = "teams" /\ t # team
  /\ team' = t
  /\ hasConfig' = (stored[t] # NoFilters)
  /\ CommitSame("teams", t, Current)
  /\ UNCHANGED <<step, history, options, loading, requests, visits, edits>>

\* goToSimulation: the first commit of the screen still holds the selection and
\* the options of the team opened before; the request starts in its effects.
OpenSimulation ==
  /\ step = "teams" /\ team # NoTeam /\ visits < MaxVisits
  /\ step' = "simulation"
  /\ loading' = TRUE
  /\ requests' = requests \cup {[team |-> team, active |-> TRUE]}
  /\ CommitSame("simulation", team, Current)
  /\ visits' = visits + 1
  /\ UNCHANGED <<team, history, options, hasConfig, edits>>

\* goBack: the cleanup of the effect; loadingTeamOptions is left as it is.
LeaveSimulation ==
  /\ step = "simulation"
  /\ step' = "teams"
  /\ requests' = Cancelled(requests)
  /\ CommitSame("teams", team, Current)
  /\ UNCHANGED <<team, history, options, hasConfig, loading, visits, edits>>

\* Options arrive: they replace the selection by the one stored under the key the
\* effect captured, when it is still complete, else by nothing.
Load(r, o) ==
  LET saved == stored[r.team]
      sel == IF saved # NoFilters /\ Complete(Valid(o, saved)) THEN Valid(o, saved)
             ELSE [types |-> {}, states |-> {}]
  IN  /\ options' = o
      /\ hasConfig' = (saved # NoFilters)
      /\ CommitNew(step, team, o, sel)

\* Faulty variant: a cancelled request clears the flag as well.
LoadingAfterAny(r) == FALSE

\* The finally clause of the effect.
LoadingAfter(r) == IF r.active THEN FALSE ELSE loading

\* The continuation of getTeamOptionsDirect; o is what it loads.
Continue(r, o) ==
  /\ requests' = requests \ {r}
  /\ loading' = LoadingAfter(r)
  /\ IF r.active THEN Load(r, o)
     ELSE UNCHANGED <<options, hasConfig, types, doneStates, held, stored>>
  /\ UNCHANGED <<step, team, history, visits, edits>>

OptionsArrive(r) == r \in requests /\ Continue(r, Offered(Reply[r.team]))
OptionsFail(r)   == r \in requests /\ Continue(r, FallbackOptions)

-----------------------------------------------------------------------------
\* The user changes the selection on the simulation screen.
Pick ==
  /\ step = "simulation" /\ edits < MaxEdits
  /\ edits' = edits + 1
  /\ UNCHANGED <<step, team, history, options, hasConfig, loading, requests, visits>>

Toggle(S, x) == IF x \in S THEN S \ {x} ELSE S \cup {x}

ToggleType(ty) ==
  /\ Pick /\ ty \in options.types
  /\ CommitNew(step, team, options, [Current EXCEPT !.types = Toggle(@, ty)])

ToggleState(s) ==
  /\ Pick /\ s \in Allowed(options, types)
  /\ CommitSame(step, team, [Current EXCEPT !.states = Toggle(@, s)])

\* The types of the entry are the array that the screen holds already.
SameArray(e) == e.array = held

\* applyHistoryEntry: the filters of an earlier simulation, perhaps not offered.
RestoreEntry(e) ==
  /\ Pick
  /\ Commit(step, team, options, [types |-> e.types, states |-> e.states], e.array,
            ~SameArray(e))

\* runForecast records the selection of the screen, in an array of its own. The
\* entry is in the history from the launch on: ForecastSession has the delay.
RecordRun ==
  /\ step = "simulation" /\ Complete(Current) /\ Cardinality(history) < MaxHistory
  /\ \E a \in Arrays \ {e.array : e \in history} :
       history' = history \cup {[array |-> a, types |-> types, states |-> doneStates]}
  /\ UNCHANGED <<step, team, types, doneStates, held, options, hasConfig, loading, requests,
                 stored, visits, edits>>

\* The shortcut button, disabled without stored filters and during the loading.
ApplyQuickFilterConfig ==
  LET saved == stored[team]
      sel == Valid(options, saved)
  IN  /\ step = "simulation" /\ hasConfig /\ ~loading
      /\ hasConfig' = (saved # NoFilters)
      /\ IF saved # NoFilters /\ Complete(sel) THEN CommitNew(step, team, options, sel)
         ELSE UNCHANGED <<types, doneStates, held, stored>>
      /\ UNCHANGED <<step, team, history, options, loading, requests, visits, edits>>

\* handleDisconnect: the onboarding forgets the team, resetAll the options.
Disconnect ==
  /\ team # NoTeam
  /\ step' = "teams" /\ team' = NoTeam
  /\ types' = {} /\ doneStates' = {} /\ held' = NoArray
  /\ options' = InitialOptions
  /\ hasConfig' = FALSE /\ loading' = FALSE
  /\ requests' = Cancelled(requests)
  /\ UNCHANGED <<history, stored, visits, edits>>

-----------------------------------------------------------------------------
Next ==
  \/ \E t \in Teams : SelectTeam(t)
  \/ OpenSimulation \/ LeaveSimulation
  \/ \E r \in requests : OptionsArrive(r)
  \/ \E r \in requests : OptionsFail(r)
  \/ \E ty \in Types : ToggleType(ty)
  \/ \E s \in States : ToggleState(s)
  \/ \E e \in history : RestoreEntry(e)
  \/ RecordRun
  \/ ApplyQuickFilterConfig
  \/ Disconnect

Spec == Init /\ [][Next]_vars

-----------------------------------------------------------------------------
\* Once loaded, the options on the simulation screen are those of the selected
\* team, or the fallback: the answer to a team left meanwhile never shows up
\* (the "active" flag of useTeamOptions.ts).
OptionsMatchTeam ==
  step = "simulation" /\ ~loading => options \in {Offered(Reply[team]), FallbackOptions}

\* The screen says it is loading exactly while the request of its own team is
\* in flight, and no two requests could both answer it.
LoadingIsHonest ==
  step = "simulation" =>
    {r \in requests : r.active} = IF loading THEN {[team |-> team, active |-> TRUE]} ELSE {}

\* A state that no checkbox on the screen shows is selected only after an entry
\* was restored while its types were on the screen, and it goes with the next
\* change of the types or of the options: no late answer, toggle, shortcut or
\* restore of other types lets one in or keeps one (the effect of useSimulation).
HiddenStatesAreRestored ==
  [][\A s \in doneStates' \ Allowed(options', types') :
       /\ UNCHANGED <<types, options>>
       /\ s \in doneStates \/ \E e \in history : e.types = types /\ s \in e.states]_vars

\* What frontend/src/hooks/useSimulation.test.tsx:154 says of the hook, "filters
\* obsolete states": a state is selected only while a selected type offers it.
\* It is not so when an entry of the history is restored twice in a row.
SelectedStatesAreShown == doneStates \subseteq Allowed(options, types)
=============================================================================
