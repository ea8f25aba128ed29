-------------------------- MODULE TeamFiltersProofs --------------------------
(***************************************************************************)
(* The filters of the simulated team, for every set of teams, types and    *)
(* states, every reply of Azure DevOps and every order of its answers.     *)
(***************************************************************************)
EXTENDS TeamFilters, TLAPS

Entries == [array : Arrays, types : SUBSET Types, states : SUBSET States]

FiltersTypeOK ==
  /\ step \in {"teams", "simulation"}
  /\ team \in Teams \cup {NoTeam} /\ (step = "simulation" => team \in Teams)
  /\ types \subseteq Types /\ doneStates \subseteq States
  /\ held \in Arrays \cup {NoArray} /\ history \subseteq Entries
  /\ options \in Options
  /\ hasConfig \in BOOLEAN /\ loading \in BOOLEAN
  /\ requests \subseteq [team : Teams, active : BOOLEAN]
  /\ stored \in [Teams -> Selection \cup {NoFilters}]
  /\ visits \in 0..MaxVisits /\ edits \in 0..MaxEdits

ActiveRequests == {r \in requests : r.active}

(* The only request that can still answer is that of the team on the screen, *)
(* and the screen shows it as a loading; no request outlives its screen.     *)
OneRequest ==
  ActiveRequests = IF step = "simulation" /\ loading THEN {[team |-> team, active |-> TRUE]}
                   ELSE {}

(* One array holds the same types in every entry and on the screen. *)
SharedArrays ==
  /\ \A d, e \in history : d.array = e.array => d.types = e.types
  /\ \A e \in history : e.array = held => e.types = types

FiltersInv == FiltersTypeOK /\ OneRequest /\ OptionsMatchTeam /\ SharedArrays

-----------------------------------------------------------------------------
(* Whatever Azure DevOps answers, the options hold types and states. *)
LEMMA OfferedType ==
  /\ \A t \in Teams : Offered(Reply[t]) \in Options
  /\ FallbackOptions \in Options
<1>1. ASSUME NEW reply, reply.types \subseteq Types,
             \A ty \in DOMAIN reply.states : reply.states[ty] \subseteq States
      PROVE  Offered(reply) \in Options
  BY <1>1, FiltersAssumption DEF Offered, Options
<1>2. \A t \in Teams : /\ Reply[t].types \subseteq Types
                       /\ \A ty \in DOMAIN Reply[t].states : Reply[t].states[ty] \subseteq States
  BY FiltersAssumption
<1>3. /\ [types |-> {}, states |-> <<>>].types \subseteq Types
      /\ DOMAIN [types |-> {}, states |-> <<>>].states = {}
  OBVIOUS
<1> QED
  BY <1>1, <1>2, <1>3, Zenon DEF FallbackOptions

(* A selection restricted to the options is a selection. *)
LEMMA ValidType ==
  ASSUME NEW o \in Options, NEW sel \in Selection
  PROVE  Valid(o, sel) \in Selection
BY DEF Valid, Options, Selection

(* What a commit of a selection leaves has the type of a selection. *)
LEMMA CommitType ==
  ASSUME FiltersTypeOK, NEW st, NEW tm \in Teams \cup {NoTeam}, NEW o \in Options,
         NEW sel \in Selection, NEW array, NEW computed, Commit(st, tm, o, sel, array, computed)
  PROVE  /\ types' = sel.types /\ held' = array
         /\ types' \subseteq Types /\ doneStates' \subseteq States
         /\ stored' \in [Teams -> Selection \cup {NoFilters}]
<1>1. types' = sel.types /\ held' = array /\ doneStates' \subseteq sel.states
  BY DEF Commit, StatesKept
<1>2. stored' \in [Teams -> Selection \cup {NoFilters}]
  <2>1. stored' = Persisted(st, tm, o, sel) /\ stored \in [Teams -> Selection \cup {NoFilters}]
    BY DEF Commit, FiltersTypeOK
  <2>2. Valid(o, sel) \in Selection
    BY ValidType
  <2> HIDE DEF Valid
  <2> QED
    BY <2>1, <2>2 DEF Persisted
<1> QED
  BY <1>1, <1>2 DEF Selection

(* New arrays: no entry of the history holds the types of the screen. *)
LEMMA NewSelection ==
  ASSUME FiltersInv, NEW st, NEW tm \in Teams \cup {NoTeam}, NEW o \in Options,
         NEW sel \in Selection, CommitNew(st, tm, o, sel), history' = history
  PROVE  /\ types' \subseteq Types /\ doneStates' \subseteq States
         /\ held' \in Arrays \cup {NoArray} /\ history' \subseteq Entries
         /\ stored' \in [Teams -> Selection \cup {NoFilters}]
         /\ SharedArrays' /\ doneStates' \subseteq Allowed(o, types')
<1>1. /\ types' \subseteq Types /\ doneStates' \subseteq States /\ held' = NoArray
      /\ stored' \in [Teams -> Selection \cup {NoFilters}]
  BY CommitType DEF CommitNew, FiltersInv
<1>2. doneStates' \subseteq Allowed(o, types')
  BY DEF CommitNew, Commit, StatesKept
<1>3. history \subseteq Entries /\ \A e \in history : e.array # NoArray
  BY FiltersAssumption DEF FiltersInv, FiltersTypeOK, Entries
<1> QED
  BY <1>1, <1>2, <1>3 DEF SharedArrays, FiltersInv

(* The same arrays: what the screen shares with the history stays shared. *)
LEMMA SameSelection ==
  ASSUME FiltersInv, NEW st, NEW tm \in Teams \cup {NoTeam},
         NEW sel \in Selection, sel.types = types, CommitSame(st, tm, sel), history' = history
  PROVE  /\ types' \subseteq Types /\ doneStates' \subseteq States
         /\ held' \in Arrays \cup {NoArray} /\ history' \subseteq Entries
         /\ stored' \in [Teams -> Selection \cup {NoFilters}]
         /\ SharedArrays' /\ types' = types /\ doneStates' = sel.states
<1>1. /\ types' \subseteq Types /\ doneStates' \subseteq States /\ held' = held /\ types' = types
      /\ stored' \in [Teams -> Selection \cup {NoFilters}]
  BY CommitType DEF CommitSame, FiltersInv, FiltersTypeOK
<1>2. doneStates' = sel.states
  BY DEF CommitSame, Commit, StatesKept
<1> QED
  BY <1>1, <1>2 DEF SharedArrays, FiltersInv, FiltersTypeOK

LEMMA CurrentType == FiltersTypeOK => Current \in Selection
BY DEF FiltersTypeOK, Current, Selection

LEMMA FiltersStart == Init => FiltersInv
<1> SUFFICES ASSUME Init PROVE FiltersInv
  OBVIOUS
<1>1. options \in Options
  BY FiltersAssumption DEF Init, InitialOptions, NoStates, Options
<1>2. OptionsMatchTeam /\ OneRequest
  BY DEF Init, OptionsMatchTeam, OneRequest, ActiveRequests
<1>6. history \subseteq Entries /\ SharedArrays /\ held = NoArray
  BY FiltersAssumption DEF Init, Entries, SharedArrays
<1>3. stored \in [Teams -> Selection \cup {NoFilters}]
  BY DEF Init
<1>4. visits \in 0..MaxVisits /\ edits \in 0..MaxEdits
  BY FiltersAssumption DEF Init
<1>5. FiltersTypeOK
  BY <1>1, <1>3, <1>4, <1>6 DEF Init, FiltersTypeOK
<1> QED
  BY <1>2, <1>5, <1>6 DEF FiltersInv

(* A request that is not active changes nothing but the list of requests. *)
LEMMA ContinueKeeps ==
  ASSUME FiltersInv, NEW r \in requests, NEW o \in Options, Continue(r, o),
         o \in {Offered(Reply[r.team]), FallbackOptions}
  PROVE  FiltersInv'
<1> USE DEF FiltersInv
<1>1. /\ r \in [team : Teams, active : BOOLEAN]
      /\ requests' = requests \ {r} /\ loading' = LoadingAfter(r)
      /\ UNCHANGED <<step, team, history, visits, edits>>
  BY DEF Continue, FiltersTypeOK
<1>2. CASE r.active
  <2>1. step = "simulation" /\ loading /\ r = [team |-> team, active |-> TRUE] /\ r.team = team
    BY <1>2 DEF OneRequest, ActiveRequests
  <2>2. loading' = FALSE /\ OneRequest'
    BY <1>1, <1>2, <2>1 DEF LoadingAfter, OneRequest, ActiveRequests
  <2>3. PICK sel : /\ sel \in Selection /\ CommitNew(step, team, o, sel)
                   /\ options' = o /\ hasConfig' \in BOOLEAN
    <3> DEFINE saved == stored[r.team]
    <3>1. saved \in Selection \cup {NoFilters}
      BY <1>1 DEF FiltersTypeOK
    <3>2. Complete(Valid(o, saved)) /\ saved # NoFilters => Valid(o, saved) \in Selection
      BY <3>1, ValidType
    <3>3. [types |-> {}, states |-> {}] \in Selection
      BY DEF Selection
    <3>4. Load(r, o)
      BY <1>2 DEF Continue
    <3> HIDE DEF CommitNew, Valid, Complete
    <3> QED
      BY <3>2, <3>3, <3>4 DEF Load
  <2>4. /\ types' \subseteq Types /\ doneStates' \subseteq States
        /\ held' \in Arrays \cup {NoArray} /\ history' \subseteq Entries
        /\ stored' \in [Teams -> Selection \cup {NoFilters}] /\ SharedArrays'
    BY <1>1, <2>3, NewSelection DEF FiltersTypeOK
  <2>5. OptionsMatchTeam'
    BY <1>1, <2>1, <2>3 DEF OptionsMatchTeam
  <2> QED
    BY <1>1, <2>2, <2>3, <2>4, <2>5 DEF FiltersTypeOK
<1>3. CASE ~r.active
  <2>1. UNCHANGED <<options, hasConfig, types, doneStates, held, stored, loading>>
    BY <1>1, <1>3 DEF Continue, LoadingAfter
  <2>2. OneRequest'
    BY <1>1, <1>3, <2>1 DEF OneRequest, ActiveRequests
  <2> QED
    BY <1>1, <2>1, <2>2 DEF FiltersTypeOK, SharedArrays, OptionsMatchTeam
<1> QED
  BY <1>2, <1>3

(* A selection that the user changes. *)
LEMMA PickKeeps ==
  ASSUME FiltersInv, Pick, SharedArrays',
         types' \subseteq Types, doneStates' \subseteq States,
         held' \in Arrays \cup {NoArray}, history' \subseteq Entries,
         stored' \in [Teams -> Selection \cup {NoFilters}]
  PROVE  FiltersInv'
<1> USE DEF FiltersInv
<1>1. /\ UNCHANGED <<step, team, options, hasConfig, loading, requests, visits>>
      /\ edits' \in 0..MaxEdits
  BY FiltersAssumption DEF Pick, FiltersTypeOK
<1> QED
  BY <1>1 DEF FiltersTypeOK, OneRequest, ActiveRequests, OptionsMatchTeam

(* The entry that is restored is one of the arrays of the history. *)
LEMMA RestoreKeeps ==
  ASSUME FiltersInv, NEW e \in history, RestoreEntry(e)
  PROVE  FiltersInv' /\ types' = e.types
<1> DEFINE sel == [types |-> e.types, states |-> e.states]
<1>1. e \in Entries /\ sel \in Selection
  BY DEF FiltersInv, FiltersTypeOK, Entries, Selection
<1>2. Pick /\ history' = history /\ Commit(step, team, options, sel, e.array, ~SameArray(e))
  BY DEF RestoreEntry, Pick
<1>3. /\ types' = e.types /\ held' = e.array
      /\ types' \subseteq Types /\ doneStates' \subseteq States
      /\ stored' \in [Teams -> Selection \cup {NoFilters}]
  BY <1>1, <1>2, CommitType DEF FiltersInv, FiltersTypeOK
<1>4. SharedArrays'
  BY <1>2, <1>3 DEF SharedArrays, FiltersInv
<1>5. held' \in Arrays /\ history' \subseteq Entries
  BY <1>1, <1>2, <1>3 DEF Entries, FiltersInv, FiltersTypeOK
<1> QED
  BY <1>2, <1>3, <1>4, <1>5, PickKeeps

LEMMA FiltersStep == FiltersInv /\ [Next]_vars => FiltersInv'
<1> SUFFICES ASSUME FiltersInv, [Next]_vars PROVE FiltersInv'
  OBVIOUS
<1> USE DEF FiltersInv
<1>0. Current \in Selection
  BY CurrentType
<1>1. ASSUME NEW t \in Teams, SelectTeam(t) PROVE FiltersInv'
  <2>1. /\ types' \subseteq Types /\ doneStates' \subseteq States
        /\ held' \in Arrays \cup {NoArray} /\ history' \subseteq Entries
        /\ stored' \in [Teams -> Selection \cup {NoFilters}] /\ SharedArrays'
    BY <1>0, <1>1, SameSelection DEF SelectTeam, FiltersTypeOK, Current
  <2> QED
    BY <1>1, <2>1 DEF SelectTeam, FiltersTypeOK, OneRequest, ActiveRequests, OptionsMatchTeam
<1>2. CASE OpenSimulation
  <2>1. /\ types' \subseteq Types /\ doneStates' \subseteq States
        /\ held' \in Arrays \cup {NoArray} /\ history' \subseteq Entries
        /\ stored' \in [Teams -> Selection \cup {NoFilters}] /\ SharedArrays'
    BY <1>0, <1>2, SameSelection DEF OpenSimulation, FiltersTypeOK, Current
  <2>2. OneRequest'
    BY <1>2 DEF OpenSimulation, OneRequest, ActiveRequests
  <2>3. requests' \subseteq [team : Teams, active : BOOLEAN] /\ team' \in Teams
    <3>1. team \in Teams /\ team' = team
      BY <1>2 DEF OpenSimulation, FiltersTypeOK
    <3>2. requests' = requests \cup {[team |-> team, active |-> TRUE]}
      BY <1>2 DEF OpenSimulation
    <3>3. [team |-> team, active |-> TRUE] \in [team : Teams, active : BOOLEAN]
      BY <3>1
    <3> QED
      BY <3>1, <3>2, <3>3, Zenon DEF FiltersTypeOK
  <2>4. visits' \in 0..MaxVisits
    BY <1>2, FiltersAssumption DEF OpenSimulation, FiltersTypeOK
  <2> QED
    BY <1>2, <2>1, <2>2, <2>3, <2>4 DEF OpenSimulation, FiltersTypeOK, OptionsMatchTeam
<1>3. CASE LeaveSimulation
  <2>1. /\ types' \subseteq Types /\ doneStates' \subseteq States
        /\ held' \in Arrays \cup {NoArray} /\ history' \subseteq Entries
        /\ stored' \in [Teams -> Selection \cup {NoFilters}] /\ SharedArrays'
    BY <1>0, <1>3, SameSelection DEF LeaveSimulation, FiltersTypeOK, Current
  <2>2. OneRequest' /\ requests' \subseteq [team : Teams, active : BOOLEAN]
    BY <1>3 DEF LeaveSimulation, Cancelled, OneRequest, ActiveRequests, FiltersTypeOK
  <2> QED
    BY <1>3, <2>1, <2>2 DEF LeaveSimulation, FiltersTypeOK, OptionsMatchTeam
<1>4. ASSUME NEW r \in requests, OptionsArrive(r) \/ OptionsFail(r) PROVE FiltersInv'
  <2>1. r.team \in Teams
    BY DEF FiltersTypeOK
  <2> QED
    BY <1>4, <2>1, OfferedType, ContinueKeeps DEF OptionsArrive, OptionsFail
<1>5. ASSUME NEW ty \in Types, ToggleType(ty) PROVE FiltersInv'
  <2>1. [Current EXCEPT !.types = Toggle(@, ty)] \in Selection
    BY <1>0 DEF Selection, Toggle
  <2>2. Pick /\ CommitNew(step, team, options, [Current EXCEPT !.types = Toggle(@, ty)])
        /\ history' = history
    BY <1>5 DEF ToggleType, Pick
  <2> QED
    BY <2>1, <2>2, NewSelection, PickKeeps DEF FiltersTypeOK
<1>6. ASSUME NEW s \in States, ToggleState(s) PROVE FiltersInv'
  <2>1. /\ [Current EXCEPT !.states = Toggle(@, s)] \in Selection
        /\ [Current EXCEPT !.states = Toggle(@, s)].types = types
    BY <1>0 DEF Selection, Toggle, Current
  <2>2. Pick /\ CommitSame(step, team, [Current EXCEPT !.states = Toggle(@, s)])
        /\ history' = history
    BY <1>6 DEF ToggleState, Pick
  <2> QED
    BY <2>1, <2>2, SameSelection, PickKeeps DEF FiltersTypeOK
<1>7. ASSUME NEW e \in history, RestoreEntry(e) PROVE FiltersInv'
  BY <1>7, RestoreKeeps
<1>11. CASE RecordRun
  <2>1. PICK a \in Arrays \ {e.array : e \in history} :
          history' = history \cup {[array |-> a, types |-> types, states |-> doneStates]}
    BY <1>11 DEF RecordRun
  <2>2. UNCHANGED <<step, team, types, doneStates, held, options, hasConfig, loading, requests,
                    stored, visits, edits>>
    BY <1>11 DEF RecordRun
  <2>3. history' \subseteq Entries
    BY <2>1, <2>2 DEF FiltersTypeOK, Entries
  <2>4. \A e \in history : e.array # a
    BY <2>1
  <2>5. SharedArrays'
    BY <2>1, <2>2, <2>4 DEF SharedArrays
  <2> QED
    BY <2>2, <2>3, <2>5 DEF FiltersTypeOK, OneRequest, ActiveRequests, OptionsMatchTeam
<1>8. CASE ApplyQuickFilterConfig
  <2> DEFINE saved == stored[team]
             sel == Valid(options, saved)
  <2>1. /\ UNCHANGED <<step, team, history, options, loading, requests, visits, edits>>
        /\ hasConfig' \in BOOLEAN
    BY <1>8 DEF ApplyQuickFilterConfig
  <2>2. CASE saved # NoFilters /\ Complete(sel)
    <3>1. saved \in Selection /\ team \in Teams
      BY <1>8, <2>2 DEF ApplyQuickFilterConfig, FiltersTypeOK
    <3>2. sel \in Selection
      BY <3>1, ValidType DEF FiltersTypeOK
    <3>3. CommitNew(step, team, options, sel)
      BY <1>8, <2>2 DEF ApplyQuickFilterConfig
    <3>4. /\ types' \subseteq Types /\ doneStates' \subseteq States
          /\ held' \in Arrays \cup {NoArray} /\ history' \subseteq Entries
          /\ stored' \in [Teams -> Selection \cup {NoFilters}] /\ SharedArrays'
      BY <2>1, <3>1, <3>2, <3>3, NewSelection DEF FiltersTypeOK
    <3> QED
      BY <2>1, <3>4 DEF FiltersTypeOK, OneRequest, ActiveRequests, OptionsMatchTeam
  <2>3. CASE ~(saved # NoFilters /\ Complete(sel))
    <3>1. UNCHANGED <<types, doneStates, held, stored>>
      BY <1>8, <2>3 DEF ApplyQuickFilterConfig
    <3> QED
      BY <2>1, <3>1 DEF FiltersTypeOK, OneRequest, ActiveRequests, OptionsMatchTeam,
                        SharedArrays
  <2> QED
    BY <2>2, <2>3
<1>9. CASE Disconnect
  <2>1. OneRequest' /\ requests' \subseteq [team : Teams, active : BOOLEAN]
    BY <1>9 DEF Disconnect, Cancelled, OneRequest, ActiveRequests, FiltersTypeOK
  <2>2. options' \in Options
    BY <1>9, FiltersAssumption DEF Disconnect, InitialOptions, NoStates, Options
  <2>3. SharedArrays'
    BY <1>9, FiltersAssumption DEF Disconnect, FiltersTypeOK, Entries, SharedArrays
  <2> QED
    BY <1>9, <2>1, <2>2, <2>3 DEF Disconnect, FiltersTypeOK, OptionsMatchTeam
<1>10. CASE UNCHANGED vars
  BY <1>10 DEF vars, FiltersTypeOK, OneRequest, ActiveRequests, OptionsMatchTeam,
               SharedArrays
<1> QED
  BY <1>1, <1>2, <1>3, <1>4, <1>5, <1>6, <1>7, <1>8, <1>9, <1>10, <1>11 DEF Next

LEMMA FiltersInvariant == Spec => []FiltersInv
BY FiltersStart, FiltersStep, PTL DEF Spec

-----------------------------------------------------------------------------
(* OptionsMatchTeam, for any number of teams and of answers that come late:  *)
(* only the request of the screen's own team is still active.                *)
THEOREM OptionsAreOfTheTeam == Spec => []OptionsMatchTeam
BY FiltersInvariant, PTL DEF FiltersInv

(* LoadingIsHonest: the flag and the active request come and go together.    *)
THEOREM LoadingTellsTheRequest == Spec => []LoadingIsHonest
<1>1. FiltersInv => LoadingIsHonest
  BY DEF FiltersInv, OneRequest, ActiveRequests, LoadingIsHonest
<1> QED
  BY <1>1, FiltersInvariant, PTL

(* Every change of the types or of the options drops the states that are not   *)
(* offered; a change of neither adds only what a checkbox or an entry brings.  *)
HiddenStep ==
  \A s \in doneStates' \ Allowed(options', types') :
    /\ UNCHANGED <<types, options>>
    /\ s \in doneStates \/ \E e \in history : e.types = types /\ s \in e.states

LEMMA HiddenStates == FiltersInv /\ [Next]_vars => [HiddenStep]_vars
<1> SUFFICES ASSUME FiltersInv, Next PROVE HiddenStep
  OBVIOUS
<1>0. /\ Current \in Selection /\ Current.types = types /\ Current.states = doneStates
      /\ team \in Teams \cup {NoTeam} /\ options \in Options
  BY CurrentType DEF FiltersInv, FiltersTypeOK, Current
<1>1. CASE \/ \E t \in Teams : SelectTeam(t)
           \/ OpenSimulation \/ LeaveSimulation
  <2>1. UNCHANGED <<types, options>> /\ doneStates' = doneStates
    BY <1>0, <1>1 DEF SelectTeam, OpenSimulation, LeaveSimulation, CommitSame, Commit, StatesKept
  <2> QED
    BY <2>1 DEF HiddenStep
<1>2. ASSUME NEW r \in requests, OptionsArrive(r) \/ OptionsFail(r) PROVE HiddenStep
  <2>1. PICK o : Continue(r, o)
    BY <1>2 DEF OptionsArrive, OptionsFail
  <2>2. CASE r.active
    <3>1. Load(r, o)
      BY <2>1, <2>2 DEF Continue
    <3>2. PICK sel : CommitNew(step, team, o, sel) /\ options' = o
      BY <3>1 DEF Load
    <3> QED
      BY <3>2 DEF CommitNew, Commit, StatesKept, HiddenStep
  <2>3. CASE ~r.active
    BY <2>1, <2>3 DEF Continue, HiddenStep
  <2> QED
    BY <2>2, <2>3
<1>3. ASSUME NEW ty \in Types, ToggleType(ty) PROVE HiddenStep
  <2>1. PICK sel : CommitNew(step, team, options, sel) /\ options' = options
    BY <1>3 DEF ToggleType, Pick
  <2> QED
    BY <2>1 DEF CommitNew, Commit, StatesKept, HiddenStep
<1>4. ASSUME NEW s \in States, ToggleState(s) PROVE HiddenStep
  <2> DEFINE sel == [Current EXCEPT !.states = Toggle(@, s)]
  <2>1. sel.types = types /\ sel.states \subseteq doneStates \cup {s}
    BY <1>0 DEF Toggle, Current
  <2>2. CommitSame(step, team, sel) /\ options' = options /\ s \in Allowed(options, types)
    BY <1>4 DEF ToggleState, Pick
  <2>3. types' = types /\ doneStates' = sel.states
    BY <2>1, <2>2 DEF CommitSame, Commit, StatesKept
  <2> HIDE DEF sel
  <2> QED
    BY <2>1, <2>2, <2>3 DEF HiddenStep
<1>5. ASSUME NEW e \in history, RestoreEntry(e) PROVE HiddenStep
  <2>1. types' = e.types /\ options' = options
    BY <1>5, RestoreKeeps DEF RestoreEntry, Pick
  <2>2. doneStates' = StatesKept(options, e.types, e.states, ~SameArray(e))
    BY <1>5 DEF RestoreEntry, Commit
  <2>3. CASE SameArray(e)
    <3>1. e.types = types /\ doneStates' = e.states
      BY <2>2, <2>3 DEF SameArray, StatesKept, FiltersInv, SharedArrays
    <3> QED
      BY <2>1, <3>1 DEF HiddenStep
  <2>4. CASE ~SameArray(e)
    BY <2>1, <2>2, <2>4 DEF StatesKept, HiddenStep
  <2> QED
    BY <2>3, <2>4
<1>6. CASE RecordRun
  BY <1>6 DEF RecordRun, HiddenStep
<1>7. CASE ApplyQuickFilterConfig
  <2>1. \/ UNCHANGED <<types, doneStates, options>>
        \/ \E sel : CommitNew(step, team, options, sel) /\ options' = options
    BY <1>7 DEF ApplyQuickFilterConfig
  <2> QED
    BY <2>1 DEF CommitNew, Commit, StatesKept, HiddenStep
<1>8. CASE Disconnect
  BY <1>8 DEF Disconnect, HiddenStep
<1> QED
  BY <1>1, <1>2, <1>3, <1>4, <1>5, <1>6, <1>7, <1>8 DEF Next

(* HiddenStatesAreRestored, for every history, every reply and every order of  *)
(* toggles, shortcuts, restores and late answers.                              *)
THEOREM HiddenStatesComeFromRestores == Spec => HiddenStatesAreRestored
<1>1. [][FiltersInv /\ [Next]_vars]_vars => [][HiddenStep]_vars
  BY HiddenStates, PTL
<1>2. [][HiddenStep]_vars => HiddenStatesAreRestored
  BY PTL DEF HiddenStep, HiddenStatesAreRestored
<1> QED
  BY <1>1, <1>2, FiltersInvariant, PTL DEF Spec
=============================================================================
