------------------------ MODULE ForecastSessionProofs ------------------------
(***************************************************************************)
(* What a forecast session promises for every set of scopes, filters and   *)
(* objectives, every stored history and every number of runs: the result   *)
(* on the screen answers the question on the screen, and a seed belongs to *)
(* one question.                                                           *)
(***************************************************************************)
EXTENDS ForecastSession, SequenceTheorems, WellFoundedInduction, TLAPS

Entries == [params : Params, seed : Seeds \cup {None}, reusable : BOOLEAN, result : Forecasts]
Requests == [run : Nat, params : Params, seed : Seeds]
Replays == [seed : Seeds, signature : Signatures]

(* The answer to the question that a signature stands for. *)
Answer(sig, seed) ==
  [scope |-> sig.scope, filters |-> sig.filters, mode |-> sig.mode, seed |-> seed,
   objective |-> sig.objective]

(* A result and the signature that it is filed under. *)
Filed(res, exe) == res # None => exe # None /\ res = Answer(exe, res.seed)

SessionTypeOK ==
  /\ screen \in {"teams", "simulation"} /\ pat \in BOOLEAN
  /\ launched \in BOOLEAN /\ loading \in BOOLEAN
  /\ params \in Params
  /\ result \in Forecasts \cup {None} /\ executed \in Signatures \cup {None}
  /\ replay \in Replays \cup {None}
  /\ requests \subseteq Requests
  /\ history \in Seq(Entries)
  /\ runs \in 0..MaxRuns /\ edits \in Nat

(* The history holds whole simulations: each result is that of its entry. *)
HistoryIsWhole ==
  \A i \in DOMAIN history : history[i].result = Forecast(history[i].params, history[i].seed)

(* The result on the screen is filed under the signature of the screen. *)
ResultIsFiled ==
  result # None => executed = Signature(params) /\ result = Answer(executed, result.seed)

SessionInv == SessionTypeOK /\ HistoryIsWhole /\ ResultIsFiled

(* The part of it that a commit and its effect settle. *)
ScreenOK ==
  /\ params \in Params /\ launched \in BOOLEAN
  /\ result \in Forecasts \cup {None} /\ executed \in Signatures \cup {None}
  /\ replay \in Replays \cup {None}
  /\ ResultIsFiled

-----------------------------------------------------------------------------
(* The signature keeps what the engine reads. *)
LEMMA SignatureType ==
  ASSUME NEW p \in Params
  PROVE  Signature(p) \in Signatures /\ Signature(p) # None
BY NoneAssumption DEF Params, Signatures, Signature

LEMMA ForecastOfSignature ==
  ASSUME NEW p \in Params, NEW seed
  PROVE  Forecast(p, seed) = Answer(Signature(p), seed)
BY DEF Params, Forecast, Answer, Signature

LEMMA ForecastType ==
  ASSUME NEW p \in Params, NEW seed \in Seeds \cup {None}
  PROVE  Forecast(p, seed) \in Forecasts /\ Forecast(p, seed) # None
         /\ Forecast(p, seed).seed = seed
BY NoneAssumption DEF Params, Forecasts, Forecast

(* Two questions have the same answer exactly when they have one signature. *)
LEMMA OneQuestion ==
  ASSUME NEW p \in Params, NEW q \in Params, NEW seed, Signature(p) = Signature(q)
  PROVE  Forecast(p, seed) = Forecast(q, seed)
BY ForecastOfSignature

LEMMA Elements == \A S : \A s \in Seq(S) : \A i \in DOMAIN s : s[i] \in S
OBVIOUS

LEMMA Retyped ==
  \A S, T : \A s \in Seq(S) : (\A i \in DOMAIN s : s[i] \in T) => s \in Seq(T)
OBVIOUS

(* The seeds of the runs and of the storage are numbers. *)
LEMMA SeedType ==
  /\ Seeds \subseteq Nat /\ None \notin Seeds
  /\ \A i \in DOMAIN Legacy : Legacy[i] \in Entries
<1>1. \A i \in DOMAIN Legacy : Legacy[i] \in
        [params : Params, seed : Nat \cup {None}, reusable : BOOLEAN, result : Forecasts]
  BY StorageAssumption, Elements, Zenon
<1>2. \A i \in DOMAIN Legacy : Legacy[i].seed \in Nat \cup {None}
  BY <1>1
<1> QED
  BY <1>1, <1>2, NoneAssumption, SessionAssumption DEF Seeds, Entries

-----------------------------------------------------------------------------
(* A commit and its effect: what stays is filed under the screen's signature. *)
LEMMA SettledFiles ==
  ASSUME NEW p \in Params, NEW res \in Forecasts \cup {None},
         NEW exe \in Signatures \cup {None}, NEW rep \in Replays \cup {None},
         NEW lau \in BOOLEAN,
         Filed(res, exe), Settled(p, res, exe, rep, lau)
  PROVE  /\ ScreenOK'
         /\ replay' \in {rep, None}
BY DEF Filed, Settled, ResultIsFiled, ScreenOK

(* The result of an entry is filed under the signature of its parameters. *)
LEMMA RestoreFiles ==
  ASSUME SessionInv, NEW p \in Params, NEW i \in DOMAIN history, Restore(p, history[i])
  PROVE  /\ ScreenOK'
         /\ replay' # None =>
              replay' = [seed |-> history[i].seed, signature |-> Signature(history[i].params)]
         /\ replay' # None => history[i].seed # None
<1> DEFINE e == history[i]
           rep == IF e.seed = None THEN None
                  ELSE [seed |-> e.seed, signature |-> Signature(e.params)]
<1>1. e \in Entries
  BY DEF SessionInv, SessionTypeOK
<1>2. e.params \in Params /\ e.seed \in Seeds \cup {None}
  BY <1>1 DEF Entries
<1>3. e.result = Forecast(e.params, e.seed)
  BY DEF SessionInv, HistoryIsWhole
<1>4. e.result \in Forecasts /\ Signature(e.params) \in Signatures
      /\ Signature(e.params) # None /\ Filed(e.result, Signature(e.params))
  BY <1>2, <1>3, SignatureType, ForecastType, ForecastOfSignature DEF Filed
<1>5. rep \in Replays \cup {None}
  BY <1>2, <1>4 DEF Replays
<1>6. Settled(p, e.result, Signature(e.params), rep, TRUE)
  BY DEF Restore
<1> HIDE DEF e, rep
<1>7. replay' \in {rep, None} /\ ScreenOK'
  BY <1>4, <1>5, <1>6, SettledFiles
<1> QED
  BY <1>7 DEF e, rep

(* The newest entry of a non-empty set of places is one of them. *)
LEMMA LatestIsOne ==
  ASSUME NEW S, S \subseteq Nat, S # {}
  PROVE  Latest(S) \in S
<1> DEFINE R == OpToRel(<, Nat)
<1>1. IsWellFoundedOn(R, Nat)
  BY NatLessThanWellFounded, Zenon
<1>2. PICK i \in S : \A j \in S : <<j, i>> \notin R
  BY <1>1, WFMin, Zenon
<1>3. \A j \in S : i <= j
  <2> SUFFICES ASSUME NEW j \in S, j < i PROVE FALSE
    OBVIOUS
  <2>1. <<j, i>> \in Nat \X Nat /\ <<j, i>>[1] < <<j, i>>[2]
    OBVIOUS
  <2>2. <<j, i>> \in R
    BY <2>1 DEF OpToRel
  <2> QED
    BY <1>2, <2>2
<1> QED
  BY <1>3 DEF Latest

LEMMA ReusableIsOne ==
  ASSUME history \in Seq(Entries), NEW sig, Reusable(sig) # {}
  PROVE  Latest(Reusable(sig)) \in DOMAIN history
<1>1. Reusable(sig) \subseteq DOMAIN history /\ DOMAIN history \subseteq Nat
  BY DEF Reusable
<1> QED
  BY <1>1, LatestIsOne, Zenon

(* The history after a run starts with its entry; the others were there. *)
LEMMA PushedEntries ==
  ASSUME history \in Seq(Entries), NEW e \in Entries
  PROVE  /\ Pushed(e) \in Seq(Entries)
         /\ \A i \in DOMAIN Pushed(e) :
              Pushed(e)[i] = e \/ \E j \in DOMAIN history : Pushed(e)[i] = history[j]
<1> DEFINE all == <<e>> \o history
           n == IF Len(history) < MaxHistory THEN Len(history) + 1 ELSE MaxHistory
<1>1. /\ all \in Seq(Entries) /\ Len(all) = Len(history) + 1
      /\ \A i \in 1..Len(all) : all[i] = IF i = 1 THEN e ELSE history[i - 1]
  OBVIOUS
<1>2. n \in 1..Len(all)
  BY <1>1, SessionAssumption
<1> HIDE DEF all, n
<1>3. /\ SubSeq(all, 1, n) \in Seq(Entries) /\ Len(SubSeq(all, 1, n)) = n
      /\ \A i \in 1..n : SubSeq(all, 1, n)[i] = all[i]
  BY <1>1, <1>2, SubSeqProperties
<1>4. Pushed(e) = SubSeq(all, 1, n)
  BY DEF Pushed, all, n
<1>5. \A i \in 1..n : all[i] = e \/ \E j \in DOMAIN history : all[i] = history[j]
  <2> SUFFICES ASSUME NEW i \in 1..n, i # 1 PROVE \E j \in DOMAIN history : all[i] = history[j]
    BY <1>1, <1>2
  <2>1. i - 1 \in DOMAIN history /\ all[i] = history[i - 1]
    BY <1>1, <1>2
  <2> QED
    BY <2>1
<1> QED
  BY <1>3, <1>4, <1>5
-----------------------------------------------------------------------------
LEMMA SessionStarts == Init => SessionInv
<1> SUFFICES ASSUME Init PROVE SessionInv
  OBVIOUS
<1>1. params \in Params
  <2>1. PICK p \in Preferences : params = [p EXCEPT !.scope = NoScope, !.filters = NoFilters]
    BY DEF Init
  <2>2. p \in Params
    BY StorageAssumption, Zenon
  <2> QED
    BY <2>1, <2>2 DEF Params
<1>2. Legacy \in Seq(Entries)
  BY StorageAssumption, SeedType, Retyped, Zenon
<1>3. HistoryIsWhole
  BY StorageAssumption, Zenon DEF Init, HistoryIsWhole
<1>4. 0 \in 0..MaxRuns
  BY SessionAssumption
<1> QED
  BY <1>1, <1>2, <1>3, <1>4 DEF Init, SessionInv, SessionTypeOK, ResultIsFiled

(* The result on the screen may be kept, with the signature it has. *)
LEMMA KeptIsFiled == SessionInv => Filed(result, executed) /\ Filed(None, None)
<1> SUFFICES ASSUME SessionInv PROVE Filed(result, executed)
  BY DEF Filed
<1>1. Signature(params) # None
  BY SignatureType DEF SessionInv, SessionTypeOK
<1> QED
  BY <1>1 DEF SessionInv, ResultIsFiled, Filed

LEMMA SessionStep == SessionInv /\ [Next]_vars => SessionInv'
<1> SUFFICES ASSUME SessionInv, [Next]_vars PROVE SessionInv'
  OBVIOUS
<1> USE DEF SessionInv, HistoryIsWhole, ScreenOK
<1>0. Filed(result, executed) /\ Filed(None, None)
  BY KeptIsFiled
<1>1. ASSUME NEW s \in Scopes, SelectTeam(s) PROVE SessionInv'
  <2>1. [params EXCEPT !.scope = s] \in Params
    BY DEF SessionTypeOK, Params
  <2> HIDE DEF Settled
  <2>2. ScreenOK'
    BY <1>0, <1>1, <2>1, SettledFiles DEF SelectTeam, SessionTypeOK
  <2> QED
    BY <1>1, <2>2 DEF SelectTeam, SessionTypeOK
<1>2. CASE OpenSimulation \/ ResetResults
  <2>1. Settled(params, None, None, None, FALSE)
    BY <1>2 DEF OpenSimulation, ResetResults
  <2>2. ScreenOK'
    BY <1>0, <2>1, SettledFiles DEF SessionTypeOK
  <2> QED
    BY <1>2, <2>2 DEF OpenSimulation, ResetResults, SessionTypeOK
<1>3. CASE LeaveSimulation \/ Reconnect
  BY <1>3 DEF LeaveSimulation, Reconnect, SessionTypeOK, ResultIsFiled
<1>4. ASSUME NEW p \in Params, Edit(p) PROVE SessionInv'
  <2>1. ScreenOK'
    BY <1>0, <1>4, SettledFiles DEF Edit, SessionTypeOK
  <2> QED
    BY <1>4, <2>1 DEF Edit, SessionTypeOK
<1>5. CASE RunWithoutFilters
  <2>1. ScreenOK'
    BY <1>0, <1>5, SettledFiles DEF RunWithoutFilters, SessionTypeOK
  <2> QED
    BY <1>5, <2>1 DEF RunWithoutFilters, SessionTypeOK
<1>6. CASE RunFromHistory
  <2>1. Latest(Reusable(Signature(params))) \in DOMAIN history
    BY <1>6, ReusableIsOne DEF RunFromHistory, SessionTypeOK
  <2>2. ScreenOK'
    BY <1>6, <2>1, RestoreFiles DEF RunFromHistory, SessionTypeOK
  <2> QED
    BY <1>6, <2>2 DEF RunFromHistory, SessionTypeOK
<1>7. CASE LaunchRun
  <2>1. ScreenOK'
    BY <1>0, <1>7, SettledFiles DEF LaunchRun, SessionTypeOK
  <2>2. runs + 1 \in 1..MaxRuns
    BY <1>7, SessionAssumption DEF LaunchRun, SessionTypeOK
  <2>3. SeedToRun \in Seeds
    BY <2>2 DEF SeedToRun, Seeds, SessionTypeOK, Replays
  <2>4. requests' \subseteq Requests
    BY <1>7, <2>2, <2>3 DEF LaunchRun, SessionTypeOK, Requests
  <2> QED
    BY <1>7, <2>1, <2>2, <2>4, SessionAssumption DEF LaunchRun, SessionTypeOK
<1>8. ASSUME NEW r \in requests, RunSucceeds(r) PROVE SessionInv'
  <2>1. r.params \in Params /\ r.seed \in Seeds
    BY DEF SessionTypeOK, Requests
  <2>2. /\ Forecast(r.params, r.seed) \in Forecasts
        /\ Signature(r.params) \in Signatures
        /\ Filed(Forecast(r.params, r.seed), Signature(r.params))
    BY <2>1, SignatureType, ForecastType, ForecastOfSignature DEF Filed
  <2>3. ScreenOK'
    BY <1>8, <2>2, SettledFiles DEF RunSucceeds, ExecutedBy, SessionTypeOK
  <2>4. Entry(r) \in Entries
    BY <2>1, <2>2 DEF Entry, Entries
  <2>5. history' \in Seq(Entries)
    BY <1>8, <2>4, PushedEntries DEF RunSucceeds, SessionTypeOK
  <2>6. HistoryIsWhole'
    <3>1. Entry(r).result = Forecast(Entry(r).params, Entry(r).seed)
      BY DEF Entry
    <3>2. history' = Pushed(Entry(r)) /\ history \in Seq(Entries)
      BY <1>8 DEF RunSucceeds, SessionTypeOK
    <3> HIDE DEF Entry
    <3> QED
      BY <2>4, <3>1, <3>2, PushedEntries
  <2> QED
    BY <1>8, <2>3, <2>5, <2>6 DEF RunSucceeds, SessionTypeOK
<1>9. ASSUME NEW r \in requests, RunFails(r) PROVE SessionInv'
  <2>1. ScreenOK'
    BY <1>0, <1>9, SettledFiles DEF RunFails, SessionTypeOK
  <2> QED
    BY <1>9, <2>1 DEF RunFails, LoadingAfter, SessionTypeOK
<1>10. ASSUME NEW i \in 1..MaxHistory, ApplyHistoryEntry(i) PROVE SessionInv'
  <2>1. PICK f \in {history[i].params.filters, NoFilters} :
          Restore([history[i].params EXCEPT !.scope = params.scope, !.filters = f], history[i])
    BY <1>10 DEF ApplyHistoryEntry
  <2>2. i \in DOMAIN history /\ history[i] \in Entries
    BY <1>10, Elements, Zenon DEF ApplyHistoryEntry, SessionTypeOK
  <2>3. history[i].params \in Params
    BY <2>2 DEF Entries
  <2>4. [history[i].params EXCEPT !.scope = params.scope, !.filters = f] \in Params
    BY <2>3 DEF SessionTypeOK, Params
  <2>5. ScreenOK'
    BY <2>1, <2>2, <2>4, RestoreFiles
  <2> QED
    BY <1>10, <2>5 DEF ApplyHistoryEntry, SessionTypeOK
<1>11. CASE ClearSimulationHistory
  BY <1>11 DEF ClearSimulationHistory, SessionTypeOK, ResultIsFiled
<1>12. CASE Disconnect
  <2>1. [params EXCEPT !.scope = NoScope, !.filters = NoFilters] \in Params
    BY DEF SessionTypeOK, Params
  <2>2. ScreenOK'
    BY <1>0, <1>12, <2>1, SettledFiles DEF Disconnect, SessionTypeOK
  <2> QED
    BY <1>12, <2>2 DEF Disconnect, SessionTypeOK
<1>13. CASE UNCHANGED vars
  BY <1>13 DEF vars, SessionTypeOK, ResultIsFiled
<1> QED
  BY <1>1, <1>2, <1>3, <1>4, <1>5, <1>6, <1>7, <1>8, <1>9, <1>10, <1>11, <1>12, <1>13 DEF Next

LEMMA SessionInvariant == Spec => []SessionInv
BY SessionStarts, SessionStep, PTL DEF Spec

(* ResultAnswersTheScreen, for every history, every late answer and every    *)
(* sequence of edits: the effect of useSimulation drops what no longer       *)
(* answers, because each result is filed under the signature of its run.     *)
THEOREM TheScreenIsAnswered == Spec => []ResultAnswersTheScreen
<1>1. SessionInv => ResultAnswersTheScreen
  <2> SUFFICES ASSUME SessionInv, result # None PROVE Answers(result, params)
    BY DEF ResultAnswersTheScreen
  <2>1. params \in Params /\ result = Answer(Signature(params), result.seed)
    BY DEF SessionInv, SessionTypeOK, ResultIsFiled
  <2> QED
    BY <2>1, ForecastOfSignature DEF Answers
<1> QED
  BY <1>1, SessionInvariant, PTL
-----------------------------------------------------------------------------
(* The seeds that may come back, each with the question it was drawn for:    *)
(* those of the runs in flight, of the history, of the replay context.       *)
Held(seed, sig) ==
  \/ \E r \in requests : r.seed = seed /\ Signature(r.params) = sig
  \/ \E i \in DOMAIN history : history[i].seed = seed /\ Signature(history[i].params) = sig
  \/ replay # None /\ replay.seed = seed /\ replay.signature = sig

SeedsInv ==
  /\ \A seed \in Seeds : \A a, b \in Signatures : Held(seed, a) /\ Held(seed, b) => a = b
  /\ \A seed \in (runs + 1)..MaxRuns : \A a \in Signatures : ~Held(seed, a)

LEMMA SeedsStart == Init => SeedsInv
<1> SUFFICES ASSUME Init PROVE SeedsInv
  OBVIOUS
<1>1. requests = {} /\ history = Legacy /\ replay = None /\ runs = 0
  BY DEF Init
<1>2. \A seed, a : Held(seed, a) =>
        \E i \in DOMAIN Legacy : Legacy[i].seed = seed /\ Signature(Legacy[i].params) = a
  BY <1>1, Zenon DEF Held
<1>3. ASSUME NEW seed \in Seeds, NEW a \in Signatures, NEW b \in Signatures,
             Held(seed, a), Held(seed, b)
      PROVE  a = b
  <2>1. PICK i \in DOMAIN Legacy : Legacy[i].seed = seed /\ Signature(Legacy[i].params) = a
    BY <1>2, <1>3, Zenon
  <2>2. PICK j \in DOMAIN Legacy : Legacy[j].seed = seed /\ Signature(Legacy[j].params) = b
    BY <1>2, <1>3, Zenon
  <2>3. seed # None
    BY SeedType
  <2> QED
    BY <2>1, <2>2, <2>3, StorageAssumption, Zenon
<1>4. ASSUME NEW seed \in (runs + 1)..MaxRuns, NEW a \in Signatures, Held(seed, a)
      PROVE  FALSE
  <2>1. PICK i \in DOMAIN Legacy : Legacy[i].seed = seed
    BY <1>2, <1>4, Zenon
  <2>2. seed \in 1..MaxRuns
    BY <1>1
  <2> QED
    BY <2>1, <2>2, StorageAssumption, Zenon
<1> QED
  BY <1>3, <1>4, Zenon DEF SeedsInv

(* Only a launch makes a seed belong to a question it did not belong to.     *)
LEMMA OnlyLaunchesDraw ==
  ASSUME SessionInv, [Next]_vars, NEW seed \in Seeds, NEW a \in Signatures, Held(seed, a)'
  PROVE  \/ runs' = runs /\ Held(seed, a)
         \/ LaunchRun /\ (Held(seed, a) \/ (seed = SeedToRun /\ a = Signature(params)))
<1>1. ASSUME requests' \subseteq requests, history' = history, replay' \in {replay, None}
      PROVE  Held(seed, a)
  BY <1>1 DEF Held
<1>2. ASSUME NEW s \in Scopes, SelectTeam(s)
      PROVE  runs' = runs /\ Held(seed, a)
  BY <1>1, <1>2 DEF SelectTeam, Settled
<1>3. CASE OpenSimulation \/ ResetResults \/ RunWithoutFilters
  BY <1>1, <1>3 DEF OpenSimulation, ResetResults, RunWithoutFilters, Settled
<1>4. CASE LeaveSimulation \/ Reconnect
  BY <1>1, <1>4 DEF LeaveSimulation, Reconnect
<1>5. ASSUME NEW p \in Params, Edit(p)
      PROVE  runs' = runs /\ Held(seed, a)
  BY <1>1, <1>5 DEF Edit, Settled
<1>6. ASSUME NEW p \in Params, NEW i \in DOMAIN history, Restore(p, history[i]),
             UNCHANGED <<requests, history>>
      PROVE  Held(seed, a)
  <2>1. replay' # None =>
          /\ replay' = [seed |-> history[i].seed, signature |-> Signature(history[i].params)]
          /\ replay'.seed = history[i].seed
          /\ replay'.signature = Signature(history[i].params)
    BY <1>6, RestoreFiles
  <2> QED
    BY <1>6, <2>1, Zenon DEF Held
<1>7. CASE RunFromHistory
  <2>1. Latest(Reusable(Signature(params))) \in DOMAIN history
    BY <1>7, ReusableIsOne DEF RunFromHistory, SessionInv, SessionTypeOK
  <2> QED
    BY <1>6, <1>7, <2>1 DEF RunFromHistory, SessionInv, SessionTypeOK
<1>8. CASE LaunchRun
  <2>1. /\ requests' = requests \cup {[run |-> runs + 1, params |-> params, seed |-> SeedToRun]}
        /\ history' = history /\ replay' \in {replay, None}
    BY <1>8 DEF LaunchRun, Settled
  <2> QED
    BY <1>8, <2>1 DEF Held
<1>9. ASSUME NEW r \in requests, RunSucceeds(r)
      PROVE  runs' = runs /\ Held(seed, a)
  <2>1. /\ requests' \subseteq requests /\ history' = Pushed(Entry(r)) /\ runs' = runs
        /\ replay' \in {replay, None}
    BY <1>9 DEF RunSucceeds, Settled
  <2>2. Entry(r).seed = r.seed /\ Entry(r).params = r.params
    BY DEF Entry
  <2>3. r.params \in Params /\ r.seed \in Seeds
    BY DEF SessionInv, SessionTypeOK, Requests
  <2>4. Entry(r) \in Entries /\ history \in Seq(Entries)
    BY <2>3, ForecastType DEF Entry, Entries, SessionInv, SessionTypeOK
  <2>5. ASSUME NEW i \in DOMAIN history', history'[i].seed = seed,
               Signature(history'[i].params) = a
        PROVE  Held(seed, a)
    <3>1. history'[i] = Entry(r) \/ \E j \in DOMAIN history : history'[i] = history[j]
      BY <2>1, <2>4, PushedEntries, Zenon
    <3> QED
      BY <2>2, <2>5, <3>1, Zenon DEF Held
  <2>6. (\E i \in DOMAIN history' : history'[i].seed = seed /\ Signature(history'[i].params) = a)
          => Held(seed, a)
    BY <2>5, Zenon
  <2>7. (\E q \in requests' : q.seed = seed /\ Signature(q.params) = a) => Held(seed, a)
    BY <2>1, Zenon DEF Held
  <2>8. replay' # None /\ replay'.seed = seed /\ replay'.signature = a => Held(seed, a)
    BY <2>1 DEF Held
  <2> QED
    BY <2>1, <2>6, <2>7, <2>8, Zenon DEF Held
<1>10. ASSUME NEW r \in requests, RunFails(r)
       PROVE  runs' = runs /\ Held(seed, a)
  BY <1>1, <1>10 DEF RunFails, Settled
<1>11. ASSUME NEW i \in 1..MaxHistory, ApplyHistoryEntry(i)
       PROVE  runs' = runs /\ Held(seed, a)
  <2>1. PICK f \in {history[i].params.filters, NoFilters} :
          Restore([history[i].params EXCEPT !.scope = params.scope, !.filters = f], history[i])
    BY <1>11 DEF ApplyHistoryEntry
  <2>2. i \in DOMAIN history /\ history[i] \in Entries /\ params \in Params
    BY <1>11, Elements, Zenon DEF ApplyHistoryEntry, SessionInv, SessionTypeOK
  <2>3. [history[i].params EXCEPT !.scope = params.scope, !.filters = f] \in Params
    BY <2>2 DEF Entries, Params
  <2> QED
    BY <1>6, <1>11, <2>1, <2>2, <2>3 DEF ApplyHistoryEntry
<1>12. CASE ClearSimulationHistory
  BY <1>12 DEF ClearSimulationHistory, Held
<1>13. CASE Disconnect
  BY <1>1, <1>13 DEF Disconnect, Settled
<1>14. CASE UNCHANGED vars
  BY <1>1, <1>14 DEF vars
<1> QED
  BY <1>2, <1>3, <1>4, <1>5, <1>7, <1>8, <1>9, <1>10, <1>11, <1>12, <1>13, <1>14 DEF Next

LEMMA SeedsStep == SessionInv /\ SeedsInv /\ [Next]_vars => SeedsInv'
<1> SUFFICES ASSUME SessionInv, SeedsInv, [Next]_vars PROVE SeedsInv'
  OBVIOUS
<1>1. Signature(params) \in Signatures /\ runs \in 0..MaxRuns /\ MaxRuns \in Nat
  BY SignatureType, SessionAssumption DEF SessionInv, SessionTypeOK
<1>2. 1..MaxRuns \subseteq Seeds
  BY DEF Seeds
<1>3. CASE ~LaunchRun
  <2>1. \A seed \in Seeds : \A a \in Signatures : Held(seed, a)' => runs' = runs /\ Held(seed, a)
    BY <1>3, OnlyLaunchesDraw
  <2>2. runs' \in 0..MaxRuns
    BY SessionStep DEF SessionInv, SessionTypeOK
  <2>3. \A seed \in (runs' + 1)..MaxRuns : seed \in 1..MaxRuns
    <3>1. \A r \in 0..MaxRuns : \A seed \in (r + 1)..MaxRuns : seed \in 1..MaxRuns
      BY <1>1
    <3> QED
      BY <2>2, <3>1, Zenon
  <2>4. \A seed \in (runs' + 1)..MaxRuns : \A a \in Signatures : ~Held(seed, a)'
    BY <1>2, <2>1, <2>3, Zenon DEF SeedsInv
  <2> QED
    BY <2>1, <2>4, Zenon DEF SeedsInv
<1>4. CASE LaunchRun
  <2>1. \A seed \in Seeds : \A a \in Signatures :
          Held(seed, a)' => Held(seed, a) \/ (seed = SeedToRun /\ a = Signature(params))
    BY OnlyLaunchesDraw
  <2>2. runs' = runs + 1 /\ runs' \in 1..MaxRuns
    BY <1>1, <1>4 DEF LaunchRun
  <2>3. CASE replay # None /\ replay.signature = Signature(params)
    <3>1. Held(SeedToRun, Signature(params)) /\ SeedToRun = replay.seed
      BY <2>3 DEF SeedToRun, Held
    <3>2. \A seed \in Seeds : \A a \in Signatures : Held(seed, a)' => Held(seed, a)
      BY <2>1, <3>1, Zenon
    <3>3. \A seed \in (runs' + 1)..MaxRuns : seed \in (runs + 1)..MaxRuns /\ seed \in Seeds
      BY <1>1, <1>2, <2>2
    <3> QED
      BY <3>2, <3>3, Zenon DEF SeedsInv
  <2>4. CASE ~(replay # None /\ replay.signature = Signature(params))
    <3>1. SeedToRun = runs + 1
      BY <2>4 DEF SeedToRun
    <3>2. runs + 1 \in (runs + 1)..MaxRuns /\ runs + 1 \in Seeds
      BY <1>1, <1>2, <2>2
    <3>3. \A a \in Signatures : ~Held(runs + 1, a)
      BY <3>2, Zenon DEF SeedsInv
    <3>4. ASSUME NEW seed \in Seeds, NEW a \in Signatures, NEW b \in Signatures,
                 Held(seed, a)', Held(seed, b)'
          PROVE  a = b
      BY <2>1, <3>1, <3>3, <3>4, Zenon DEF SeedsInv
    <3>5. ASSUME NEW seed \in (runs' + 1)..MaxRuns, NEW a \in Signatures, Held(seed, a)'
          PROVE  FALSE
      <4>1. seed \in (runs + 1)..MaxRuns /\ seed \in Seeds /\ seed # runs + 1
        BY <1>1, <1>2, <2>2
      <4> QED
        BY <2>1, <3>1, <3>5, <4>1, Zenon DEF SeedsInv
    <3> QED
      BY <3>4, <3>5, Zenon DEF SeedsInv
  <2> QED
    BY <2>3, <2>4
<1> QED
  BY <1>3, <1>4

LEMMA SeedsInvariant == Spec => [](SessionInv /\ SeedsInv)
<1>1. Init => SessionInv /\ SeedsInv
  BY SessionStarts, SeedsStart
<1>2. SessionInv /\ SeedsInv /\ [Next]_vars => (SessionInv /\ SeedsInv)'
  BY SessionStep, SeedsStep
<1> QED
  BY <1>1, <1>2, PTL DEF Spec

(* SeedsAreNotShared, however many runs and restored entries: the seed of a  *)
(* replay is used again for the signature it was drawn for only, so two      *)
(* entries with one seed are the same simulation.                            *)
THEOREM SeedsStayTogether == Spec => []SeedsAreNotShared
<1>1. SessionInv /\ SeedsInv => SeedsAreNotShared
  <2> SUFFICES ASSUME SessionInv, SeedsInv PROVE SeedsAreNotShared
    OBVIOUS
  <2> DEFINE items ==
        {[seed |-> r.seed, params |-> r.params] : r \in requests}
          \cup {[seed |-> history[i].seed, params |-> history[i].params] : i \in DOMAIN history}
  <2>1. ASSUME NEW x \in items, x.seed # None
        PROVE  x.params \in Params /\ x.seed \in Seeds /\ Held(x.seed, Signature(x.params))
    <3>1. CASE \E r \in requests : x = [seed |-> r.seed, params |-> r.params]
      BY <3>1 DEF Held, SessionInv, SessionTypeOK, Requests
    <3>2. CASE \E i \in DOMAIN history : x = [seed |-> history[i].seed, params |-> history[i].params]
      <4>1. PICK i \in DOMAIN history : x = [seed |-> history[i].seed, params |-> history[i].params]
        BY <3>2
      <4>2. history[i] \in Entries
        BY Elements, Zenon DEF SessionInv, SessionTypeOK
      <4>3. x.seed = history[i].seed /\ x.params = history[i].params
        BY <4>1
      <4>4. x.params \in Params /\ x.seed \in Seeds
        BY <2>1, <4>2, <4>3 DEF Entries
      <4> QED
        BY <4>3, <4>4, Zenon DEF Held
    <3> QED
      BY <2>1, <3>1, <3>2
  <2> HIDE DEF items
  <2>2. ASSUME NEW a \in items, NEW b \in items, a.seed = b.seed, a.seed # None
        PROVE  Forecast(a.params, a.seed) = Forecast(b.params, b.seed)
    <3>1. /\ a.params \in Params /\ b.params \in Params /\ a.seed \in Seeds
          /\ Held(a.seed, Signature(a.params)) /\ Held(a.seed, Signature(b.params))
      BY <2>1, <2>2
    <3>2. Signature(a.params) = Signature(b.params)
      BY <3>1, SignatureType, Zenon DEF SeedsInv
    <3> QED
      BY <2>2, <3>1, <3>2, OneQuestion
  <2> QED
    BY <2>2, Zenon DEF SeedsAreNotShared, items
<1> QED
  BY <1>1, SeedsInvariant, PTL
=============================================================================
