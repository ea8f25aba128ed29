------------------------ MODULE SimulateRoutesProofs ------------------------
(* The routes of the simulation for any number of requests and tokens, and   *)
(* their limiter for any number of workers, clients, outages and requests.   *)
EXTENDS SimulateRequests, RateLimiter, TLAPS

(* The next-state relation of the module, action by action.                *)
LEMMA NextCases ==
  ASSUME Next
  PROVE  \/ \E r \in Simulations :
              \/ Admit(r) \/ StartComputation(r) \/ ComputationEnds(r) \/ Deliver(r)
              \/ Timeout(r) \/ StartSave(r) \/ EndSave(r)
         \/ \E r \in Histories : StartHistory(r) \/ EndHistory(r)
  BY DEF Next

-----------------------------------------------------------------------------
(* Every step keeps the types.                                             *)
THEOREM Typing == Spec => []TypeOK
<1> USE DEF Requests, Answers
<1>1. Init => TypeOK
  BY DEF Init, TypeOK
<1>2. TypeOK /\ [Next]_vars => TypeOK'
  <2> SUFFICES ASSUME TypeOK, [Next]_vars PROVE TypeOK'
    OBVIOUS
  <2>1. CASE UNCHANGED vars
    BY <2>1 DEF TypeOK, vars
  <2>2. ASSUME NEW r \in Simulations, Admit(r) PROVE TypeOK'
    BY <2>2 DEF TypeOK, Admit, Goto
  <2>3. ASSUME NEW r \in Simulations, StartComputation(r) PROVE TypeOK'
    BY <2>3 DEF TypeOK, StartComputation, Goto
  <2>4. ASSUME NEW r \in Simulations, ComputationEnds(r) PROVE TypeOK'
    BY <2>4 DEF TypeOK, ComputationEnds
  <2>5. ASSUME NEW r \in Simulations, Deliver(r) PROVE TypeOK'
    BY <2>5 DEF TypeOK, Deliver, Goto
  <2>6. ASSUME NEW r \in Simulations, Timeout(r) PROVE TypeOK'
    BY <2>6 DEF TypeOK, Timeout, Goto
  <2>7. ASSUME NEW r \in Simulations, StartSave(r) PROVE TypeOK'
    BY <2>7 DEF TypeOK, StartSave
  <2>8. ASSUME NEW r \in Simulations, EndSave(r) PROVE TypeOK'
    BY <2>8 DEF TypeOK, EndSave
  <2>9. ASSUME NEW r \in Histories, StartHistory(r) PROVE TypeOK'
    BY <2>9 DEF TypeOK, StartHistory, Goto
  <2>10. ASSUME NEW r \in Histories, EndHistory(r) PROVE TypeOK'
    BY <2>10 DEF TypeOK, EndHistory, Goto
  <2>11. QED
    BY <2>1, <2>2, <2>3, <2>4, <2>5, <2>6, <2>7, <2>8, <2>9, <2>10, NextCases
<1>3. QED
  BY <1>1, <1>2, PTL DEF Spec

-----------------------------------------------------------------------------
(* The inductive invariant: a task exists only behind an answered result,  *)
(* and a request is in a pool thread only in its own kind of wait.         *)
Served ==
  /\ TypeOK
  /\ OnlyAnsweredSimulationsAreSaved
  /\ \A r \in Histories : pc[r] \notin {"waiting", "computing", "timedOut"}
  /\ \A r \in Simulations : pc[r] # "reading"
  /\ \A r \in Simulations : pc[r] \in {"new", "waiting"} => thread[r] = "none"

(* Every step keeps the invariant.                                         *)
LEMMA ServedHolds == Spec => []Served
<1> USE PoolAssumption DEF Requests, Answers, OnlyAnsweredSimulationsAreSaved
<1>1. Init => Served
  BY DEF Init, TypeOK, Served
<1>2. TypeOK' /\ Served /\ [Next]_vars => Served'
  <2> SUFFICES ASSUME TypeOK', Served, [Next]_vars PROVE Served'
    OBVIOUS
  <2> USE DEF Served
  <2>1. CASE UNCHANGED vars
    BY <2>1 DEF vars
  <2>2. ASSUME NEW r \in Simulations, Admit(r) PROVE Served'
    BY <2>2 DEF TypeOK, Admit, Goto
  <2>3. ASSUME NEW r \in Simulations, StartComputation(r) PROVE Served'
    BY <2>3 DEF TypeOK, StartComputation, Goto
  <2>4. ASSUME NEW r \in Simulations, ComputationEnds(r) PROVE Served'
    BY <2>4 DEF TypeOK, ComputationEnds
  <2>5. ASSUME NEW r \in Simulations, Deliver(r) PROVE Served'
    BY <2>5 DEF TypeOK, Deliver, Goto
  <2>6. ASSUME NEW r \in Simulations, Timeout(r) PROVE Served'
    BY <2>6 DEF TypeOK, Timeout, Goto
  <2>7. ASSUME NEW r \in Simulations, StartSave(r) PROVE Served'
    BY <2>7 DEF TypeOK, StartSave
  <2>8. ASSUME NEW r \in Simulations, EndSave(r) PROVE Served'
    BY <2>8 DEF TypeOK, EndSave
  <2>9. ASSUME NEW r \in Histories, StartHistory(r) PROVE Served'
    BY <2>9 DEF TypeOK, StartHistory, Goto
  <2>10. ASSUME NEW r \in Histories, EndHistory(r) PROVE Served'
    BY <2>10 DEF TypeOK, EndHistory, Goto
  <2>11. QED
    BY <2>1, <2>2, <2>3, <2>4, <2>5, <2>6, <2>7, <2>8, <2>9, <2>10, NextCases
<1>3. QED
  BY <1>1, <1>2, Typing, PTL DEF Spec

(* A computation that ends after the timeout of its request is not saved.  *)
THEOREM LateResultsAreDropped == Spec => []OnlyAnsweredSimulationsAreSaved
<1>1. Served => OnlyAnsweredSimulationsAreSaved
  BY DEF Served
<1>2. QED
  BY <1>1, ServedHolds, PTL

-----------------------------------------------------------------------------
(* The holders of the tokens are told apart.                               *)
LEMMA HoldersDistinct ==
  \A a, b : (Wait(a) = Wait(b) => a = b) /\ (Task(a) = Task(b) => a = b) /\ Wait(a) # Task(b)
BY DEF Wait, Task

(* The holders of a token are the coroutines that await their thread.      *)
THEOREM NoTokenLeaks == Spec => []TokensAreReturned
<1> USE PoolAssumption DEF Requests, Answers
<1>1. Init => TokensAreReturned
  BY DEF Init, Holders, TokensAreReturned, Awaiting, Saving
<1>2. Served /\ TokensAreReturned /\ [Next]_vars => TokensAreReturned'
  <2> SUFFICES ASSUME Served, TokensAreReturned, [Next]_vars PROVE TokensAreReturned'
    OBVIOUS
  <2>0. tokens = Holders(Awaiting, Saving)
    BY DEF TokensAreReturned
  <2>1. SUFFICES tokens' = Holders(Awaiting', Saving')
    BY DEF TokensAreReturned, Holders, Wait, Task
  <2>2. CASE UNCHANGED vars
    <3>1. Awaiting' = Awaiting /\ Saving' = Saving /\ tokens' = tokens
      BY <2>2 DEF vars, Awaiting, Saving
    <3>2. QED
      BY <3>1, <2>0
  <2>3. ASSUME NEW r \in Simulations,
               Admit(r) \/ ComputationEnds(r)
        PROVE  tokens' = Holders(Awaiting', Saving')
    <3>1. Awaiting' = Awaiting /\ Saving' = Saving /\ tokens' = tokens
      BY <2>3 DEF Served, TypeOK, Awaiting, Saving, Admit, ComputationEnds, Goto
    <3>2. QED
      BY <3>1, <2>0
  <2>4. ASSUME NEW r \in Simulations, StartComputation(r)
        PROVE  tokens' = Holders(Awaiting', Saving')
    <3>1. Awaiting' = Awaiting \cup {r} /\ Saving' = Saving /\ tokens' = tokens \cup {Wait(r)}
      BY <2>4 DEF Served, TypeOK, Awaiting, Saving, StartComputation, Goto
    <3>2. Holders(Awaiting \cup {r}, Saving) = Holders(Awaiting, Saving) \cup {Wait(r)}
      BY DEF Holders
    <3>3. QED
      BY <3>1, <3>2, <2>0
  <2>5. ASSUME NEW r \in Simulations, Deliver(r)
        PROVE  tokens' = Holders(Awaiting', Saving')
    <3>1. task[r] # "saving" /\ task'[r] # "saving"
      BY <2>5 DEF Served, TypeOK, Deliver, OnlyAnsweredSimulationsAreSaved
    <3>2. Awaiting' = Awaiting \ {r} /\ Saving' = Saving /\ tokens' = tokens \ {Wait(r)}
      BY <2>5, <3>1 DEF Served, TypeOK, Awaiting, Saving, Deliver, Goto
    <3>3. Holders(Awaiting \ {r}, Saving) = Holders(Awaiting, Saving) \ {Wait(r)}
      BY ONLY HoldersDistinct DEF Holders
    <3>4. QED
      BY <3>2, <3>3, <2>0
  <2>6. ASSUME NEW r \in Simulations, Timeout(r)
        PROVE  tokens' = Holders(Awaiting', Saving')
    <3>1. Awaiting' = Awaiting \ {r} /\ Saving' = Saving /\ tokens' = tokens \ {Wait(r)}
      BY <2>6 DEF Served, TypeOK, Awaiting, Saving, Timeout, Goto
    <3>2. Holders(Awaiting \ {r}, Saving) = Holders(Awaiting, Saving) \ {Wait(r)}
      BY ONLY HoldersDistinct DEF Holders
    <3>3. QED
      BY <3>1, <3>2, <2>0
  <2>7. ASSUME NEW r \in Simulations, StartSave(r)
        PROVE  tokens' = Holders(Awaiting', Saving')
    <3>1. Awaiting' = Awaiting /\ Saving' = Saving \cup {r} /\ tokens' = tokens \cup {Task(r)}
      BY <2>7 DEF Served, TypeOK, Awaiting, Saving, StartSave
    <3>2. Holders(Awaiting, Saving \cup {r}) = Holders(Awaiting, Saving) \cup {Task(r)}
      BY DEF Holders
    <3>3. QED
      BY <3>1, <3>2, <2>0
  <2>8. ASSUME NEW r \in Simulations, EndSave(r)
        PROVE  tokens' = Holders(Awaiting', Saving')
    <3>1. Awaiting' = Awaiting /\ Saving' = Saving \ {r} /\ tokens' = tokens \ {Task(r)}
      BY <2>8 DEF Served, TypeOK, Awaiting, Saving, EndSave
    <3>2. Holders(Awaiting, Saving \ {r}) = Holders(Awaiting, Saving) \ {Task(r)}
      BY ONLY HoldersDistinct DEF Holders
    <3>3. QED
      BY <3>1, <3>2, <2>0
  <2>9. ASSUME NEW r \in Histories, StartHistory(r)
        PROVE  tokens' = Holders(Awaiting', Saving')
    <3>1. Awaiting' = Awaiting \cup {r} /\ Saving' = Saving /\ tokens' = tokens \cup {Wait(r)}
      BY <2>9 DEF Served, TypeOK, Awaiting, Saving, StartHistory, Goto
    <3>2. Holders(Awaiting \cup {r}, Saving) = Holders(Awaiting, Saving) \cup {Wait(r)}
      BY DEF Holders
    <3>3. QED
      BY <3>1, <3>2, <2>0
  <2>10. ASSUME NEW r \in Histories, EndHistory(r)
         PROVE  tokens' = Holders(Awaiting', Saving')
    <3>1. Awaiting' = Awaiting \ {r} /\ Saving' = Saving /\ tokens' = tokens \ {Wait(r)}
      BY <2>10 DEF Served, TypeOK, Awaiting, Saving, EndHistory, Goto
    <3>2. Holders(Awaiting \ {r}, Saving) = Holders(Awaiting, Saving) \ {Wait(r)}
      BY ONLY HoldersDistinct DEF Holders
    <3>3. QED
      BY <3>1, <3>2, <2>0
  <2>11. QED
    BY <2>2, <2>3, <2>4, <2>5, <2>6, <2>7, <2>8, <2>9, <2>10, NextCases
<1>3. QED
  BY <1>1, <1>2, ServedHolds, PTL DEF Spec

-----------------------------------------------------------------------------
(* The limiter that stands before the routes.                                *)

(* While Redis has not stopped in the window, its counters are up to date:   *)
(* every request that was admitted went through them.                        *)
Counted ==
  intact => /\ up
            /\ \A k \in Keys : admitted[k] <= hits[k] /\ admitted[k] <= Limit

(* A worker that remembers an outage has not announced the recovery since.   *)
Remembered == \A w \in Workers : active[w] => lastLog[w] = "warning"

LimiterInv == LimiterTypeOK /\ Counted /\ Remembered

(* What the two logs do to the state of the worker that writes them, and     *)
(* that they leave the other workers alone.                                  *)
LEMMA Logging ==
  ASSUME LimiterInv, NEW w \in Workers, LogWarning(w) \/ LogRecovery(w)
  PROVE  /\ active' \in [Workers -> BOOLEAN] /\ loggedAt' \in [Workers -> 0..MaxTime]
         /\ lastLog' \in [Workers -> {"none", "warning", "recovery"}]
         /\ Remembered'
         /\ \A v \in Workers : v # w => lastLog'[v] = lastLog[v]
<1> USE LimitAssumption DEF LimiterInv, LimiterTypeOK, Remembered
<1>1. CASE LogWarning(w)
  BY <1>1, ZenonT(60) DEF LogWarning, logging
<1>2. CASE LogRecovery(w)
  BY <1>2 DEF LogRecovery, logging
<1> QED BY <1>1, <1>2

(* A warning is up to date after LogWarning. *)
LEMMA Warned ==
  ASSUME LimiterInv, NEW w \in Workers, LogWarning(w)
  PROVE  lastLog'[w] = "warning" /\ clock - loggedAt'[w] < Interval
BY LimitAssumption DEF LimiterInv, LimiterTypeOK, Remembered, LogWarning, logging

(* A request is let through without the counter only while Redis is down. *)
LEMMA LetsThrough ==
  ASSUME LimiterInv, ~up, NEW w \in Workers, NEW k \in Keys, LetThrough(w, k),
         UNCHANGED <<clock, redis>>, requests' \in 0..MaxRequests,
         checking' \in [Workers -> Keys \cup {NoKey}]
  PROVE  LimiterInv'
<1>1. /\ admitted' \in [Keys -> Nat] /\ unthrottled' \in [Workers -> Nat]
  BY DEF LetThrough, LimiterInv, LimiterTypeOK
<1>2. LimiterTypeOK' /\ Remembered'
  BY <1>1, Logging DEF LetThrough, redis, LimiterInv, LimiterTypeOK
<1>3. Counted'
  BY DEF LimiterInv, Counted, redis
<1> QED BY <1>2, <1>3 DEF LimiterInv

LEMMA LimiterSteps ==
  ASSUME LimiterInv, [LimiterNext]_limiterVars
  PROVE  LimiterInv'
<1>1. ASSUME NEW w \in Workers, NEW k \in Keys, StorageStillDown(w, k)
      PROVE  LimiterInv'
  <2>1. requests' \in 0..MaxRequests /\ checking' \in [Workers -> Keys \cup {NoKey}]
    BY <1>1, LimitAssumption DEF StorageStillDown, NewRequest, LimiterInv, LimiterTypeOK
  <2> QED BY <1>1, <2>1, LetsThrough DEF StorageStillDown
<1>2. ASSUME NEW w \in Workers, NEW k \in Keys, BeginCheck(w, k)
      PROVE  LimiterInv'
  <2>1. requests' \in 0..MaxRequests /\ checking' \in [Workers -> Keys \cup {NoKey}]
    BY <1>2, LimitAssumption DEF BeginCheck, NewRequest, LimiterInv, LimiterTypeOK
  <2>2. LimiterTypeOK' /\ Remembered'
    BY <1>2, <2>1, Logging DEF BeginCheck, redis, LimiterInv, LimiterTypeOK
  <2>3. Counted'
    BY <1>2 DEF BeginCheck, redis, LimiterInv, Counted
  <2> QED BY <2>2, <2>3 DEF LimiterInv
<1>3. ASSUME NEW w \in Workers, Hit(w)
      PROVE  LimiterInv'
  <2> DEFINE k == checking[w]
  <2>1. /\ k \in Keys /\ UNCHANGED <<clock, up, outages, intact, requests, unthrottled>>
        /\ hits' = [hits EXCEPT ![k] = @ + 1]
        /\ IF hits[k] < Limit
             THEN admitted' = [admitted EXCEPT ![k] = @ + 1] /\ LogRecovery(w)
           ELSE UNCHANGED <<admitted, logging>>
    BY <1>3 DEF Hit, LimiterInv, LimiterTypeOK
  <2>2. checking' \in [Workers -> Keys \cup {NoKey}]
    BY <1>3 DEF Hit, LimiterInv, LimiterTypeOK
  <2> HIDE DEF k
  <2>3. hits' \in [Keys -> Nat] /\ admitted' \in [Keys -> Nat]
    BY <2>1 DEF LimiterInv, LimiterTypeOK
  <2>4. Counted'
    BY <2>1, LimitAssumption DEF LimiterInv, LimiterTypeOK, Counted
  <2>5. CASE hits[k] < Limit
    BY <2>1, <2>2, <2>3, <2>4, <2>5, Logging DEF LimiterInv, LimiterTypeOK
  <2>6. CASE ~(hits[k] < Limit)
    BY <2>1, <2>2, <2>3, <2>4, <2>6 DEF LimiterInv, LimiterTypeOK, Remembered, logging
  <2> QED BY <2>5, <2>6
<1>4. ASSUME NEW w \in Workers, HitFails(w)
      PROVE  LimiterInv'
  <2>1. /\ checking[w] \in Keys /\ requests' \in 0..MaxRequests
        /\ checking' \in [Workers -> Keys \cup {NoKey}]
    BY <1>4 DEF HitFails, LimiterInv, LimiterTypeOK
  <2> QED BY <1>4, <2>1, LetsThrough DEF HitFails
<1>5. ASSUME NEW w \in Workers, CheckStorage(w)
      PROVE  LimiterInv'
  <2>1. LimiterTypeOK' /\ Remembered'
    BY <1>5, Logging DEF CheckStorage, redis, LimiterInv, LimiterTypeOK
  <2>2. Counted'
    BY <1>5 DEF CheckStorage, redis, LimiterInv, Counted
  <2> QED BY <2>1, <2>2 DEF LimiterInv
<1>6. CASE RedisStops
  <2>1. hits' \in [Keys -> Nat]
    BY <1>6 DEF RedisStops, LimiterInv, LimiterTypeOK
  <2>2. outages' \in 0..MaxOutages
    BY <1>6, LimitAssumption DEF RedisStops, LimiterInv, LimiterTypeOK
  <2> QED BY <1>6, <2>1, <2>2 DEF RedisStops, logging, LimiterInv, LimiterTypeOK, Counted, Remembered
<1>7. CASE RedisStarts
  BY <1>7 DEF RedisStarts, logging, LimiterInv, LimiterTypeOK, Counted, Remembered
<1>8. CASE NewWindow
  BY <1>8, LimitAssumption DEF NewWindow, logging, LimiterInv, LimiterTypeOK, Counted, Remembered
<1>9. CASE Tick
  BY <1>9, LimitAssumption DEF Tick, redis, logging, LimiterInv, LimiterTypeOK, Counted, Remembered
<1>10. CASE UNCHANGED limiterVars
  BY <1>10 DEF limiterVars, redis, logging, LimiterInv, LimiterTypeOK, Counted, Remembered
<1> QED BY <1>1, <1>2, <1>3, <1>4, <1>5, <1>6, <1>7, <1>8, <1>9, <1>10 DEF LimiterNext

LEMMA LimiterInvariant == LimiterSpec => []LimiterInv
<1>1. LimiterInit => LimiterInv
  BY LimitAssumption DEF LimiterInit, LimiterInv, LimiterTypeOK, Counted, Remembered
<1>2. LimiterInv /\ [LimiterNext]_limiterVars => LimiterInv'
  BY LimiterSteps
<1> QED BY <1>1, <1>2, PTL DEF LimiterSpec

(* The limit is that of the deployment, whatever the number of workers, as   *)
(* long as Redis keeps the counters of the window.                           *)
THEOREM LimitHolds == LimiterSpec => []LimitIsShared
<1>1. LimiterInv => LimitIsShared
  BY DEF LimiterInv, Counted, LimitIsShared
<1> QED BY LimiterInvariant, <1>1, PTL

(* A request that is let through without the counter is covered by a recent  *)
(* warning, later than any recovery, however the interval throttles the log. *)
THEOREM NoSilentOutage == LimiterSpec => UnthrottledIsLogged
<1>1. ASSUME LimiterInv, [LimiterNext]_limiterVars, NEW w \in Workers, unthrottled'[w] # unthrottled[w]
      PROVE  lastLog'[w] = "warning" /\ clock - loggedAt'[w] < Interval
  <2>1. UNCHANGED unthrottled \/ \E v \in Workers, k \in Keys :
          LetThrough(v, k) /\ UNCHANGED clock
    BY <1>1 DEF LimiterNext, StorageStillDown, BeginCheck, Hit, HitFails, CheckStorage, RedisStops,
       RedisStarts, NewWindow, Tick, limiterVars, LimiterInv, LimiterTypeOK
  <2>2. PICK v \in Workers, k \in Keys : LetThrough(v, k)
    BY <1>1, <2>1
  <2>3. v = w
    BY <1>1, <2>2 DEF LetThrough, LimiterInv, LimiterTypeOK
  <2> QED BY <1>1, <2>2, <2>3, Warned DEF LetThrough
<1>2. LimiterInv /\ [LimiterNext]_limiterVars =>
        [\A w \in Workers : unthrottled'[w] # unthrottled[w] =>
           lastLog'[w] = "warning" /\ clock - loggedAt'[w] < Interval]_limiterVars
  BY <1>1
<1> QED BY LimiterInvariant, <1>2, PTL DEF LimiterSpec, UnthrottledIsLogged

(* A recovery is announced only while Redis answers. *)
THEOREM NoFalseRecovery == LimiterSpec => RecoveryIsTrue
<1>1. ASSUME LimiterInv, [LimiterNext]_limiterVars, ~up, NEW w \in Workers, lastLog'[w] = "recovery"
      PROVE  lastLog[w] = "recovery"
  <2>1. CASE UNCHANGED lastLog
    BY <1>1, <2>1
  <2>2. CASE \E v \in Workers : LogWarning(v)
    BY <1>1, <2>2 DEF LogWarning, logging, LimiterInv, LimiterTypeOK
  <2>3. CASE \E v \in Workers : LogRecovery(v) /\ ~active[v]
    BY <1>1, <2>3 DEF LogRecovery, logging
  <2>4. UNCHANGED lastLog \/ (\E v \in Workers : LogWarning(v))
          \/ \E v \in Workers : LogRecovery(v) /\ ~active[v]
    BY <1>1 DEF LimiterNext, StorageStillDown, BeginCheck, Hit, HitFails, CheckStorage, RedisStops,
       RedisStarts, NewWindow, Tick, limiterVars, logging, LetThrough, LimiterInv, LimiterTypeOK
  <2> QED BY <2>1, <2>2, <2>3, <2>4
<1>2. LimiterInv /\ [LimiterNext]_limiterVars =>
        [\A w \in Workers : lastLog'[w] = "recovery" /\ lastLog[w] # "recovery" => up]_limiterVars
  BY <1>1
<1> QED BY LimiterInvariant, <1>2, PTL DEF LimiterSpec, RecoveryIsTrue
=============================================================================
