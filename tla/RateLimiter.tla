----------------------------- MODULE RateLimiter -----------------------------
(***************************************************************************)
(* ObservableLimiter of backend/api_routes_simulate.py, in the workers of  *)
(* one deployment: a fixed-window counter per client in a Redis server     *)
(* that may stop and lose its counters (it persists nothing), and in each  *)
(* worker a warning state that throttles the log and is only reset by a    *)
(* request that reaches Redis.  A worker checks its requests one by one,   *)
(* in its event loop; Redis may change between the two calls of a check.   *)
(***************************************************************************)
EXTENDS Integers

CONSTANTS
  Workers,     \* processes sharing the counters
  Keys,        \* clients, by _client_key_from_request
  NoKey,       \* of a worker that checks no request
  Limit,       \* requests per window (APP_RATE_LIMIT_SIMULATE)
  Interval,    \* RATE_LIMIT_STORAGE_WARNING_INTERVAL_SECONDS
  MaxTime,     \* bound on the clock
  MaxOutages,  \* bound on the stops of Redis
  MaxRequests  \* bound on the requests

ASSUME LimitAssumption ==
  /\ NoKey \notin Keys
  /\ Limit \in Nat \ {0} /\ Interval \in Nat \ {0}
  /\ MaxTime \in Nat /\ MaxOutages \in Nat /\ MaxRequests \in Nat

VARIABLES
  clock,
  up,          \* Redis answers
  outages,     \* stops so far
  intact,      \* Redis has not stopped since the window began
  hits,        \* the counters of the current window
  admitted,    \* requests let through in the current window, by client
  requests,    \* requests so far
  checking,    \* in each worker, the client whose request awaits its hit
  active,      \* _storage_warning_active of each worker
  loggedAt,    \* _storage_warning_last_logged_at of each worker
  lastLog,     \* what each worker has logged last: "warning" or "recovery"
  unthrottled  \* requests each worker has let through without the counter

redis == <<up, outages, intact, hits>>
logging == <<active, loggedAt, lastLog>>
limiterVars == <<clock, redis, admitted, requests, checking, logging, unthrottled>>

LimiterInit ==
  /\ clock = 0 /\ up = TRUE /\ outages = 0 /\ intact = TRUE
  /\ hits = [k \in Keys |-> 0] /\ admitted = [k \in Keys |-> 0]
  /\ requests = 0
  /\ checking = [w \in Workers |-> NoKey]
  /\ active = [w \in Workers |-> FALSE]
  /\ loggedAt = [w \in Workers |-> 0]
  /\ lastLog = [w \in Workers |-> "none"]
  /\ unthrottled = [w \in Workers |-> 0]

-----------------------------------------------------------------------------
(* Faulty variant: the interval alone decides whether to log.              *)
LogWarningByInterval(w) ==
  IF clock - loggedAt[w] < Interval THEN UNCHANGED logging
  ELSE /\ active' = [active EXCEPT ![w] = TRUE]
       /\ loggedAt' = [loggedAt EXCEPT ![w] = clock]
       /\ lastLog' = [lastLog EXCEPT ![w] = "warning"]

(* _log_storage_warning                                                    *)
LogWarning(w) ==
  IF active[w] /\ clock - loggedAt[w] < Interval THEN UNCHANGED logging
  ELSE /\ active' = [active EXCEPT ![w] = TRUE]
       /\ loggedAt' = [loggedAt EXCEPT ![w] = clock]
       /\ lastLog' = [lastLog EXCEPT ![w] = "warning"]

(* _log_storage_recovery                                                   *)
LogRecovery(w) ==
  IF ~active[w] THEN UNCHANGED logging
  ELSE /\ active' = [active EXCEPT ![w] = FALSE]
       /\ lastLog' = [lastLog EXCEPT ![w] = "recovery"]
       /\ UNCHANGED loggedAt

(* The request goes on with view_rate_limit = None.                        *)
LetThrough(w, k) ==
  /\ admitted' = [admitted EXCEPT ![k] = @ + 1]
  /\ unthrottled' = [unthrottled EXCEPT ![w] = @ + 1]
  /\ LogWarning(w)

NewRequest(w) ==
  /\ checking[w] = NoKey
  /\ requests < MaxRequests /\ requests' = requests + 1

(* Faulty variant: the remembered outage is not checked again.             *)
StorageStillDownCached(w, k) ==
  /\ NewRequest(w)
  /\ active[w]
  /\ LetThrough(w, k)
  /\ UNCHANGED <<clock, redis, checking>>

(* _check_request_limit with the warning active: check_storage fails.      *)
StorageStillDown(w, k) ==
  /\ NewRequest(w)
  /\ active[w] /\ ~up
  /\ LetThrough(w, k)
  /\ UNCHANGED <<clock, redis, checking>>

(* Faulty variant: the recovery is logged before the storage is reached.   *)
BeginCheckUnverified(w, k) ==
  /\ NewRequest(w)
  /\ LogRecovery(w)
  /\ checking' = [checking EXCEPT ![w] = k]
  /\ UNCHANGED <<clock, redis, admitted, unthrottled>>

(* Otherwise the check succeeds and logs the recovery, or the warning is   *)
(* not active; in both cases the counter is called next.                   *)
BeginCheck(w, k) ==
  /\ NewRequest(w)
  /\ active[w] => up
  /\ LogRecovery(w)
  /\ checking' = [checking EXCEPT ![w] = k]
  /\ UNCHANGED <<clock, redis, admitted, unthrottled>>

(* super()._check_request_limit: the counter is incremented; the request   *)
(* passes (and logs a recovery) or RateLimitExceeded is raised.            *)
Hit(w) ==
  /\ checking[w] # NoKey /\ up
  /\ LET k == checking[w] IN
       /\ hits' = [hits EXCEPT ![k] = @ + 1]
       /\ IF hits[k] < Limit
          THEN admitted' = [admitted EXCEPT ![k] = @ + 1] /\ LogRecovery(w)
          ELSE UNCHANGED <<admitted, logging>>
  /\ checking' = [checking EXCEPT ![w] = NoKey]
  /\ UNCHANGED <<clock, up, outages, intact, requests, unthrottled>>

(* The counter raises anything else: the request is let through.           *)
HitFails(w) ==
  /\ checking[w] # NoKey /\ ~up
  /\ LetThrough(w, checking[w])
  /\ checking' = [checking EXCEPT ![w] = NoKey]
  /\ UNCHANGED <<clock, redis, requests>>

(* check_storage, called by the lifespan before the first request.         *)
CheckStorage(w) ==
  /\ checking[w] = NoKey /\ requests = 0
  /\ IF up THEN LogRecovery(w) ELSE LogWarning(w)
  /\ UNCHANGED <<clock, redis, admitted, requests, checking, unthrottled>>

-----------------------------------------------------------------------------
RedisStops ==
  /\ up /\ outages < MaxOutages
  /\ up' = FALSE /\ outages' = outages + 1 /\ intact' = FALSE
  /\ hits' \in {hits, [k \in Keys |-> 0]}
  /\ UNCHANGED <<clock, admitted, requests, checking, logging, unthrottled>>

RedisStarts ==
  /\ ~up /\ up' = TRUE
  /\ UNCHANGED <<clock, outages, intact, hits, admitted, requests, checking, logging, unthrottled>>

(* The keys of a window expire.                                            *)
NewWindow ==
  /\ hits' = [k \in Keys |-> 0] /\ admitted' = [k \in Keys |-> 0]
  /\ intact' = up
  /\ UNCHANGED <<clock, up, outages, requests, checking, logging, unthrottled>>

Tick ==
  /\ clock < MaxTime /\ clock' = clock + 1
  /\ UNCHANGED <<redis, admitted, requests, checking, logging, unthrottled>>

LimiterNext ==
  \/ \E w \in Workers :
       \/ \E k \in Keys : StorageStillDown(w, k) \/ BeginCheck(w, k)
       \/ Hit(w) \/ HitFails(w) \/ CheckStorage(w)
  \/ RedisStops \/ RedisStarts \/ NewWindow \/ Tick

LimiterSpec == LimiterInit /\ [][LimiterNext]_limiterVars
-----------------------------------------------------------------------------
(* The type of the counters and of the limiters.                           *)
LimiterTypeOK ==
  /\ clock \in 0..MaxTime /\ up \in BOOLEAN /\ outages \in 0..MaxOutages /\ intact \in BOOLEAN
  /\ hits \in [Keys -> Nat] /\ admitted \in [Keys -> Nat] /\ requests \in 0..MaxRequests
  /\ checking \in [Workers -> Keys \cup {NoKey}]
  /\ active \in [Workers -> BOOLEAN] /\ loggedAt \in [Workers -> 0..MaxTime]
  /\ lastLog \in [Workers -> {"none", "warning", "recovery"}]
  /\ unthrottled \in [Workers -> Nat]

(* The limit holds over all the workers in every window in which Redis has *)
(* not stopped, also for a worker that still remembers an earlier outage.  *)
LimitIsShared == intact => \A k \in Keys : admitted[k] <= Limit

(* Every request let through without the counter is covered by a warning   *)
(* that the worker has logged less than Interval ago, and after any        *)
(* recovery: no outage passes unnoticed because of the throttling.         *)
UnthrottledIsLogged ==
  [][\A w \in Workers : unthrottled'[w] # unthrottled[w] =>
       lastLog'[w] = "warning" /\ clock - loggedAt'[w] < Interval]_limiterVars

(* The worker's log announces a recovery only while Redis answers.         *)
RecoveryIsTrue ==
  [][\A w \in Workers : lastLog'[w] = "recovery" /\ lastLog[w] # "recovery" => up]_limiterVars
=============================================================================
