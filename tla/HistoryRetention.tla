-------------------------- MODULE HistoryRetention --------------------------
(***************************************************************************)
(* The life of the documents of the history collection: three programs     *)
(* that do not know each other write and delete in it.                     *)
(*                                                                         *)
(*   - the service: SimulationStore.save_simulation inserts a document and *)
(*     then sets last_seen on every document of the same browser, twice at *)
(*     most when MongoDB fails;                                            *)
(*   - the TTL monitor of MongoDB, on the index on last_seen;              *)
(*   - Scripts/purge_inactive_clients.py, a daily cron.                    *)
(*                                                                         *)
(* Time is counted in periods longer than any call.  `now` is read before  *)
(* the insert, and update_many visits the documents one by one, so that    *)
(* the saves of one browser may interleave and move last_seen backwards.   *)
(***************************************************************************)
EXTENDS Integers, FiniteSets

CONSTANTS
  Clients,     \* browsers, by their mc_client_id cookie
  Saves,       \* calls of save_simulation
  Ttl,         \* _LAST_SEEN_TTL_SECONDS, in periods
  Retention,   \* APP_PURGE_RETENTION_DAYS, in periods
  MaxLag,      \* bound on the periods a save lasts (timeouts of the driver)
  MaxTime,     \* bound on the clock
  MaxFaults    \* bound on the failures of MongoDB, the network or a process

ASSUME TimeAssumption == /\ Ttl \in Nat /\ Retention \in Nat /\ MaxLag \in Nat
                         /\ MaxTime \in Nat /\ MaxFaults \in Nat

Time == 0..MaxTime
(* The document inserted by an attempt of a save is known by both.         *)
Documents == Saves \X {1, 2}

VARIABLES
  clock,
  owner,       \* the browser of each save
  stored,      \* the documents in the collection
  seen,        \* their last_seen
  pc, attempt, \* control of each save
  stamp,       \* its local `now`
  left,        \* documents its update_many has yet to visit
  acked,       \* of each browser, the latest stamp of an acknowledged save
  purge,       \* control of the purge script
  cutoff,      \* its local `cutoff`
  stale,       \* its stale_client_ids, not yet deleted
  faults

collection == <<stored, seen>>
saving == <<pc, attempt, stamp, left, acked>>
purging == <<purge, cutoff, stale>>
vars == <<clock, owner, collection, saving, purging, faults>>

Never == -1
OwnerOf(d) == owner[d[1]]
Of(c) == {d \in stored : OwnerOf(d) = c}
InFlight(s) == pc[s] \in {"insert", "startTouch", "touch"}

Init ==
  /\ clock = 0
  /\ owner \in [Saves -> Clients]
  /\ stored = {} /\ seen = [d \in Documents |-> 0]
  /\ pc = [s \in Saves |-> "idle"]
  /\ attempt = [s \in Saves |-> 1]
  /\ stamp = [s \in Saves |-> 0]
  /\ left = [s \in Saves |-> {}]
  /\ acked = [c \in Clients |-> Never]
  /\ purge = "off" /\ cutoff = 0 /\ stale = {}
  /\ faults = 0

Fault == faults < MaxFaults /\ faults' = faults + 1

-----------------------------------------------------------------------------
(* Time passes; no save and no purge lasts more than MaxLag periods.       *)
Tick ==
  /\ clock < MaxTime
  /\ \A s \in Saves : InFlight(s) => clock - stamp[s] < MaxLag
  /\ purge # "off" => clock - (cutoff + Retention) < MaxLag
  /\ clock' = clock + 1
  /\ UNCHANGED <<owner, collection, saving, purging, faults>>

(* _op: `now` is read, the document is built.                              *)
BeginSave(s) ==
  /\ pc[s] = "idle"
  /\ pc' = [pc EXCEPT ![s] = "insert"]
  /\ stamp' = [stamp EXCEPT ![s] = clock]
  /\ UNCHANGED <<clock, owner, collection, attempt, left, acked, purging, faults>>

(* Faulty variant: a document is inserted with a last_seen of its own.     *)
StoreExpiry(s) ==
  /\ stored' = stored \cup {<<s, attempt[s]>>}
  /\ seen' = [seen EXCEPT ![<<s, attempt[s]>>] = MaxTime]

(* What insert_one does in the collection.                                 *)
Store(s) ==
  /\ stored' = stored \cup {<<s, attempt[s]>>}
  /\ seen' = [seen EXCEPT ![<<s, attempt[s]>>] = stamp[s]]

Insert(s) ==
  /\ pc[s] = "insert"
  /\ Store(s)
  /\ pc' = [pc EXCEPT ![s] = "startTouch"]
  /\ UNCHANGED <<clock, owner, attempt, stamp, left, acked, purging, faults>>

(* Faulty variant: update_one instead of update_many.                      *)
StartTouchOne(s) ==
  /\ pc[s] = "startTouch"
  /\ left' = [left EXCEPT ![s] = {<<s, attempt[s]>>} \cap stored]
  /\ pc' = [pc EXCEPT ![s] = "touch"]
  /\ UNCHANGED <<clock, owner, collection, attempt, stamp, acked, purging, faults>>

(* update_many selects the documents of the browser ...                    *)
StartTouch(s) ==
  /\ pc[s] = "startTouch"
  /\ left' = [left EXCEPT ![s] = Of(owner[s])]
  /\ pc' = [pc EXCEPT ![s] = "touch"]
  /\ UNCHANGED <<clock, owner, collection, attempt, stamp, acked, purging, faults>>

(* ... and updates them one by one; one deleted meanwhile is skipped.      *)
Touch(s) ==
  /\ pc[s] = "touch"
  /\ \E d \in left[s] :
       /\ seen' = IF d \in stored THEN [seen EXCEPT ![d] = stamp[s]] ELSE seen
       /\ left' = [left EXCEPT ![s] = @ \ {d}]
  /\ UNCHANGED <<clock, owner, stored, pc, attempt, stamp, acked, purging, faults>>

Acknowledge(s) ==
  /\ pc[s] = "touch" /\ left[s] = {}
  /\ pc' = [pc EXCEPT ![s] = "saved"]
  /\ acked' = [acked EXCEPT ![owner[s]] = IF @ < stamp[s] THEN stamp[s] ELSE @]
  /\ UNCHANGED <<clock, owner, collection, attempt, stamp, left, purging, faults>>

(* Faulty variant: a PyMongoError of the update is swallowed.              *)
SaveFailsSwallowed(s) ==
  /\ InFlight(s) /\ Fault
  /\ left' = [left EXCEPT ![s] = {}]
  /\ pc' = [pc EXCEPT ![s] = "saved"]
  /\ acked' = [acked EXCEPT ![owner[s]] = stamp[s]]
  /\ UNCHANGED <<clock, owner, collection, attempt, stamp, purging>>

(* A PyMongoError leaves _op, an insert may have been applied: the whole   *)
(* operation is tried once more, with a new `now`.                         *)
SaveFails(s) ==
  /\ InFlight(s) /\ Fault
  /\ \/ UNCHANGED collection
     \/ pc[s] = "insert" /\ Store(s)
  /\ left' = [left EXCEPT ![s] = {}]
  /\ IF attempt[s] = 1
     THEN /\ attempt' = [attempt EXCEPT ![s] = 2]
          /\ stamp' = [stamp EXCEPT ![s] = clock]
          /\ pc' = [pc EXCEPT ![s] = "insert"]
     ELSE /\ pc' = [pc EXCEPT ![s] = "failed"]
          /\ UNCHANGED <<attempt, stamp>>
  /\ UNCHANGED <<clock, owner, acked, purging>>

(* The worker process dies.                                                *)
Crash(s) ==
  /\ InFlight(s) /\ Fault
  /\ pc' = [pc EXCEPT ![s] = "failed"]
  /\ left' = [left EXCEPT ![s] = {}]
  /\ UNCHANGED <<clock, owner, collection, attempt, stamp, acked, purging>>

-----------------------------------------------------------------------------
(* MongoDB's TTL monitor removes an expired document.                      *)
Expire(d) ==
  /\ d \in stored /\ seen[d] + Ttl <= clock
  /\ stored' = stored \ {d}
  /\ UNCHANGED <<clock, owner, seen, saving, purging, faults>>

(* purge_inactive_clients.main: the cutoff is computed ...                 *)
PurgeBegin ==
  /\ purge = "off"
  /\ purge' = "select"
  /\ cutoff' = clock - Retention
  /\ UNCHANGED <<clock, owner, collection, saving, stale, faults>>

(* Faulty variant: $lte instead of $lt.                                    *)
PurgeSelectEqual ==
  /\ purge = "select"
  /\ purge' = "delete"
  /\ stale' = {OwnerOf(d) : d \in {e \in stored : seen[e] <= cutoff}}
  /\ UNCHANGED <<clock, owner, collection, saving, cutoff, faults>>

(* ... then distinct("mc_client_id", {"last_seen": {"$lt": cutoff}}) ...   *)
PurgeSelect ==
  /\ purge = "select"
  /\ purge' = "delete"
  /\ stale' = {OwnerOf(d) : d \in {e \in stored : seen[e] < cutoff}}
  /\ UNCHANGED <<clock, owner, collection, saving, cutoff, faults>>

(* ... then one delete_many for each browser found.                        *)
PurgeDelete(c) ==
  /\ purge = "delete" /\ c \in stale
  /\ stored' = stored \ Of(c)
  /\ stale' = stale \ {c}
  /\ UNCHANGED <<clock, owner, seen, saving, purge, cutoff, faults>>

(* The script ends, at the end of its loop or on an error.                 *)
PurgeEnd ==
  /\ purge # "off"
  /\ \/ purge = "delete" /\ stale = {} /\ UNCHANGED faults
     \/ Fault
  /\ purge' = "off" /\ stale' = {} /\ cutoff' = 0
  /\ UNCHANGED <<clock, owner, collection, saving>>

SaveStep(s) == Insert(s) \/ StartTouch(s) \/ Touch(s) \/ Acknowledge(s)
PurgeStep == PurgeSelect \/ (\E c \in Clients : PurgeDelete(c)) \/ PurgeEnd

Next ==
  \/ Tick
  \/ \E s \in Saves : BeginSave(s) \/ SaveStep(s) \/ SaveFails(s) \/ Crash(s)
  \/ \E d \in Documents : Expire(d)
  \/ PurgeBegin \/ PurgeStep

(* Time passes, the TTL monitor runs every minute, driver calls end.       *)
Fairness ==
  /\ WF_vars(Tick)
  /\ \A s \in Saves : WF_vars(SaveStep(s))
  /\ \A d \in Documents : WF_vars(Expire(d))
  /\ WF_vars(PurgeStep)

Spec == Init /\ [][Next]_vars /\ Fairness
-----------------------------------------------------------------------------
(* The type of the collection, the saves and the purge script.             *)
TypeOK ==
  /\ clock \in Time /\ owner \in [Saves -> Clients]
  /\ stored \subseteq Documents /\ seen \in [Documents -> Time]
  /\ pc \in [Saves -> {"idle", "insert", "startTouch", "touch", "saved", "failed"}]
  /\ attempt \in [Saves -> {1, 2}] /\ stamp \in [Saves -> Time]
  /\ left \in [Saves -> SUBSET Documents]
  /\ acked \in [Clients -> Time \cup {Never}]
  /\ purge \in {"off", "select", "delete"} /\ cutoff \in Int
  /\ stale \subseteq Clients
  /\ faults \in 0..MaxFaults

(* The sliding retention: after an acknowledged save no document of the    *)
(* browser looks older than that save, up to the duration of a save,       *)
(* whatever the other saves of the browser do, fail or leave half done.    *)
AcknowledgedSaveRefreshesHistory ==
  \A d \in stored : seen[d] >= acked[OwnerOf(d)] - MaxLag

(* The TTL monitor never takes a document of a browser that has had a save *)
(* acknowledged during the last Ttl periods (less the duration of a save). *)
ExpirySparesActiveBrowsers ==
  [][stale' = stale => \A d \in stored \ stored' :
        acked[OwnerOf(d)] + Ttl <= clock + MaxLag]_vars

(* The purge script never selects a browser whose last acknowledged save   *)
(* is after the cutoff, up to the duration of a save.                      *)
PurgeSelectsInactiveBrowsers ==
  [][\A c \in stale' \ stale : acked[c] - MaxLag < cutoff]_vars

(* What is kept for good belongs to browsers that saved during the last    *)
(* Ttl periods: every document carries a last_seen the monitor can expire. *)
IdleHistoryDisappears ==
  <>[](\A d \in stored : \E s \in Saves :
        owner[s] = OwnerOf(d) /\ pc[s] # "idle" /\ stamp[s] + Ttl > MaxTime)

=============================================================================
