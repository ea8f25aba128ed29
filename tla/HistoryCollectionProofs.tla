----------------------- MODULE HistoryCollectionProofs -----------------------
(* The history collection: the life of its documents for any number of       *)
(* browsers, saves and failures, any retention and any bound on the duration *)
(* of a save, and its TTL index for any number of workers and failures.      *)
EXTENDS HistoryRetention, TtlIndex, TLAPS

USE DEF collection, saving, purging, Documents, Time, Never

(* The next-state relation of the module, action by action.                *)
LEMMA NextCases ==
  ASSUME Next
  PROVE  \/ Tick \/ PurgeBegin \/ PurgeSelect \/ PurgeEnd
         \/ \E c \in Clients : PurgeDelete(c)
         \/ \E d \in Documents : Expire(d)
         \/ \E s \in Saves : \/ BeginSave(s) \/ Insert(s) \/ StartTouch(s) \/ Touch(s)
                             \/ Acknowledge(s) \/ SaveFails(s) \/ Crash(s)
  BY DEF Next, SaveStep, PurgeStep

-----------------------------------------------------------------------------
(* Typing of the insert, in both its outcomes.                             *)
LEMMA StoreTyping ==
  ASSUME TypeOK, NEW s \in Saves, Store(s)
  PROVE  stored' \subseteq Documents /\ seen' \in [Documents -> Time]
  BY DEF TypeOK, Store

(* Every step keeps the types.                                             *)
THEOREM Typing == Spec => []TypeOK
<1>1. Init => TypeOK
  BY TimeAssumption DEF Init, TypeOK
<1>2. TypeOK /\ [Next]_vars => TypeOK'
  <2> SUFFICES ASSUME TypeOK, [Next]_vars PROVE TypeOK'
    OBVIOUS
  <2>1. CASE UNCHANGED vars
    BY <2>1 DEF TypeOK, vars
  <2>2. CASE Tick
    BY <2>2, TimeAssumption DEF TypeOK, Tick
  <2>3. CASE PurgeBegin
    BY <2>3, TimeAssumption DEF TypeOK, PurgeBegin
  <2>4. CASE PurgeSelect
    BY <2>4 DEF TypeOK, PurgeSelect, OwnerOf
  <2>5. CASE PurgeEnd
    BY <2>5, TimeAssumption DEF TypeOK, PurgeEnd, Fault
  <2>6. ASSUME NEW c \in Clients, PurgeDelete(c) PROVE TypeOK'
    BY <2>6 DEF TypeOK, PurgeDelete
  <2>7. ASSUME NEW d \in Documents, Expire(d) PROVE TypeOK'
    BY <2>7 DEF TypeOK, Expire
  <2>8. ASSUME NEW s \in Saves, BeginSave(s) PROVE TypeOK'
    BY <2>8 DEF TypeOK, BeginSave
  <2>9. ASSUME NEW s \in Saves, Insert(s) PROVE TypeOK'
    BY <2>9, StoreTyping DEF TypeOK, Insert
  <2>10. ASSUME NEW s \in Saves, StartTouch(s) PROVE TypeOK'
    BY <2>10 DEF TypeOK, StartTouch, Of
  <2>11. ASSUME NEW s \in Saves, Touch(s) PROVE TypeOK'
    BY <2>11 DEF TypeOK, Touch
  <2>12. ASSUME NEW s \in Saves, Acknowledge(s) PROVE TypeOK'
    BY <2>12 DEF TypeOK, Acknowledge
  <2>13. ASSUME NEW s \in Saves, SaveFails(s) PROVE TypeOK'
    <3>1. stored' \subseteq Documents /\ seen' \in [Documents -> Time]
      BY <2>13, StoreTyping DEF TypeOK, SaveFails
    <3>2. faults' \in 0..MaxFaults
      BY <2>13, TimeAssumption DEF TypeOK, SaveFails, Fault
    <3>3. /\ pc' \in [Saves -> {"idle", "insert", "startTouch", "touch", "saved", "failed"}]
          /\ attempt' \in [Saves -> {1, 2}] /\ stamp' \in [Saves -> Time]
          /\ left' \in [Saves -> SUBSET Documents]
      BY <2>13 DEF TypeOK, SaveFails
    <3> QED
      BY <2>13, <3>1, <3>2, <3>3 DEF TypeOK, SaveFails
  <2>14. ASSUME NEW s \in Saves, Crash(s) PROVE TypeOK'
    BY <2>14, TimeAssumption DEF TypeOK, Crash, Fault
  <2> QED
    BY <2>1, <2>2, <2>3, <2>4, <2>5, <2>6, <2>7, <2>8, <2>9, <2>10, <2>11,
       <2>12, <2>13, <2>14, NextCases
<1> QED
  BY <1>1, <1>2, PTL DEF Spec

-----------------------------------------------------------------------------
(* Every write of last_seen is recent: it comes from a save in flight, and *)
(* no save lasts more than MaxLag.  Hence a document that an update_many   *)
(* has visited, or that appeared after its start, cannot fall behind the   *)
(* stamp of that update by more than MaxLag before it is acknowledged.     *)
Recent ==
  /\ \A s \in Saves : stamp[s] <= clock /\ (InFlight(s) => clock - stamp[s] <= MaxLag)
  /\ \A c \in Clients : acked[c] <= clock

Visited == \A s \in Saves : pc[s] = "touch" =>
             \A d \in Of(owner[s]) : d \in left[s] \/ seen[d] >= stamp[s] - MaxLag

Fresh == Recent /\ Visited /\ AcknowledgedSaveRefreshesHistory

(* The stamps stay recent.                                                 *)
LEMMA RecentStep ==
  ASSUME TypeOK, Recent, [Next]_vars
  PROVE  Recent'
<1> USE TimeAssumption DEF TypeOK, Recent, InFlight
<1>1. CASE UNCHANGED vars
  BY <1>1 DEF vars
<1>2. CASE Tick
  BY <1>2 DEF Tick
<1>3. CASE PurgeBegin \/ PurgeSelect \/ PurgeEnd
  BY <1>3 DEF PurgeBegin, PurgeSelect, PurgeEnd
<1>4. ASSUME NEW c \in Clients, PurgeDelete(c) PROVE Recent'
  BY <1>4 DEF PurgeDelete
<1>5. ASSUME NEW d \in Documents, Expire(d) PROVE Recent'
  BY <1>5 DEF Expire
<1>6. ASSUME NEW s \in Saves, BeginSave(s) PROVE Recent'
  BY <1>6 DEF BeginSave
<1>7. ASSUME NEW s \in Saves, Insert(s) PROVE Recent'
  BY <1>7 DEF Insert
<1>8. ASSUME NEW s \in Saves, StartTouch(s) PROVE Recent'
  BY <1>8 DEF StartTouch
<1>9. ASSUME NEW s \in Saves, Touch(s) PROVE Recent'
  BY <1>9 DEF Touch
<1>10. ASSUME NEW s \in Saves, Acknowledge(s) PROVE Recent'
  BY <1>10 DEF Acknowledge
<1>11. ASSUME NEW s \in Saves, SaveFails(s) PROVE Recent'
  BY <1>11 DEF SaveFails
<1>12. ASSUME NEW s \in Saves, Crash(s) PROVE Recent'
  BY <1>12 DEF Crash
<1> QED
  BY <1>1, <1>2, <1>3, <1>4, <1>5, <1>6, <1>7, <1>8, <1>9, <1>10, <1>11, <1>12, NextCases

(* A document written with the stamp of a save in flight is fresh for      *)
(* every update under way and for every acknowledged save.                 *)
LEMMA WriteKeepsFresh ==
  ASSUME TypeOK, Fresh, NEW s \in Saves, InFlight(s), NEW d \in Documents,
         seen' = [seen EXCEPT ![d] = stamp[s]], stored' \subseteq stored \cup {d}
  PROVE  /\ \A r \in Saves : pc[r] = "touch" =>
              \A e \in stored' : OwnerOf(e) = owner[r] =>
                (e \in left[r] /\ e # d) \/ seen'[e] >= stamp[r] - MaxLag
         /\ \A e \in stored' : seen'[e] >= acked[OwnerOf(e)] - MaxLag
<1> USE TimeAssumption DEF TypeOK, Fresh, Recent
<1>1. \A e \in Documents : OwnerOf(e) \in Clients
  BY DEF OwnerOf
<1>2. stamp[s] >= clock - MaxLag /\ seen'[d] = stamp[s]
  OBVIOUS
<1>3. \A e \in Documents \ {d} : seen'[e] = seen[e]
  OBVIOUS
<1>4. \A r \in Saves : pc[r] = "touch" =>
        \A e \in stored' : OwnerOf(e) = owner[r] =>
          (e \in left[r] /\ e # d) \/ seen'[e] >= stamp[r] - MaxLag
  BY <1>2, <1>3 DEF Visited, Of
<1>5. \A e \in stored' : seen'[e] >= acked[OwnerOf(e)] - MaxLag
  BY <1>1, <1>2, <1>3 DEF AcknowledgedSaveRefreshesHistory
<1> QED
  BY <1>4, <1>5

(* Fresh is inductive.                                                     *)
LEMMA FreshStep ==
  ASSUME TypeOK, Fresh, [Next]_vars
  PROVE  Fresh'
<1>0. Recent'
  BY RecentStep DEF Fresh
<1>a. SUFFICES Visited' /\ AcknowledgedSaveRefreshesHistory'
  BY <1>0 DEF Fresh
<1> USE DEF Visited, AcknowledgedSaveRefreshesHistory, Of, OwnerOf
<1>1. CASE UNCHANGED vars
  BY <1>1 DEF vars, Fresh
<1>2. CASE Tick \/ PurgeBegin \/ PurgeSelect \/ PurgeEnd
  BY <1>2 DEF Fresh, Tick, PurgeBegin, PurgeSelect, PurgeEnd
<1>3. ASSUME NEW c \in Clients, PurgeDelete(c)
      PROVE  Visited' /\ AcknowledgedSaveRefreshesHistory'
  BY <1>3 DEF Fresh, PurgeDelete
<1>4. ASSUME NEW d \in Documents, Expire(d)
      PROVE  Visited' /\ AcknowledgedSaveRefreshesHistory'
  BY <1>4 DEF Fresh, Expire
<1>5. ASSUME NEW s \in Saves, BeginSave(s)
      PROVE  Visited' /\ AcknowledgedSaveRefreshesHistory'
  BY <1>5 DEF Fresh, BeginSave, TypeOK
<1>6. ASSUME NEW s \in Saves, Store(s), pc[s] = "insert",
             UNCHANGED <<owner, acked>>,
             \A r \in Saves : pc'[r] = "touch" =>
               pc[r] = "touch" /\ left'[r] = left[r] /\ stamp'[r] = stamp[r]
      PROVE  Visited' /\ AcknowledgedSaveRefreshesHistory'
  <2> DEFINE d == <<s, attempt[s]>>
  <2>1. d \in Documents /\ InFlight(s)
    BY <1>6 DEF TypeOK, InFlight
  <2>2. seen' = [seen EXCEPT ![d] = stamp[s]] /\ stored' \subseteq stored \cup {d}
    BY <1>6 DEF Store
  <2> HIDE DEF d
  <2> QED
    BY <1>6, <2>1, <2>2, WriteKeepsFresh
<1>7. ASSUME NEW s \in Saves, Insert(s)
      PROVE  Visited' /\ AcknowledgedSaveRefreshesHistory'
  BY <1>6, <1>7 DEF Insert, TypeOK
<1>8. ASSUME NEW s \in Saves, StartTouch(s)
      PROVE  Visited' /\ AcknowledgedSaveRefreshesHistory'
  BY <1>8 DEF Fresh, StartTouch, TypeOK
<1>9. ASSUME NEW s \in Saves, Touch(s)
      PROVE  Visited' /\ AcknowledgedSaveRefreshesHistory'
  <2> PICK d \in left[s] :
        /\ seen' = IF d \in stored THEN [seen EXCEPT ![d] = stamp[s]] ELSE seen
        /\ left' = [left EXCEPT ![s] = @ \ {d}]
    BY <1>9 DEF Touch
  <2>1. d \in Documents /\ InFlight(s) /\ stored' = stored /\ UNCHANGED <<owner, pc, stamp, acked>>
    BY <1>9 DEF Touch, TypeOK, InFlight
  <2>2. CASE d \in stored
    <3>1. \A r \in Saves : left[r] \ {d} \subseteq left'[r]
      BY DEF TypeOK
    <3> QED
      BY <2>1, <2>2, <3>1, WriteKeepsFresh, ZenonT(60)
  <2>3. CASE d \notin stored
    BY <2>1, <2>3 DEF Fresh, TypeOK
  <2> QED
    BY <2>2, <2>3
<1>10. ASSUME NEW s \in Saves, Acknowledge(s)
       PROVE  Visited' /\ AcknowledgedSaveRefreshesHistory'
  <2>1. Visited'
    BY <1>10 DEF Fresh, Acknowledge, TypeOK
  <2>2. \A d \in stored : owner[d[1]] = owner[s] => seen[d] >= stamp[s] - MaxLag
    BY <1>10 DEF Fresh, Acknowledge
  <2>3. AcknowledgedSaveRefreshesHistory'
    BY <1>10, <2>2 DEF Fresh, Acknowledge, TypeOK
  <2> QED
    BY <2>1, <2>3
<1>11. ASSUME NEW s \in Saves, SaveFails(s)
       PROVE  Visited' /\ AcknowledgedSaveRefreshesHistory'
  <2>1. \A r \in Saves : pc'[r] = "touch" =>
          pc[r] = "touch" /\ left'[r] = left[r] /\ stamp'[r] = stamp[r]
    BY <1>11 DEF SaveFails, TypeOK
  <2>2. CASE UNCHANGED <<stored, seen>>
    BY <1>11, <2>1, <2>2 DEF Fresh, SaveFails
  <2>3. CASE pc[s] = "insert" /\ Store(s)
    BY <1>6, <1>11, <2>1, <2>3 DEF SaveFails
  <2> QED
    BY <1>11, <2>2, <2>3 DEF SaveFails
<1>12. ASSUME NEW s \in Saves, Crash(s)
       PROVE  Visited' /\ AcknowledgedSaveRefreshesHistory'
  BY <1>12 DEF Fresh, Crash, TypeOK
<1> QED
  BY <1>1, <1>2, <1>3, <1>4, <1>5, <1>7, <1>8, <1>9, <1>10, <1>11, <1>12, NextCases

(* The strengthening holds in every state.                                 *)
LEMMA FreshHolds == Spec => []Fresh
<1>1. Init => Fresh
  BY TimeAssumption DEF Init, Fresh, Recent, Visited, InFlight, AcknowledgedSaveRefreshesHistory
<1>2. TypeOK /\ Fresh /\ [Next]_vars => Fresh'
  BY FreshStep
<1> QED
  BY <1>1, <1>2, Typing, PTL DEF Spec

(* An acknowledged save refreshes the whole history of its browser.        *)
THEOREM SlidingRetention == Spec => []AcknowledgedSaveRefreshesHistory
  BY FreshHolds, PTL DEF Fresh

(* The TTL monitor spares the browsers with a recent acknowledged save.    *)
THEOREM ExpirySafety == Spec => ExpirySparesActiveBrowsers
<1> DEFINE Spared == stale' = stale => \A d \in stored \ stored' :
                       acked[OwnerOf(d)] + Ttl <= clock + MaxLag
<1>1. TypeOK /\ Fresh /\ [Next]_vars => [Spared]_vars
  <2> SUFFICES ASSUME TypeOK, Fresh, Next, stale' = stale, NEW d \in stored \ stored'
               PROVE  acked[OwnerOf(d)] + Ttl <= clock + MaxLag
    OBVIOUS
  <2>1. Expire(d)
    BY NextCases DEF Tick, PurgeBegin, PurgeSelect, PurgeEnd, PurgeDelete, Expire, BeginSave,
       Insert, Store, StartTouch, Touch, Acknowledge, SaveFails, Crash
  <2>2. d \in Documents /\ OwnerOf(d) \in Clients
    BY DEF TypeOK, OwnerOf
  <2>3. seen[d] >= acked[OwnerOf(d)] - MaxLag /\ seen[d] + Ttl <= clock
    BY <2>1 DEF Fresh, AcknowledgedSaveRefreshesHistory, Expire
  <2> QED
    BY <2>2, <2>3, TimeAssumption DEF TypeOK
<1> QED
  BY <1>1, Typing, FreshHolds, PTL DEF Spec, ExpirySparesActiveBrowsers

(* The purge script selects only browsers without a recent save.           *)
THEOREM PurgeSafety == Spec => PurgeSelectsInactiveBrowsers
<1> DEFINE Sound == \A c \in stale' \ stale : acked[c] - MaxLag < cutoff
<1>1. TypeOK /\ Fresh /\ [Next]_vars => [Sound]_vars
  <2> SUFFICES ASSUME TypeOK, Fresh, Next, NEW c \in stale' \ stale
               PROVE  acked[c] - MaxLag < cutoff
    OBVIOUS
  <2>1. PurgeSelect
    BY NextCases DEF Tick, PurgeBegin, PurgeSelect, PurgeEnd, PurgeDelete, Expire, BeginSave,
       Insert, StartTouch, Touch, Acknowledge, SaveFails, Crash
  <2>2. PICK d \in stored : seen[d] < cutoff /\ OwnerOf(d) = c
    BY <2>1 DEF PurgeSelect
  <2>3. seen[d] >= acked[c] - MaxLag /\ d \in Documents /\ c \in Clients
    BY <2>2 DEF Fresh, AcknowledgedSaveRefreshesHistory, TypeOK, OwnerOf
  <2> QED
    BY <2>2, <2>3, TimeAssumption DEF TypeOK
<1> QED
  BY <1>1, Typing, FreshHolds, PTL DEF Spec, PurgeSelectsInactiveBrowsers

-----------------------------------------------------------------------------
(* The index that the TTL monitor works with.                                *)

USE DEF Go, Places

(* The next-state relation of the module, action by action.                *)
LEMMA IndexNextCases ==
  ASSUME IndexNext
  PROVE  \E w \in Workers :
           \/ Connect(w) \/ CreateTtl(w) \/ DropIndex(w) \/ DropNothing(w)
           \/ Recreate(w) \/ Ping(w) \/ Break(w)
  BY DEF IndexNext, ConnectStep

(* Every step of connect() keeps the types.                                *)
THEOREM IndexTyping == IndexSpec => []IndexTypeOK
<1>1. IndexInit => IndexTypeOK
  BY BreakAssumption DEF IndexInit, IndexTypeOK
<1>2. IndexTypeOK /\ [IndexNext]_indexVars => IndexTypeOK'
  <2> SUFFICES ASSUME IndexTypeOK, [IndexNext]_indexVars PROVE IndexTypeOK'
    OBVIOUS
  <2>1. CASE UNCHANGED indexVars
    BY <2>1 DEF IndexTypeOK, indexVars
  <2>2. CASE IndexNext
    <3> PICK w \in Workers :
           \/ Connect(w) \/ CreateTtl(w) \/ DropIndex(w) \/ DropNothing(w)
           \/ Recreate(w) \/ Ping(w) \/ Break(w)
      BY <2>2, IndexNextCases
    <3>1. CASE Connect(w)
      BY <3>1 DEF IndexTypeOK, Connect
    <3>2. CASE CreateTtl(w)
      BY <3>2 DEF IndexTypeOK, CreateTtl
    <3>3. CASE DropIndex(w)
      BY <3>3 DEF IndexTypeOK, DropIndex
    <3>4. CASE DropNothing(w)
      BY <3>4 DEF IndexTypeOK, DropNothing
    <3>5. CASE Recreate(w)
      BY <3>5 DEF IndexTypeOK, Recreate
    <3>6. CASE Ping(w)
      BY <3>6 DEF IndexTypeOK, Ping
    <3>7. CASE Break(w)
      <4>1. at' \in [Workers -> Places] /\ breaks' \in 0..MaxBreaks
        BY <3>7, BreakAssumption DEF IndexTypeOK, Break
      <4>2. index' \in {"absent", "legacy", "ttl"}
        BY <3>7 DEF IndexTypeOK, Break
      <4> QED
        BY <4>1, <4>2 DEF IndexTypeOK
    <3> QED
      BY <3>1, <3>2, <3>3, <3>4, <3>5, <3>6, <3>7
  <2> QED
    BY <2>1, <2>2
<1> QED
  BY <1>1, <1>2, PTL DEF IndexSpec

(* Beside the two invariants themselves: a worker that has only to ping    *)
(* has already left the index in place, or another one is replacing it.    *)
Repaired ==
  /\ NoLegacyIndexWhenServing
  /\ breaks = 0 /\ (\E w \in Workers : at[w] \in {"ping", "serving"})
       => index = "ttl" \/ \E w \in Workers : at[w] = "recreate"

(* The strengthening holds in every state.                                 *)
LEMMA RepairedHolds == IndexSpec => []Repaired
<1>1. IndexInit => Repaired
  BY DEF IndexInit, Repaired, NoLegacyIndexWhenServing
<1>2. IndexTypeOK /\ Repaired /\ [IndexNext]_indexVars => Repaired'
  <2> SUFFICES ASSUME IndexTypeOK, Repaired, [IndexNext]_indexVars PROVE Repaired'
    OBVIOUS
  <2> USE DEF Repaired, NoLegacyIndexWhenServing
  <2>1. CASE UNCHANGED indexVars
    BY <2>1 DEF indexVars
  <2>2. CASE IndexNext
    <3> PICK w \in Workers :
           \/ Connect(w) \/ CreateTtl(w) \/ DropIndex(w) \/ DropNothing(w)
           \/ Recreate(w) \/ Ping(w) \/ Break(w)
      BY <2>2, IndexNextCases
    <3>1. CASE Connect(w)
      BY <3>1 DEF IndexTypeOK, Connect
    <3>2. CASE CreateTtl(w)
      BY <3>2 DEF IndexTypeOK, CreateTtl
    <3>3. CASE DropIndex(w)
      BY <3>3 DEF IndexTypeOK, DropIndex
    <3>4. CASE DropNothing(w)
      BY <3>4 DEF IndexTypeOK, DropNothing
    <3>5. CASE Recreate(w)
      BY <3>5 DEF IndexTypeOK, Recreate
    <3>6. CASE Ping(w)
      BY <3>6 DEF IndexTypeOK, Ping
    <3>7. CASE Break(w)
      <4>1. breaks' # 0
        BY <3>7, BreakAssumption DEF IndexTypeOK, Break
      <4>2. NoLegacyIndexWhenServing'
        BY <3>7 DEF IndexTypeOK, Break
      <4> QED
        BY <4>1, <4>2
    <3> QED
      BY <3>1, <3>2, <3>3, <3>4, <3>5, <3>6, <3>7
  <2> QED
    BY <2>1, <2>2
<1> QED
  BY <1>1, <1>2, IndexTyping, PTL DEF IndexSpec

(* No index of an older version beside a worker that has repaired it.      *)
THEOREM OldIndexStaysGone == IndexSpec => []NoLegacyIndexWhenServing
  BY RepairedHolds, PTL DEF Repaired

(* Without failures the TTL index is missing only during a repair.         *)
THEOREM ExpiryGuaranteed == IndexSpec => []IndexMissingOnlyDuringRepair
<1>1. Repaired => IndexMissingOnlyDuringRepair
  BY DEF Repaired, IndexMissingOnlyDuringRepair
<1> QED
  BY <1>1, RepairedHolds, PTL
=============================================================================
