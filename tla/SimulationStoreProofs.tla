------------------------ MODULE SimulationStoreProofs ------------------------
(***************************************************************************)
(* Proofs about SimulationStore, for any number of requests and failures.  *)
(***************************************************************************)
EXTENDS SimulationStore, TLAPS

USE DEF None, Procs, Kinds, Resting

(* Each step of the specification is one of these.                         *)
LEMMA NextCases ==
  ASSUME Next, NEW P,
         Shutdown => P,
         CloseAndStop => P,
         \A r \in Requests : Begin(r) \/ Operate(r) => P,
         \A p \in Procs : Connect(p) \/ Reset(p) => P
  PROVE  P
BY DEF Next, Step

-----------------------------------------------------------------------------
(* Every variable keeps its type.                                          *)
LEMMA CloseType ==
  ASSUME TypeOK, NEW p \in Procs, open' = open \ {own[p]}, UNCHANGED built,
         own' = [own EXCEPT ![p] = None]
  PROVE  open' \subseteq 1..built' /\ own' \in [Procs -> 0..built']
<1>1. own \in [Procs -> 0..built] /\ built \in Nat /\ 0 \in 0..built
  BY DEF TypeOK
<1>2. own' \in [Procs -> 0..built]
  BY <1>1
<1> QED BY <1>2 DEF TypeOK

LEMMA ConnectType == ASSUME TypeOK, NEW p \in Procs, Connect(p) PROVE TypeOK'
<1> USE DEF TypeOK, PCs, store, mongo, data, Goto, Connected, Failed, Fault
<1>1. CASE CheckConnected(p)  BY <1>1 DEF CheckConnected
<1>2. CASE LockForConnect(p)  BY <1>2 DEF LockForConnect
<1>3. CASE FoundConnected(p)  BY <1>3 DEF FoundConnected
<1>4. CASE BuildClient(p)
  <2>1. built' = built + 1 /\ built' \in Nat /\ 1..built' = (1..built) \cup {built'}
    BY <1>4 DEF BuildClient
  <2>2. 0..built \subseteq 0..built' /\ built' \in 0..built'
    BY <2>1
  <2>3. open' \subseteq 1..built'
    BY <1>4, <2>1 DEF BuildClient
  <2>4. own' \in [Procs -> 0..built']
    BY <1>4, <2>2, <2>1 DEF BuildClient
  <2>5. handle' \in [Requests -> 0..built']
    BY <1>4, <2>2 DEF BuildClient
  <2>6. client' \in 0..built' /\ collection' \in 0..built'
    BY <1>4, <2>2 DEF BuildClient
  <2> QED BY <1>4, <2>1, <2>3, <2>4, <2>5, <2>6 DEF BuildClient
<1>5. CASE BuildFails(p)      BY <1>5, FaultAssumption DEF BuildFails
<1>6. CASE InitialiseFails(p)
  <2>1. open' \subseteq 1..built' /\ own' \in [Procs -> 0..built]
    BY <1>6, CloseType DEF InitialiseFails
  <2>2. pc' \in [Procs -> PCs] /\ faults' \in 0..MaxFaults
    BY <1>6, FaultAssumption DEF InitialiseFails
  <2> QED BY <1>6, <2>1, <2>2 DEF InitialiseFails
<1>7. CASE SetClient(p)       BY <1>7 DEF SetClient
<1>8. CASE SetCollection(p)   BY <1>8 DEF SetCollection
<1> QED BY <1>1, <1>2, <1>3, <1>4, <1>5, <1>6, <1>7, <1>8 DEF Connect

LEMMA ResetType == ASSUME TypeOK, NEW p \in Procs, Reset(p) PROVE TypeOK'
<1> USE DEF TypeOK, PCs, store, mongo, data, Goto
<1>1. CASE LockForReset(p)     BY <1>1 DEF LockForReset
<1>2. CASE DetachClient(p)     BY <1>2 DEF DetachClient
<1>3. CASE DetachCollection(p) BY <1>3 DEF DetachCollection
<1> QED BY <1>1, <1>2, <1>3 DEF Reset

LEMMA OperateType == ASSUME TypeOK, NEW r \in Requests, Operate(r) PROVE TypeOK'
<1> USE DEF TypeOK, PCs, store, mongo, data, Goto, Failed, Fault
<1>1. CASE AssertCollection(r) BY <1>1 DEF AssertCollection
<1>2. CASE ReturnCollection(r) BY <1>2 DEF ReturnCollection, FirstCall
<1>3. CASE AssertClient(r)     BY <1>3 DEF AssertClient
<1>4. CASE ReadClient(r)       BY <1>4 DEF ReadClient
<1>5. CASE Insert(r)           BY <1>5 DEF Insert
<1>6. CASE Touch(r)            BY <1>6 DEF Touch
<1>7. CASE Read(r)             BY <1>7 DEF Read
<1>8. CASE CallFails(r)        BY <1>8, FaultAssumption DEF CallFails
<1>9. CASE CallOnClosed(r)     BY <1>9 DEF CallOnClosed
<1>10. CASE CallOnNone(r)      BY <1>10 DEF CallOnNone
<1>11. CASE CloseAndRetry(r)
  <2>1. open' \subseteq 1..built' /\ own' \in [Procs -> 0..built]
    BY <1>11, CloseType DEF CloseAndRetry, CloseDetached
  <2>2. pc' \in [Procs -> PCs] /\ attempt' \in [Requests -> 1..2]
        /\ handle' \in [Requests -> 0..built]
    BY <1>11 DEF CloseAndRetry
  <2> QED BY <1>11, <2>1, <2>2 DEF CloseAndRetry, CloseDetached
<1>12. CASE CloseAndRaise(r)   BY <1>12, CloseType DEF CloseAndRaise, CloseDetached
<1> QED BY <1>1, <1>2, <1>3, <1>4, <1>5, <1>6, <1>7, <1>8, <1>9, <1>10, <1>11, <1>12
        DEF Operate

LEMMA TypeStep == TypeOK /\ [Next]_vars => TypeOK'
<1> SUFFICES ASSUME TypeOK, [Next]_vars PROVE TypeOK'
  OBVIOUS
<1>1. CASE UNCHANGED vars
  BY <1>1 DEF TypeOK, vars, store, mongo, data
<1>2. Shutdown => TypeOK'
  BY DEF TypeOK, PCs, Shutdown, Goto, store, mongo, data
<1>3. CloseAndStop => TypeOK'
  BY CloseType DEF TypeOK, PCs, CloseAndStop, CloseDetached, Goto, store, mongo, data
<1>4. \A r \in Requests : Begin(r) \/ Operate(r) => TypeOK'
  BY OperateType, ZenonT(60) DEF TypeOK, PCs, Begin, Goto, store, mongo, data
<1>5. \A p \in Procs : Connect(p) \/ Reset(p) => TypeOK'
  BY ConnectType, ResetType
<1> QED BY <1>1, <1>2, <1>3, <1>4, <1>5, NextCases

(* TypeOK is an invariant of the store.                                    *)
THEOREM Typing == Spec => []TypeOK
<1>1. Init => TypeOK
  BY FaultAssumption DEF Init, TypeOK, PCs
<1> QED BY <1>1, TypeStep, PTL DEF Spec

-----------------------------------------------------------------------------
(* The inductive invariant of the lock and of the clients.  The properties *)
(* speak of states with the lock free; StoreInv adds what the holder of    *)
(* the lock knows at each of its lines.                                    *)
Owning == {"initialise", "detachCollection", "close"}

AtLine(p) ==
  /\ own[p] # None => pc[p] \in Owning
  /\ pc[p] \in {"recheck", "detachClient"} => collection = client
  /\ pc[p] = "initialise" => client = None /\ collection = None /\ own[p] # None
  /\ pc[p] = "setCollection" => collection = None /\ client # None
  /\ pc[p] = "detachCollection" => client = None

(* EveryOpenClientHasOneOwner, element by element.                         *)
OpenInv ==
  /\ \A c : c \in open <=> c # None /\ (c = client \/ \E p \in Procs : own[p] = c)
  /\ \A p \in Procs : own[p] # None => own[p] # client
  /\ \A p, q \in Procs : own[p] # None /\ own[p] = own[q] => p = q

StoreInv ==
  /\ LockProtects
  /\ OpenInv
  /\ CollectionMatchesClient
  /\ \A p \in Procs : AtLine(p)

LEMMA OpenInvMeansOneOwner == OpenInv <=> EveryOpenClientHasOneOwner
BY DEF OpenInv, EveryOpenClientHasOneOwner

(* A process that moves between two lines outside the lock and outside     *)
(* close(), and touches neither the store nor its client, preserves it.    *)
LEMMA QuietStep ==
  ASSUME TypeOK, StoreInv, NEW p \in Procs, NEW l,
         UNCHANGED <<store, mongo, own>>, pc' = [pc EXCEPT ![p] = l],
         pc[p] \notin Locked \cup Owning, l \notin Locked \cup Owning
  PROVE  StoreInv'
BY DEF TypeOK, StoreInv, LockProtects, OpenInv, CollectionMatchesClient, AtLine, Locked,
       Owning, store, mongo

LEMMA ConnectStoreInv ==
  ASSUME TypeOK, StoreInv, NEW p \in Procs, Connect(p) PROVE StoreInv'
<1> USE ProcessAssumption
<1> USE DEF TypeOK, StoreInv, LockProtects, Locked, AtLine, Owning, CollectionMatchesClient,
            Goto, Connected, Failed, Fault, mongo, store
<1>1. CASE CheckConnected(p)
  BY <1>1, QuietStep DEF CheckConnected
<1>2. CASE LockForConnect(p)
  BY <1>2 DEF LockForConnect, OpenInv
<1>3. CASE FoundConnected(p)
  BY <1>3 DEF FoundConnected, OpenInv
<1>4. CASE BuildClient(p)
  <2>1. built' # None /\ built' # client /\ \A q \in Procs : own[q] # built'
    BY <1>4 DEF BuildClient
  <2>2. own[p] = None
    BY <1>4 DEF BuildClient
  <2>3. OpenInv'
    BY <1>4, <2>1, <2>2 DEF BuildClient, OpenInv
  <2> QED BY <1>4, <2>1, <2>3 DEF BuildClient
<1>5. CASE BuildFails(p)
  BY <1>5 DEF BuildFails, OpenInv
<1>6. CASE InitialiseFails(p)
  <2>1. OpenInv'
    BY <1>6 DEF InitialiseFails, OpenInv
  <2> QED BY <1>6, <2>1 DEF InitialiseFails
<1>7. CASE SetClient(p)
  <2>1. OpenInv'
    BY <1>7 DEF SetClient, OpenInv
  <2> QED BY <1>7, <2>1 DEF SetClient
<1>8. CASE SetCollection(p)
  BY <1>8 DEF SetCollection, OpenInv
<1> QED BY <1>1, <1>2, <1>3, <1>4, <1>5, <1>6, <1>7, <1>8 DEF Connect

LEMMA ResetStoreInv ==
  ASSUME TypeOK, StoreInv, NEW p \in Procs, Reset(p) PROVE StoreInv'
<1> USE ProcessAssumption
<1> USE DEF TypeOK, StoreInv, LockProtects, Locked, AtLine, Owning, CollectionMatchesClient,
            Goto, mongo
<1>1. CASE LockForReset(p)
  BY <1>1 DEF LockForReset, OpenInv
<1>2. CASE DetachClient(p)
  <2>1. own[p] = None
    BY <1>2 DEF DetachClient
  <2>2. OpenInv'
    BY <1>2, <2>1 DEF DetachClient, OpenInv
  <2> QED BY <1>2, <2>2 DEF DetachClient
<1>3. CASE DetachCollection(p)
  BY <1>3 DEF DetachCollection, OpenInv
<1> QED BY <1>1, <1>2, <1>3 DEF Reset

LEMMA CloseStoreInv ==
  ASSUME TypeOK, StoreInv, NEW p \in Procs, CloseDetached(p), NEW l,
         pc' = [pc EXCEPT ![p] = l], l \notin Locked \cup Owning
  PROVE  StoreInv'
<1>1. OpenInv'
  BY DEF TypeOK, StoreInv, OpenInv, CloseDetached, store
<1> QED BY <1>1 DEF TypeOK, StoreInv, LockProtects, Locked, AtLine, Owning,
                    CollectionMatchesClient, CloseDetached, store

LEMMA OperateStoreInv ==
  ASSUME TypeOK, StoreInv, NEW r \in Requests, Operate(r) PROVE StoreInv'
<1> USE ProcessAssumption DEF Locked, Owning, Goto
<1>1. r \in Procs /\ Failed(r) = "lockReset"
  BY DEF Failed
<1>2. CASE CloseAndRetry(r)
  BY <1>2, <1>1, CloseStoreInv DEF CloseAndRetry
<1>3. CASE CloseAndRaise(r)
  BY <1>3, <1>1, CloseStoreInv DEF CloseAndRaise
<1>4. ASSUME ~CloseAndRetry(r), ~CloseAndRaise(r)
      PROVE  /\ UNCHANGED <<store, mongo, own>>
             /\ \E l : pc' = [pc EXCEPT ![r] = l] /\ l \notin Locked \cup Owning
             /\ pc[r] \notin Locked \cup Owning
  BY <1>1, <1>4 DEF TypeOK, Operate, AssertCollection, ReturnCollection, FirstCall, AssertClient,
     ReadClient, Insert, Touch, Read, CallFails, CallOnClosed, CallOnNone, Calls
<1> QED BY <1>1, <1>2, <1>3, <1>4, QuietStep

LEMMA StoreInvStep == TypeOK /\ StoreInv /\ [Next]_vars => StoreInv'
<1> SUFFICES ASSUME TypeOK, StoreInv, [Next]_vars PROVE StoreInv'
  OBVIOUS
<1> USE DEF Locked, Owning, Goto
<1>1. CASE UNCHANGED vars
  BY <1>1 DEF vars, store, mongo, StoreInv, LockProtects, OpenInv, CollectionMatchesClient,
              AtLine
<1>2. Shutdown => StoreInv'
  BY QuietStep DEF Shutdown
<1>3. CloseAndStop => StoreInv'
  BY CloseStoreInv DEF CloseAndStop
<1>4. \A r \in Requests : Begin(r) \/ Operate(r) => StoreInv'
  BY OperateStoreInv, QuietStep DEF Begin
<1>5. \A p \in Procs : Connect(p) \/ Reset(p) => StoreInv'
  BY ConnectStoreInv, ResetStoreInv
<1> QED BY <1>1, <1>2, <1>3, <1>4, <1>5, NextCases

LEMMA StoreInvariance == Spec => []StoreInv
<1>1. Init => StoreInv
  BY ProcessAssumption
     DEF Init, StoreInv, LockProtects, Locked, OpenInv, CollectionMatchesClient, AtLine, Owning
<1> QED BY <1>1, StoreInvStep, Typing, PTL DEF Spec

(* The three safety properties of the shared client follow.                *)
THEOREM MutualExclusion == Spec => []LockProtects
BY StoreInvariance, PTL DEF StoreInv

THEOREM NoClientLeaks == Spec => []EveryOpenClientHasOneOwner
<1>1. StoreInv => EveryOpenClientHasOneOwner
  BY OpenInvMeansOneOwner DEF StoreInv
<1> QED BY <1>1, StoreInvariance, PTL

THEOREM CollectionConsistency == Spec => []CollectionMatchesClient
BY StoreInvariance, PTL DEF StoreInv

-----------------------------------------------------------------------------
(* The life of the worker: requests run only while Main serves, and once   *)
(* Main has detached the client nobody installs another one.               *)
LifeInv ==
  /\ pc[Main] \notin Resting \cup Calls \cup {"assert", "return", "assertClient", "readClient"}
  /\ \A r \in Requests : pc[r] \notin {"serving", "stopped", "failed"}
  /\ pc[Main] # "serving" => \A r \in Requests : pc[r] \in Resting
  /\ pc[Main] \in {"close", "stopped", "failed"} => client = None /\ collection = None

LEMMA LifeInvStep == TypeOK /\ StoreInv /\ LifeInv /\ [Next]_vars => LifeInv'
<1> SUFFICES ASSUME TypeOK, StoreInv, LifeInv, [Next]_vars PROVE LifeInv'
  OBVIOUS
<1> USE ProcessAssumption DEF TypeOK, LifeInv, Goto, store, Calls
<1>1. CASE UNCHANGED vars
  BY <1>1 DEF vars
<1>2. Shutdown => LifeInv'
  BY DEF Shutdown
<1>3. CloseAndStop => LifeInv'
  BY DEF CloseAndStop, CloseDetached
<1>4. ASSUME NEW r \in Requests, Begin(r) \/ Operate(r) PROVE LifeInv'
  <2>1. CASE Begin(r)
    BY <2>1 DEF Begin
  <2>2. CASE Operate(r)
    <3>1. /\ UNCHANGED store
          /\ \E l : pc' = [pc EXCEPT ![r] = l] /\ l \notin {"serving", "stopped", "failed"}
          /\ pc[r] \notin Resting
      BY <2>2 DEF Operate, AssertCollection, ReturnCollection, FirstCall, AssertClient,
         ReadClient, Insert, Touch, Read, CallFails, CallOnClosed, CallOnNone, CloseAndRetry,
         CloseAndRaise, CloseDetached, Failed
    <3> QED BY <3>1
  <2> QED BY <1>4, <2>1, <2>2
<1>5. ASSUME NEW p \in Procs, Connect(p) \/ Reset(p) PROVE LifeInv'
  <2> USE <1>5 DEF StoreInv, AtLine, Connected, Failed
  <2>1. CASE Connect(p)
    BY <2>1 DEF Connect, CheckConnected, LockForConnect, FoundConnected, BuildClient,
       BuildFails, InitialiseFails, SetClient, SetCollection
  <2>2. CASE Reset(p)
    BY <2>2 DEF Reset, LockForReset, DetachClient, DetachCollection
  <2> QED BY <2>1, <2>2
<1> QED BY <1>1, <1>2, <1>3, <1>4, <1>5, NextCases

LEMMA LifeInvariance == Spec => []LifeInv
<1>1. Init => LifeInv
  BY ProcessAssumption DEF Init, LifeInv, Calls
<1> QED BY <1>1, LifeInvStep, Typing, StoreInvariance, PTL DEF Spec

(* A worker that stopped, or failed to start, leaves no client open.       *)
THEOREM NothingLeftOpen == Spec => []NothingOpenAfterStop
<1>1. StoreInv /\ LifeInv => NothingOpenAfterStop
  BY DEF StoreInv, OpenInv, AtLine, Owning, LifeInv, NothingOpenAfterStop
<1> QED BY <1>1, StoreInvariance, LifeInvariance, PTL

-----------------------------------------------------------------------------
(* Without a failure of the environment nobody resets the store under a    *)
(* request, so what a request read is still installed and open.            *)
FaultFreeInv ==
  faults = 0 => \A r \in Requests :
    /\ pc[r] \notin {"lockReset", "detachClient", "detachCollection", "close", "raised", "broken"}
    /\ pc[r] \in Calls \cup {"assert", "return", "assertClient", "readClient"} => collection # None
    /\ pc[r] \in Calls => handle[r] = collection

LEMMA InstalledIsOpen ==
  ASSUME TypeOK, StoreInv, LifeInv, FaultFreeInv, faults = 0,
         collection # None, NEW r \in Requests, pc[r] \notin Resting
  PROVE  client = collection /\ client \in open
<1>1. CASE lock = Free
  BY <1>1 DEF StoreInv, CollectionMatchesClient, OpenInv
<1>2. CASE lock # Free
  <2>1. lock \in Procs /\ pc[lock] \in Locked
    BY <1>2 DEF TypeOK, StoreInv, LockProtects
  <2>2. pc[lock] \notin {"initialise", "setCollection"}
    BY <2>1 DEF StoreInv, AtLine
  <2>3. pc[lock] \notin {"detachClient", "detachCollection"}
    BY <2>1 DEF LifeInv, FaultFreeInv
  <2>4. client = collection
    BY <2>1, <2>2, <2>3 DEF Locked, StoreInv, AtLine
  <2> QED BY <2>4 DEF StoreInv, OpenInv
<1> QED BY <1>1, <1>2

LEMMA FaultFreeStep ==
  TypeOK /\ StoreInv /\ LifeInv /\ FaultFreeInv /\ [Next]_vars => FaultFreeInv'
<1> SUFFICES ASSUME TypeOK, StoreInv, LifeInv, FaultFreeInv, [Next]_vars, faults' = 0
             PROVE  FaultFreeInv'
  BY DEF FaultFreeInv
<1>0. faults = 0
  <2>1. Fault => FALSE
    BY DEF Fault, TypeOK
  <2>2. CASE UNCHANGED vars
    BY <2>2 DEF vars
  <2>3. CASE Next
    BY <2>1, <2>3 DEF Next, Step, Connect, Reset, Operate, Shutdown, Begin, CheckConnected,
       LockForConnect, FoundConnected, BuildClient, BuildFails, InitialiseFails, SetClient,
       SetCollection, AssertCollection, ReturnCollection, AssertClient, ReadClient, Insert,
       Touch, Read, CallFails, CallOnClosed, CallOnNone, CloseAndRetry, CloseAndRaise,
       CloseAndStop, CloseDetached, LockForReset, DetachClient, DetachCollection
  <2> QED BY <2>2, <2>3
<1> USE ProcessAssumption, <1>0 DEF TypeOK, FaultFreeInv, Goto, store, Calls
<1>1. CASE UNCHANGED vars
  BY <1>1 DEF vars
<1>2. Shutdown => FaultFreeInv'
  BY DEF Shutdown
<1>3. CloseAndStop => FaultFreeInv'
  BY DEF CloseAndStop, CloseDetached
<1>4. ASSUME NEW r \in Requests, Begin(r) \/ Operate(r) PROVE FaultFreeInv'
  <2>1. CASE Begin(r)
    BY <2>1 DEF Begin
  <2>2. CASE Operate(r)
    <3>1. pc[r] \in Calls \cup {"assert", "return", "assertClient", "readClient"}
          => collection # None /\ client = collection /\ client \in open
      BY InstalledIsOpen
    <3>2. ~CallFails(r)
      BY DEF CallFails, Fault
    <3>3. ~CallOnClosed(r) /\ ~CallOnNone(r)
      BY <3>1 DEF CallOnClosed, CallOnNone
    <3>4. ~CloseAndRetry(r) /\ ~CloseAndRaise(r)
      BY DEF CloseAndRetry, CloseAndRaise, CloseDetached
    <3>5. CASE AssertCollection(r)
      BY <3>5, <3>1 DEF AssertCollection
    <3>6. CASE ReturnCollection(r)
      <4>1. FirstCall(r) \in {"insert", "find", "assertClient"}
        BY DEF FirstCall
      <4>2. handle' = [handle EXCEPT ![r] = collection] /\ collection # None
            /\ pc' = [pc EXCEPT ![r] = FirstCall(r)] /\ UNCHANGED <<store, faults>>
        BY <3>6, <3>1 DEF ReturnCollection
      <4> QED BY <4>1, <4>2
    <3>7. CASE AssertClient(r)
      BY <3>7, <3>1 DEF AssertClient
    <3>8. CASE ReadClient(r)
      BY <3>8, <3>1 DEF ReadClient
    <3>9. CASE Insert(r) \/ Touch(r) \/ Read(r)
      BY <3>9, <3>1 DEF Insert, Touch, Read
    <3> QED BY <2>2, <3>2, <3>3, <3>4, <3>5, <3>6, <3>7, <3>8, <3>9 DEF Operate
  <2> QED BY <1>4, <2>1, <2>2
<1>5. ASSUME NEW p \in Procs, Connect(p) \/ Reset(p) PROVE FaultFreeInv'
  <2> USE <1>5 DEF StoreInv, AtLine, LifeInv, Connected
  <2>1. CASE Connect(p)
    <3>1. ~BuildFails(p) /\ ~InitialiseFails(p)
      BY DEF BuildFails, InitialiseFails, Fault
    <3>2. CASE CheckConnected(p) \/ FoundConnected(p)
      BY <3>2 DEF CheckConnected, FoundConnected
    <3>3. CASE LockForConnect(p) \/ BuildClient(p)
      BY <3>3 DEF LockForConnect, BuildClient
    <3>4. CASE SetClient(p)
      BY <3>4 DEF SetClient
    <3>5. CASE SetCollection(p)
      <4>1. collection' # None /\ \A r \in Requests : pc[r] \notin Calls
        BY <3>5 DEF SetCollection
      <4> QED BY <3>5, <4>1 DEF SetCollection
    <3> QED BY <2>1, <3>1, <3>2, <3>3, <3>4, <3>5 DEF Connect
  <2>2. CASE Reset(p)
    BY <2>2 DEF Reset, LockForReset, DetachClient, DetachCollection
  <2> QED BY <2>1, <2>2
<1> QED BY <1>1, <1>2, <1>3, <1>4, <1>5, NextCases

(* No request fails while MongoDB and the network do not.                  *)
THEOREM FaultFreeRequestsSucceed == Spec => []OnlyFaultsBreakRequests
<1>1. Init => FaultFreeInv
  BY ProcessAssumption DEF Init, FaultFreeInv, Calls
<1>2. FaultFreeInv => OnlyFaultsBreakRequests
  BY DEF FaultFreeInv, OnlyFaultsBreakRequests
<1> QED BY <1>1, <1>2, FaultFreeStep, Typing, StoreInvariance, LifeInvariance, PTL DEF Spec

-----------------------------------------------------------------------------
(* SimulationStore implements HistoryWrites.  A save inserts once per      *)
(* attempt, and touches only after an insertion of the same attempt.       *)
BeforeInsert == {"idle", "connect", "lockConnect", "recheck", "initialise", "setCollection",
                 "assert", "return", "insert"}

WriteInv == \A r \in Requests :
  /\ copies[r] <= attempt[r]
  /\ pc[r] \in BeforeInsert => copies[r] < attempt[r]
  /\ pc[r] = "touch" => copies[r] > 0
  /\ pc[r] \in {"insert", "touch"} => kind[r] = "save"
  /\ pc[r] \in {"find", "assertClient", "readClient", "pingCall"} => kind[r] # "save"

LEMMA WriteInvStep == TypeOK /\ LifeInv /\ WriteInv /\ [Next]_vars => WriteInv'
<1> SUFFICES ASSUME TypeOK, LifeInv, WriteInv, [Next]_vars PROVE WriteInv'
  OBVIOUS
<1> USE ProcessAssumption DEF TypeOK, WriteInv, BeforeInsert, Goto, data, Calls
<1>1. CASE UNCHANGED vars
  BY <1>1 DEF vars
<1>2. Shutdown => WriteInv'
  BY DEF Shutdown
<1>3. CloseAndStop => WriteInv'
  BY DEF CloseAndStop, CloseDetached
<1>4. ASSUME NEW r \in Requests, Begin(r) \/ Operate(r) PROVE WriteInv'
  <2>1. CASE Begin(r)
    BY <2>1 DEF Begin
  <2>2. CASE AssertCollection(r) \/ AssertClient(r) \/ ReadClient(r) \/ Read(r)
             \/ CallOnClosed(r) \/ CallOnNone(r)
    BY <2>2 DEF AssertCollection, AssertClient, ReadClient, Read, CallOnClosed, CallOnNone, Failed
  <2>3. CASE ReturnCollection(r)
    BY <2>3 DEF ReturnCollection, FirstCall
  <2>4. CASE Insert(r) \/ Touch(r)
    BY <2>4 DEF Insert, Touch
  <2>5. CASE CallFails(r)
    BY <2>5 DEF CallFails, Failed
  <2>6. CASE CloseAndRetry(r) \/ CloseAndRaise(r)
    BY <2>6 DEF CloseAndRetry, CloseAndRaise, CloseDetached
  <2> QED BY <1>4, <2>1, <2>2, <2>3, <2>4, <2>5, <2>6 DEF Operate
<1>5. ASSUME NEW p \in Procs, Connect(p) \/ Reset(p) PROVE WriteInv'
  <2>1. CASE Connect(p)
    BY <2>1 DEF Connect, Connected, Failed, CheckConnected, LockForConnect, FoundConnected,
       BuildClient, BuildFails, InitialiseFails, SetClient, SetCollection
  <2>2. CASE Reset(p)
    BY <2>2 DEF Reset, LockForReset, DetachClient, DetachCollection
  <2> QED BY <1>5, <2>1, <2>2
<1> QED BY <1>1, <1>2, <1>3, <1>4, <1>5, NextCases

LEMMA WriteInvariance == Spec => []WriteInv
<1>1. Init => WriteInv
  BY ProcessAssumption DEF Init, WriteInv, BeforeInsert
<1> QED BY <1>1, WriteInvStep, Typing, LifeInvariance, PTL DEF Spec

(* A step that changes no status and no data is a stutter of HistoryWrites. *)
AbstractStatus == [r \in Requests |-> Status(r)]
Ended == {"done", "raised", "broken"}

LEMMA QuietStatus ==
  ASSUME TypeOK, NEW p \in Procs, NEW l, pc' = [pc EXCEPT ![p] = l],
         p \in Requests => pc[p] \notin Ended /\ l \notin Ended
  PROVE  AbstractStatus' = AbstractStatus
BY DEF TypeOK, AbstractStatus, Status, Ended

LEMMA EndStatus ==
  ASSUME TypeOK, NEW r \in Requests, NEW l \in Ended, pc' = [pc EXCEPT ![r] = l],
         pc[r] \notin Ended
  PROVE  /\ AbstractStatus[r] = "pending"
         /\ AbstractStatus' = [AbstractStatus EXCEPT ![r] = IF l = "done" THEN "answered"
                                                           ELSE "failed"]
BY DEF TypeOK, AbstractStatus, Status, Ended

LEMMA StepSimulation ==
  TypeOK /\ LifeInv /\ WriteInv /\ [Next]_vars => [Abstract!Next]_(Abstract!vars)
<1> SUFFICES ASSUME TypeOK, LifeInv, WriteInv, [Next]_vars
             PROVE  Abstract!Next \/ UNCHANGED Abstract!vars
  OBVIOUS
<1> DEFINE Stutter == UNCHANGED Abstract!vars
<1> USE DEF Goto, Ended, data
<1>0. ASSUME UNCHANGED data, UNCHANGED kind, AbstractStatus' = AbstractStatus PROVE Stutter
  BY <1>0 DEF Abstract!vars, AbstractStatus
<1> HIDE DEF Stutter
<1>1. CASE UNCHANGED vars
  <2>1. AbstractStatus' = AbstractStatus
    BY <1>1 DEF vars, AbstractStatus, Status
  <2> QED BY <1>1, <2>1, <1>0 DEF vars, Stutter
<1>2. Shutdown => Stutter
  BY <1>0, QuietStatus, ProcessAssumption DEF Shutdown
<1>3. CloseAndStop => Stutter
  BY <1>0, QuietStatus, ProcessAssumption DEF CloseAndStop, CloseDetached
<1>5. ASSUME NEW p \in Procs, Connect(p) \/ Reset(p) PROVE Stutter
  <2>1. /\ UNCHANGED <<data, kind>>
        /\ \E l : /\ pc' = [pc EXCEPT ![p] = l]
                  /\ p \in Requests => pc[p] \notin Ended /\ l \notin Ended
    BY <1>5, ProcessAssumption DEF Connect, Connected, Failed, CheckConnected, LockForConnect,
       FoundConnected, BuildClient, BuildFails, InitialiseFails, SetClient, SetCollection,
       Reset, LockForReset, DetachClient, DetachCollection
  <2> QED BY <2>1, <1>0, QuietStatus
<1>4. ASSUME NEW r \in Requests, Begin(r) \/ Operate(r) PROVE Abstract!Next \/ Stutter
  <2>0. r \in Procs /\ Failed(r) = "lockReset"
    BY ProcessAssumption DEF Failed
  <2> USE DEF TypeOK
  <2>1. CASE /\ UNCHANGED <<data, kind>> /\ pc[r] \notin Ended
             /\ \E l : l \notin Ended /\ pc' = [pc EXCEPT ![r] = l]
    BY <2>1, <2>0, <1>0, QuietStatus
  <2>2. ASSUME UNCHANGED <<data, kind>>, pc[r] \notin Ended, pc[r] # "touch",
               NEW l \in Ended, pc' = [pc EXCEPT ![r] = l],
               l = "done" => kind[r] # "save"
        PROVE  Abstract!Next
    <3>1. /\ AbstractStatus[r] = "pending"
          /\ AbstractStatus' = [AbstractStatus EXCEPT ![r] = IF l = "done" THEN "answered"
                                                            ELSE "failed"]
      BY <2>2, EndStatus
    <3>2. Abstract!Answer(r) \/ Abstract!Fail(r)
      BY <2>2, <3>1 DEF Abstract!Answer, Abstract!Fail, AbstractStatus
    <3> QED BY <3>2 DEF Abstract!Next
  <2>3. CASE Begin(r)
    BY <2>1, <2>3 DEF Begin
  <2>4. CASE ReturnCollection(r)
    BY <2>1, <2>4 DEF ReturnCollection, FirstCall
  <2>5. CASE ReadClient(r) \/ CallOnClosed(r)
    BY <2>0, <2>1, <2>5 DEF ReadClient, CallOnClosed, Calls
  <2>6. CASE CloseAndRetry(r)
    BY <2>1, <2>6 DEF CloseAndRetry, CloseDetached
  <2>7. CASE CloseAndRaise(r)
    BY <2>2, <2>7 DEF CloseAndRaise, CloseDetached
  <2>8. CASE CallOnNone(r)
    <3>1. CASE pc[r] = "touch"
      <4>1. AbstractStatus[r] = "pending"
            /\ AbstractStatus' = [AbstractStatus EXCEPT ![r] = "failed"]
        BY <2>8, <3>1, EndStatus DEF CallOnNone
      <4>2. Abstract!Fail(r)
        BY <2>8, <4>1 DEF CallOnNone, Abstract!Fail, AbstractStatus
      <4> QED BY <4>2 DEF Abstract!Next
    <3> QED BY <2>2, <2>8, <3>1 DEF CallOnNone, Calls
  <2>9. CASE AssertCollection(r) \/ AssertClient(r)
    <3>1. CASE pc' = [pc EXCEPT ![r] = "broken"]
      BY <2>2, <2>9, <3>1 DEF AssertCollection, AssertClient
    <3> QED BY <2>1, <2>9, <3>1 DEF AssertCollection, AssertClient
  <2>10. CASE Read(r)
    BY <2>2, <2>10 DEF Read, WriteInv
  <2>11. CASE Insert(r)
    <3>1. AbstractStatus' = AbstractStatus /\ AbstractStatus[r] = "pending"
      BY <2>0, <2>11, QuietStatus DEF Insert, AbstractStatus, Status
    <3>2. kind[r] = "save" /\ copies[r] < 2
      BY <2>11 DEF Insert, WriteInv, BeforeInsert
    <3>3. Abstract!Write(r)
      BY <2>11, <3>1, <3>2 DEF Insert, Abstract!Write, AbstractStatus
    <3> QED BY <3>3 DEF Abstract!Next
  <2>12. CASE Touch(r)
    <3>1. /\ AbstractStatus[r] = "pending"
          /\ AbstractStatus' = [AbstractStatus EXCEPT ![r] = "answered"]
      BY <2>12, EndStatus DEF Touch
    <3>2. kind[r] = "save" /\ copies[r] > 0
      BY <2>12 DEF Touch, WriteInv
    <3>3. Abstract!Acknowledge(r)
      BY <2>12, <3>1, <3>2 DEF Touch, Abstract!Acknowledge, AbstractStatus
    <3> QED BY <3>3 DEF Abstract!Next
  <2>13. CASE CallFails(r)
    <3>1. AbstractStatus' = AbstractStatus /\ AbstractStatus[r] = "pending"
      BY <2>0, <2>13, QuietStatus DEF CallFails, Calls, AbstractStatus, Status
    <3>2. CASE UNCHANGED data
      BY <2>13, <3>1, <3>2, <1>0 DEF CallFails
    <3>3. CASE pc[r] = "insert" /\ copies' = [copies EXCEPT ![r] = @ + 1] /\ UNCHANGED refreshed
      <4>1. kind[r] = "save" /\ copies[r] < 2
        BY <3>3 DEF WriteInv, BeforeInsert
      <4>2. Abstract!Write(r)
        BY <2>13, <3>1, <3>3, <4>1 DEF CallFails, Abstract!Write, AbstractStatus
      <4> QED BY <4>2 DEF Abstract!Next
    <3>4. CASE pc[r] = "touch" /\ refreshed' = refreshed \cup {r} /\ UNCHANGED copies
      <4>1. kind[r] = "save" /\ copies[r] > 0
        BY <3>4 DEF WriteInv
      <4>2. Abstract!RefreshSilently(r)
        BY <2>13, <3>1, <3>4, <4>1 DEF CallFails, Abstract!RefreshSilently, AbstractStatus
      <4> QED BY <4>2 DEF Abstract!Next
    <3> QED BY <2>13, <3>2, <3>3, <3>4 DEF CallFails
  <2> QED BY <1>4, <2>3, <2>4, <2>5, <2>6, <2>7, <2>8, <2>9, <2>10, <2>11, <2>12, <2>13
          DEF Operate
<1> QED BY <1>1, <1>2, <1>3, <1>4, <1>5, NextCases DEF Stutter

(* The store writes no document HistoryWrites forbids.                     *)
THEOREM StoreImplementsHistoryWrites == Spec => ImplementsHistoryWrites
<1>1. Init => Abstract!Init
  BY ProcessAssumption DEF Init, Abstract!Init, Status
<1> QED BY <1>1, StepSimulation, Typing, LifeInvariance, WriteInvariance, PTL
        DEF Spec, ImplementsHistoryWrites, Abstract!Spec
=============================================================================
