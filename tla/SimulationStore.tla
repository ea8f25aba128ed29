--------------------------- MODULE SimulationStore ---------------------------
(***************************************************************************)
(* backend/simulation_store.py: the MongoDB client shared by the threads   *)
(* that serve HTTP requests of one worker process.                         *)
(*                                                                         *)
(* The FastAPI lifespan (process Main) connects the store, serves, and     *)
(* closes it.  Each request runs one store operation in a pool thread:     *)
(* save_simulation, list_recent or ping, at most twice (one reconnection   *)
(* after a PyMongoError).  Every read or assignment of `_client` and       *)
(* `_collection` is a step of its own, because only connect and            *)
(* _reset_client take the lock; the operations read both without it.       *)
(***************************************************************************)
EXTENDS Naturals, FiniteSets

CONSTANTS
  Requests,   \* HTTP requests, each run by a thread of the pool
  Main,       \* the lifespan task of backend/api.py
  Free,       \* the value of the lock when nobody holds it
  MaxFaults   \* bound on the PyMongoErrors caused by the server or the network

Procs == Requests \cup {Main}

ASSUME ProcessAssumption == /\ Main \notin Requests
                            /\ Free \notin Procs
ASSUME FaultAssumption == MaxFaults \in Nat

Kinds == {"save", "list", "ping"}

(* A MongoClient is numbered by its construction; None is Python's None.   *)
None == 0

VARIABLES
  client, collection,  \* self._client, self._collection (by its client)
  lock,                \* self._lock
  built,               \* number of MongoClients constructed so far
  open,                \* those of them that are not closed
  kind,                \* the operation of each request
  pc, attempt,         \* control of each process, attempt of its operation
  own,                 \* local `client` of connect and of _reset_client
  handle,              \* local `coll` of an operation (ping: its _client)
  copies, refreshed,   \* documents inserted by each save; saves that touched
  faults               \* environment failures so far

store == <<client, collection, lock>>
mongo == <<built, open>>
data  == <<copies, refreshed>>
vars  == <<store, mongo, kind, pc, attempt, own, handle, data, faults>>

Resting == {"idle", "done", "raised", "broken"}
PCs == Resting \cup
       {"serving", "stopped", "failed",                          \* Main only
        "connect", "lockConnect", "recheck", "initialise", "setCollection",
        "assert", "return", "insert", "touch", "find",
        "assertClient", "readClient", "pingCall",
        "lockReset", "detachClient", "detachCollection", "close"}

Init ==
  /\ client = None /\ collection = None /\ lock = Free
  /\ built = 0 /\ open = {}
  /\ kind \in [Requests -> Kinds]
  /\ pc = [p \in Procs |-> IF p = Main THEN "connect" ELSE "idle"]
  /\ attempt = [r \in Requests |-> 1]
  /\ own = [p \in Procs |-> None]
  /\ handle = [r \in Requests |-> None]
  /\ copies = [r \in Requests |-> 0]
  /\ refreshed = {}
  /\ faults = 0

Goto(p, label) == pc' = [pc EXCEPT ![p] = label]

(* Where a process goes when connect() returns, and when a PyMongoError    *)
(* leaves connect() or a driver call: _run_with_reconnect catches it for a *)
(* request; for Main it leaves the lifespan and the worker does not start. *)
Connected(p) == IF p = Main THEN "serving" ELSE "assert"
Failed(p)    == IF p = Main THEN "failed" ELSE "lockReset"

Fault == faults < MaxFaults /\ faults' = faults + 1

-----------------------------------------------------------------------------
(* The thread of a request starts its operation.                           *)
Begin(r) ==
  /\ pc[Main] = "serving" /\ pc[r] = "idle"
  /\ Goto(r, "connect")
  /\ UNCHANGED <<store, mongo, kind, attempt, own, handle, data, faults>>

(* connect(): the check made without the lock.                             *)
CheckConnected(p) ==
  /\ pc[p] = "connect"
  /\ Goto(p, IF collection # None THEN Connected(p) ELSE "lockConnect")
  /\ UNCHANGED <<store, mongo, kind, attempt, own, handle, data, faults>>

LockForConnect(p) ==
  /\ pc[p] = "lockConnect" /\ lock = Free
  /\ lock' = p
  /\ Goto(p, "recheck")
  /\ UNCHANGED <<client, collection, mongo, kind, attempt, own, handle, data, faults>>

(* Faulty variant: returns from the second check with the lock held.       *)
FoundConnectedKeepsLock(p) ==
  /\ pc[p] = "recheck" /\ collection # None
  /\ Goto(p, Connected(p))
  /\ UNCHANGED <<store, mongo, kind, attempt, own, handle, data, faults>>

(* connect(): the second check, under the lock, finds the work done.       *)
FoundConnected(p) ==
  /\ pc[p] = "recheck" /\ collection # None
  /\ lock' = Free
  /\ Goto(p, Connected(p))
  /\ UNCHANGED <<client, collection, mongo, kind, attempt, own, handle, data, faults>>

BuildClient(p) ==
  /\ pc[p] = "recheck" /\ collection = None
  /\ built' = built + 1
  /\ open' = open \cup {built'}
  /\ own' = [own EXCEPT ![p] = built']
  /\ Goto(p, "initialise")
  /\ UNCHANGED <<store, kind, attempt, handle, data, faults>>

(* The constructor raises: nothing was built, the `with` frees the lock.   *)
BuildFails(p) ==
  /\ pc[p] = "recheck" /\ collection = None
  /\ Fault
  /\ lock' = Free
  /\ Goto(p, Failed(p))
  /\ UNCHANGED <<client, collection, mongo, kind, attempt, own, handle, data>>

(* Faulty variant: the except clause of connect() forgets client.close().  *)
InitialiseFailsUnclosed(p) ==
  /\ pc[p] = "initialise"
  /\ Fault
  /\ own' = [own EXCEPT ![p] = None]
  /\ lock' = Free
  /\ Goto(p, Failed(p))
  /\ UNCHANGED <<client, collection, mongo, kind, attempt, handle, data>>

(* _ensure_indexes or the first ping raises: the new client is closed,     *)
(* the exception leaves the `with`.                                        *)
InitialiseFails(p) ==
  /\ pc[p] = "initialise"
  /\ Fault
  /\ open' = open \ {own[p]}
  /\ own' = [own EXCEPT ![p] = None]
  /\ lock' = Free
  /\ Goto(p, Failed(p))
  /\ UNCHANGED <<client, collection, built, kind, attempt, handle, data>>

SetClient(p) ==
  /\ pc[p] = "initialise"
  /\ client' = own[p]
  /\ own' = [own EXCEPT ![p] = None]
  /\ Goto(p, "setCollection")
  /\ UNCHANGED <<collection, lock, mongo, kind, attempt, handle, data, faults>>

SetCollection(p) ==
  /\ pc[p] = "setCollection"
  /\ collection' = client
  /\ lock' = Free
  /\ Goto(p, Connected(p))
  /\ UNCHANGED <<client, mongo, kind, attempt, own, handle, data, faults>>

-----------------------------------------------------------------------------
(* _ensure_collection(): the assertion reads _collection without the lock; *)
(* an AssertionError is not a PyMongoError and leaves the operation.       *)
AssertCollection(r) ==
  /\ pc[r] = "assert"
  /\ Goto(r, IF collection = None THEN "broken" ELSE "return")
  /\ UNCHANGED <<store, mongo, kind, attempt, own, handle, data, faults>>

FirstCall(r) ==
  IF kind[r] = "save" THEN "insert" ELSE IF kind[r] = "list" THEN "find" ELSE "assertClient"

(* `return self._collection` reads it again.                               *)
ReturnCollection(r) ==
  /\ pc[r] = "return"
  /\ handle' = [handle EXCEPT ![r] = collection]
  /\ Goto(r, FirstCall(r))
  /\ UNCHANGED <<store, mongo, kind, attempt, own, data, faults>>

(* ping(): the assertion on _client, then `self._client.admin`.            *)
AssertClient(r) ==
  /\ pc[r] = "assertClient"
  /\ Goto(r, IF client = None THEN "broken" ELSE "readClient")
  /\ UNCHANGED <<store, mongo, kind, attempt, own, handle, data, faults>>

ReadClient(r) ==
  /\ pc[r] = "readClient"
  /\ handle' = [handle EXCEPT ![r] = client]
  /\ Goto(r, "pingCall")
  /\ UNCHANGED <<store, mongo, kind, attempt, own, data, faults>>

Calls == {"insert", "touch", "find", "pingCall"}
Usable(r) == handle[r] # None /\ handle[r] \in open

(* insert_one: the document is stored and the reply arrives.               *)
Insert(r) ==
  /\ pc[r] = "insert" /\ Usable(r)
  /\ copies' = [copies EXCEPT ![r] = @ + 1]
  /\ Goto(r, "touch")
  /\ UNCHANGED <<store, mongo, kind, attempt, own, handle, refreshed, faults>>

(* update_many sets last_seen on every document of the browser.            *)
Touch(r) ==
  /\ pc[r] = "touch" /\ Usable(r)
  /\ refreshed' = refreshed \cup {r}
  /\ Goto(r, "done")
  /\ UNCHANGED <<store, mongo, kind, attempt, own, handle, copies, faults>>

(* find (and its cursor), or the ping command, succeeds.                   *)
Read(r) ==
  /\ pc[r] \in {"find", "pingCall"} /\ Usable(r)
  /\ Goto(r, "done")
  /\ UNCHANGED <<store, mongo, kind, attempt, own, handle, data, faults>>

(* Faulty variant: the error is swallowed and the operation returns.       *)
CallFailsSwallowed(r) ==
  /\ pc[r] \in Calls /\ Usable(r)
  /\ Fault
  /\ Goto(r, "done")
  /\ UNCHANGED <<store, mongo, kind, attempt, own, handle, data>>

(* The environment breaks a call on an open client; a write may or may not *)
(* have been applied before the error was raised.                          *)
CallFails(r) ==
  /\ pc[r] \in Calls /\ Usable(r)
  /\ Fault
  /\ \/ UNCHANGED data
     \/ /\ pc[r] = "insert"
        /\ copies' = [copies EXCEPT ![r] = @ + 1]
        /\ UNCHANGED refreshed
     \/ /\ pc[r] = "touch"
        /\ refreshed' = refreshed \cup {r}
        /\ UNCHANGED copies
  /\ Goto(r, Failed(r))
  /\ UNCHANGED <<store, mongo, kind, attempt, own, handle>>

(* Another thread has closed the client: InvalidOperation, a PyMongoError. *)
CallOnClosed(r) ==
  /\ pc[r] \in Calls /\ handle[r] # None /\ handle[r] \notin open
  /\ Goto(r, Failed(r))
  /\ UNCHANGED <<store, mongo, kind, attempt, own, handle, data, faults>>

(* The attribute read returned None: AttributeError, not caught.           *)
CallOnNone(r) ==
  /\ pc[r] \in Calls /\ handle[r] = None
  /\ Goto(r, "broken")
  /\ UNCHANGED <<store, mongo, kind, attempt, own, handle, data, faults>>

-----------------------------------------------------------------------------

(* _reset_client(): detach under the lock, close outside it.               *)
LockForReset(p) ==
  /\ pc[p] = "lockReset" /\ lock = Free
  /\ lock' = p
  /\ Goto(p, "detachClient")
  /\ UNCHANGED <<client, collection, mongo, kind, attempt, own, handle, data, faults>>

DetachClient(p) ==
  /\ pc[p] = "detachClient"
  /\ own' = [own EXCEPT ![p] = client]
  /\ client' = None
  /\ Goto(p, "detachCollection")
  /\ UNCHANGED <<collection, lock, mongo, kind, attempt, handle, data, faults>>

DetachCollection(p) ==
  /\ pc[p] = "detachCollection"
  /\ collection' = None
  /\ lock' = Free
  /\ Goto(p, "close")
  /\ UNCHANGED <<client, mongo, kind, attempt, own, handle, data, faults>>

CloseDetached(p) ==
  /\ pc[p] = "close"
  /\ open' = open \ {own[p]}
  /\ own' = [own EXCEPT ![p] = None]
  /\ UNCHANGED <<store, built, kind, data, faults>>

(* _run_with_reconnect: the second attempt, or the error raised at last.   *)
CloseAndRetry(r) ==
  /\ CloseDetached(r)
  /\ attempt[r] = 1
  /\ attempt' = [attempt EXCEPT ![r] = 2]
  /\ handle' = [handle EXCEPT ![r] = None]
  /\ Goto(r, "connect")

CloseAndRaise(r) ==
  /\ CloseDetached(r)
  /\ attempt[r] = 2
  /\ Goto(r, "raised")
  /\ UNCHANGED <<attempt, handle>>

(* Faulty variant: the store is closed under the running requests.         *)
ShutdownAtOnce ==
  /\ pc[Main] = "serving"
  /\ Goto(Main, "lockReset")
  /\ UNCHANGED <<store, mongo, kind, attempt, own, handle, data, faults>>

(* Leaving the lifespan closes the store; the server has waited for its    *)
(* requests and their background tasks.                                    *)
Shutdown ==
  /\ pc[Main] = "serving"
  /\ \A r \in Requests : pc[r] \in Resting
  /\ Goto(Main, "lockReset")
  /\ UNCHANGED <<store, mongo, kind, attempt, own, handle, data, faults>>

CloseAndStop ==
  /\ CloseDetached(Main)
  /\ Goto(Main, "stopped")
  /\ UNCHANGED <<attempt, handle>>

Connect(p) ==
  \/ CheckConnected(p) \/ LockForConnect(p) \/ FoundConnected(p)
  \/ BuildClient(p) \/ BuildFails(p) \/ InitialiseFails(p)
  \/ SetClient(p) \/ SetCollection(p)
Reset(p) == LockForReset(p) \/ DetachClient(p) \/ DetachCollection(p)
Operate(r) ==
  \/ AssertCollection(r) \/ ReturnCollection(r) \/ AssertClient(r) \/ ReadClient(r)
  \/ Insert(r) \/ Touch(r) \/ Read(r)
  \/ CallFails(r) \/ CallOnClosed(r) \/ CallOnNone(r)
  \/ CloseAndRetry(r) \/ CloseAndRaise(r)

(* What the thread of p does once started.                                 *)
Step(p) == Connect(p) \/ Reset(p)
           \/ (p \in Requests /\ Operate(p)) \/ (p = Main /\ CloseAndStop)

Next == Shutdown \/ (\E r \in Requests : Begin(r)) \/ (\E p \in Procs : Step(p))

(* Every driver call ends (the client is built with server-selection,      *)
(* connect and socket timeouts) and a thread that can run is scheduled.    *)
Fairness == \A p \in Procs : WF_vars(Step(p))

Spec == Init /\ [][Next]_vars /\ Fairness
-----------------------------------------------------------------------------
(* The type of every variable of the store and of the threads using it.    *)
TypeOK ==
  /\ built \in Nat /\ open \subseteq 1..built
  /\ client \in 0..built /\ collection \in 0..built
  /\ lock \in Procs \cup {Free}
  /\ kind \in [Requests -> Kinds]
  /\ pc \in [Procs -> PCs]
  /\ attempt \in [Requests -> 1..2]
  /\ own \in [Procs -> 0..built] /\ handle \in [Requests -> 0..built]
  /\ copies \in [Requests -> Nat] /\ refreshed \subseteq Requests
  /\ faults \in 0..MaxFaults

(* The lines of connect() and _reset_client() inside `with self._lock`.    *)
Locked == {"recheck", "initialise", "setCollection", "detachClient", "detachCollection"}

(* Only the holder of the lock is inside a `with self._lock` block, so two *)
(* threads never build, install or detach a client at the same time.       *)
LockProtects == \A p \in Procs : (pc[p] \in Locked) <=> (lock = p)

(* No connection pool leaks and none is closed twice: every open client is *)
(* the installed one or the local of exactly one thread that will install  *)
(* or close it, and no installed client is a closed one.  connect() and    *)
(* _reset_client() hand the client over across exceptions and unlocks.     *)
EveryOpenClientHasOneOwner ==
  /\ open = ({client} \cup {own[p] : p \in Procs}) \ {None}
  /\ \A p \in Procs : own[p] # None => own[p] # client
  /\ \A p, q \in Procs : own[p] # None /\ own[p] = own[q] => p = q

(* With the lock free, `_collection` belongs to `_client`: no thread can   *)
(* install a collection of one client beside another client.               *)
CollectionMatchesClient == lock = Free => collection = client

(* While the server and the network do not fail, no request fails: what    *)
(* the threads do to the shared client never breaks another thread.        *)
OnlyFaultsBreakRequests ==
  faults = 0 => \A r \in Requests : pc[r] \notin {"raised", "broken"}

(* When the worker has stopped, or has failed to start, every MongoClient  *)
(* it built is closed (`finally: simulation_store.close()` in the lifespan *)
(* and `client.close()` in connect).                                       *)
NothingOpenAfterStop == pc[Main] \in {"stopped", "failed"} => open = {}

(* The documents the store writes are those HistoryWrites allows.          *)
Status(r) == IF pc[r] = "done" THEN "answered"
             ELSE IF pc[r] \in {"raised", "broken"} THEN "failed" ELSE "pending"
Abstract == INSTANCE HistoryWrites
              WITH saves <- {r \in Requests : kind[r] = "save"},
                   status <- [r \in Requests |-> Status(r)],
                   Attempts <- 2
ImplementsHistoryWrites == Abstract!Spec

(* Every request that starts is answered or fails: the lock is never kept  *)
(* by a thread that raised, and nobody retries for ever.                   *)
EveryRequestEnds ==
  \A r \in Requests : pc[r] # "idle" ~> pc[r] \in {"done", "raised", "broken"}

=============================================================================
