-------------------------- MODULE SimulateRequests --------------------------
(***************************************************************************)
(* backend/api_routes_simulate.py in one worker: POST /simulate waits for  *)
(* a computation that runs in a pool thread, for a limited time, and saves *)
(* the simulation in a background task after it has answered; GET          *)
(* /simulations/history reads the store in a pool thread.                  *)
(*                                                                         *)
(* A pool thread is started only with one of the tokens of the pool.  When *)
(* the wait times out the token comes back but the computation goes on: it *)
(* cannot be cancelled, and it is not assumed to end.                      *)
(***************************************************************************)
EXTENDS Naturals, FiniteSets

CONSTANTS
  Simulations,  \* requests to POST /simulate
  Histories,    \* requests to GET /simulations/history
  PoolSize      \* tokens of the thread pool

Requests == Simulations \cup Histories

ASSUME PoolAssumption == PoolSize \in Nat \ {0} /\ Simulations \cap Histories = {}

VARIABLES
  identified,  \* requests with a client cookie, when persistence is enabled
  pc,          \* each request, from its admission to its answer
  thread,      \* the computation of each simulation
  task,        \* the background task of each simulation
  tokens       \* holders of a token: Wait(request) or Task(simulation)

vars == <<identified, pc, thread, task, tokens>>

Wait(r) == <<"request", r>>
Task(r) == <<"task", r>>
Answers == {"ok", "rejected", "timedOut", "unavailable"}

Init ==
  /\ identified \in SUBSET Requests
  /\ pc = [r \in Requests |-> "new"]
  /\ thread = [r \in Simulations |-> "none"]
  /\ task = [r \in Simulations |-> "none"]
  /\ tokens = {}

Goto(r, label) == pc' = [pc EXCEPT ![r] = label]
TokenFree == Cardinality(tokens) < PoolSize

-----------------------------------------------------------------------------
(* simulate(): the seed and the command are built, or the value objects    *)
(* refuse them (422); then the wait begins, the wait for a token included. *)
Admit(r) ==
  /\ r \in Simulations /\ pc[r] = "new"
  /\ Goto(r, "waiting") \/ Goto(r, "rejected")
  /\ UNCHANGED <<identified, thread, task, tokens>>

StartComputation(r) ==
  /\ r \in Simulations /\ pc[r] = "waiting" /\ TokenFree
  /\ Goto(r, "computing")
  /\ thread' = [thread EXCEPT ![r] = "running"]
  /\ tokens' = tokens \cup {Wait(r)}
  /\ UNCHANGED <<identified, task>>

(* run_simulation returns, or raises StatisticalValueError.                *)
ComputationEnds(r) ==
  /\ thread[r] = "running"
  /\ thread' = [thread EXCEPT ![r] = "result"] \/ thread' = [thread EXCEPT ![r] = "error"]
  /\ UNCHANGED <<identified, pc, task, tokens>>

(* Faulty variant: the save is scheduled by the computation itself.        *)
DeliverToTask(r) ==
  /\ pc[r] \in {"computing", "timedOut"} /\ thread[r] \in {"result", "error"}
  /\ task[r] = "none"
  /\ Goto(r, IF pc[r] = "timedOut" THEN "timedOut"
             ELSE IF thread[r] = "result" THEN "ok" ELSE "rejected")
  /\ task' = [task EXCEPT ![r] =
       IF thread[r] = "result" /\ r \in identified THEN "queued" ELSE "none"]
  /\ tokens' = tokens \ {Wait(r)}
  /\ UNCHANGED <<identified, thread>>

(* The event loop resumes the coroutine with the outcome of its thread.    *)
Deliver(r) ==
  /\ pc[r] = "computing" /\ thread[r] \in {"result", "error"}
  /\ Goto(r, IF thread[r] = "result" THEN "ok" ELSE "rejected")
  /\ task' = [task EXCEPT ![r] =
       IF thread[r] = "result" /\ r \in identified THEN "queued" ELSE "none"]
  /\ tokens' = tokens \ {Wait(r)}
  /\ UNCHANGED <<identified, thread>>

(* Faulty variant: only a computation that has started can time out.       *)
TimeoutOfRunning(r) ==
  /\ r \in Simulations /\ thread[r] = "result" /\ pc[r] = "computing"
  /\ Goto(r, "timedOut")
  /\ tokens' = tokens \ {Wait(r)}
  /\ UNCHANGED <<identified, thread, task>>

(* Faulty variant: the token is kept until the thread ends.                *)
TimeoutKeepsToken(r) ==
  /\ r \in Simulations /\ pc[r] \in {"waiting", "computing"}
  /\ Goto(r, "timedOut")
  /\ UNCHANGED <<identified, thread, task, tokens>>

(* wait_for gives up, whatever the thread does (503).                      *)
Timeout(r) ==
  /\ r \in Simulations /\ pc[r] \in {"waiting", "computing"}
  /\ Goto(r, "timedOut")
  /\ tokens' = tokens \ {Wait(r)}
  /\ UNCHANGED <<identified, thread, task>>

(* The background task _persist_simulation, after the answer: it swallows  *)
(* every error of the store.                                               *)
StartSave(r) ==
  /\ task[r] = "queued" /\ TokenFree
  /\ task' = [task EXCEPT ![r] = "saving"]
  /\ tokens' = tokens \cup {Task(r)}
  /\ UNCHANGED <<identified, pc, thread>>

EndSave(r) ==
  /\ task[r] = "saving"
  /\ task' = [task EXCEPT ![r] = "saved"] \/ task' = [task EXCEPT ![r] = "lost"]
  /\ tokens' = tokens \ {Task(r)}
  /\ UNCHANGED <<identified, pc, thread>>

(* simulation_history(): a synchronous route, in a pool thread.            *)
StartHistory(r) ==
  /\ r \in Histories /\ pc[r] = "new" /\ TokenFree
  /\ Goto(r, "reading")
  /\ tokens' = tokens \cup {Wait(r)}
  /\ UNCHANGED <<identified, thread, task>>

EndHistory(r) ==
  /\ pc[r] = "reading"
  /\ \/ Goto(r, "ok")
     \/ r \in identified /\ Goto(r, "unavailable")
  /\ tokens' = tokens \ {Wait(r)}
  /\ UNCHANGED <<identified, thread, task>>

Next ==
  \/ \E r \in Simulations :
       \/ Admit(r) \/ StartComputation(r) \/ ComputationEnds(r) \/ Deliver(r)
       \/ Timeout(r) \/ StartSave(r) \/ EndSave(r)
  \/ \E r \in Histories : StartHistory(r) \/ EndHistory(r)

(* The event loop runs its coroutines and its timers, the pool serves its  *)
(* waiters in order, calls of the driver time out.  Nothing is assumed of  *)
(* the duration of a computation.                                          *)
Fairness ==
  /\ \A r \in Simulations :
       /\ WF_vars(Admit(r)) /\ WF_vars(Timeout(r))
       /\ SF_vars(StartSave(r)) /\ WF_vars(EndSave(r))
  /\ \A r \in Histories : SF_vars(StartHistory(r)) /\ WF_vars(EndHistory(r))

Spec == Init /\ [][Next]_vars /\ Fairness
-----------------------------------------------------------------------------
(* The type of the requests, their threads, tasks and tokens.              *)
TypeOK ==
  /\ identified \subseteq Requests
  /\ pc \in [Requests -> {"new", "waiting", "computing", "reading"} \cup Answers]
  /\ thread \in [Simulations -> {"none", "running", "result", "error"}]
  /\ task \in [Simulations -> {"none", "queued", "saving", "saved", "lost"}]
  /\ tokens \subseteq {Wait(r) : r \in Requests} \cup {Task(r) : r \in Simulations}

(* docs/target-architecture.md:258: a computation that ends after the      *)
(* timeout is neither answered nor saved.  A background task exists only   *)
(* for an identified browser that was given this very result.              *)
OnlyAnsweredSimulationsAreSaved ==
  \A r \in Simulations : task[r] # "none" =>
    pc[r] = "ok" /\ thread[r] = "result" /\ r \in identified

Awaiting == {r \in Requests : pc[r] \in {"computing", "reading"}}
Saving   == {r \in Simulations : task[r] = "saving"}
Holders(waits, saves) == {Wait(r) : r \in waits} \cup {Task(r) : r \in saves}

(* A token is held exactly while a coroutine awaits its thread: none leaks *)
(* through timeouts and errors, so the pool never shrinks.                 *)
TokensAreReturned == tokens = Holders(Awaiting, Saving)

(* Every request is answered, even when no computation ever ends: the wait *)
(* for a token counts in the timeout, and abandoned computations do not    *)
(* keep the tokens that histories wait for.                                *)
EveryRequestAnswered == \A r \in Requests : <>(pc[r] \in Answers)

(* A save that was promised is attempted, behind the same hung threads.    *)
EverySaveEnds ==
  \A r \in Simulations : task[r] = "queued" ~> task[r] \in {"saved", "lost"}
=============================================================================
