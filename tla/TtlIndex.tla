------------------------------ MODULE TtlIndex ------------------------------
(***************************************************************************)
(* SimulationStore._ensure_indexes, run by every worker process each time  *)
(* it connects, on one shared collection.  The image runs two workers, so  *)
(* two repairs of an index left by an older version may interleave; each   *)
(* command to the server is a step.                                        *)
(*                                                                         *)
(* A worker connects in its lifespan, and again on the first request after *)
(* a reset of its client; a worker whose lifespan raised is started again. *)
(***************************************************************************)
EXTENDS Naturals

CONSTANTS
  Workers,    \* the uvicorn processes
  MaxBreaks   \* bound on the failures of MongoDB, the network or a process

ASSUME BreakAssumption == MaxBreaks \in Nat

VARIABLES
  index,    \* last_seen_1: absent, with the options of an old version, right
  at,       \* where each worker is in connect()
  breaks

indexVars == <<index, at, breaks>>

Places == {"disconnected", "createTtl", "drop", "recreate", "ping", "serving"}

IndexInit ==
  /\ index \in {"absent", "legacy", "ttl"}
  /\ at = [w \in Workers |-> "disconnected"]
  /\ breaks = 0

Go(w, label) == at' = [at EXCEPT ![w] = label]

(* connect() builds a client; the compound index has no options to clash.  *)
Connect(w) ==
  /\ at[w] = "disconnected"
  /\ Go(w, "createTtl")
  /\ UNCHANGED <<index, breaks>>

(* Faulty variant: error 85 is swallowed instead of repaired.              *)
CreateTtlLenient(w) ==
  /\ at[w] = "createTtl"
  /\ index' = IF index = "absent" THEN "ttl" ELSE index
  /\ Go(w, "ping")
  /\ UNCHANGED breaks

(* create_index with the 30 days: creates, finds its like, or raises       *)
(* OperationFailure 85 because the options differ.                         *)
CreateTtl(w) ==
  /\ at[w] = "createTtl"
  /\ index' = IF index = "absent" THEN "ttl" ELSE index
  /\ Go(w, IF index = "legacy" THEN "drop" ELSE "ping")
  /\ UNCHANGED breaks

(* drop_index removes whatever index has the name by now.                  *)
DropIndex(w) ==
  /\ at[w] = "drop" /\ index # "absent"
  /\ index' = "absent"
  /\ Go(w, "recreate")
  /\ UNCHANGED breaks

(* IndexNotFound: another worker has dropped it.  connect() closes the     *)
(* client and raises.                                                      *)
DropNothing(w) ==
  /\ at[w] = "drop" /\ index = "absent"
  /\ Go(w, "disconnected")
  /\ UNCHANGED <<index, breaks>>

(* Faulty variant: the index is not created again.                         *)
RecreateForgotten(w) ==
  /\ at[w] = "recreate"
  /\ Go(w, "ping")
  /\ UNCHANGED <<index, breaks>>

Recreate(w) ==
  /\ at[w] = "recreate"
  /\ index' = "ttl"
  /\ Go(w, "ping")
  /\ UNCHANGED breaks

Ping(w) ==
  /\ at[w] = "ping"
  /\ Go(w, "serving")
  /\ UNCHANGED <<index, breaks>>

(* The process dies, or a command raises, before or after it took effect;  *)
(* a failure while serving resets the client.                              *)
Break(w) ==
  /\ at[w] # "disconnected"
  /\ breaks < MaxBreaks /\ breaks' = breaks + 1
  /\ Go(w, "disconnected")
  /\ \/ UNCHANGED index
     \/ at[w] = "createTtl" /\ index = "absent" /\ index' = "ttl"
     \/ at[w] = "drop" /\ index' = "absent"
     \/ at[w] = "recreate" /\ index' = "ttl"

ConnectStep(w) == \/ Connect(w) \/ CreateTtl(w) \/ DropIndex(w) \/ DropNothing(w)
           \/ Recreate(w) \/ Ping(w)

IndexNext == \E w \in Workers : ConnectStep(w) \/ Break(w)

(* Commands end, containers and workers are restarted, requests arrive.    *)
IndexFairness == \A w \in Workers : WF_indexVars(ConnectStep(w))

IndexSpec == IndexInit /\ [][IndexNext]_indexVars /\ IndexFairness
-----------------------------------------------------------------------------
(* The type of the index and of the workers.                               *)
IndexTypeOK ==
  /\ index \in {"absent", "legacy", "ttl"}
  /\ at \in [Workers -> Places]
  /\ breaks \in 0..MaxBreaks

(* A worker that has passed its repair never serves beside the index of an *)
(* older version: no interleaving of repairs and failures brings it back.  *)
NoLegacyIndexWhenServing ==
  (\E w \in Workers : at[w] \in {"recreate", "ping", "serving"}) => index # "legacy"

(* Without a failure of the environment, documents expire while a worker   *)
(* serves, except while another worker is between its two commands; the    *)
(* late repair of one worker may drop the index the other has just made.   *)
IndexMissingOnlyDuringRepair ==
  breaks = 0 /\ (\E w \in Workers : at[w] = "serving")
    => index = "ttl" \/ \E w \in Workers : at[w] = "recreate"

(* In the end every worker serves and the index is right: a repair that is *)
(* cut between its two commands is finished by the next connection.        *)
RepairSettles == <>[](index = "ttl" /\ \A w \in Workers : at[w] = "serving")
=============================================================================
