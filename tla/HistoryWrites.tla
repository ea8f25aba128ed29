---------------------------- MODULE HistoryWrites ----------------------------
(***************************************************************************)
(* What SimulationStore promises about the documents it writes, without    *)
(* its client, its lock or its retries: an acknowledged save has left at   *)
(* least one document and refreshed `last_seen`, a save leaves at most one *)
(* document per attempt, and nothing is written for a request once it has  *)
(* been answered.  An operation that raised may have written all the same. *)
(***************************************************************************)
EXTENDS Naturals

CONSTANTS Requests, Attempts

VARIABLES saves,      \* the requests that are saves
          status,     \* of each request, as the caller sees it
          copies,     \* documents written for each save
          refreshed   \* saves whose update of last_seen was applied

vars == <<saves, status, copies, refreshed>>

Init ==
  /\ saves \in SUBSET Requests
  /\ status = [r \in Requests |-> "pending"]
  /\ copies = [r \in Requests |-> 0]
  /\ refreshed = {}

Write(r) ==
  /\ r \in saves /\ status[r] = "pending" /\ copies[r] < Attempts
  /\ copies' = [copies EXCEPT ![r] = @ + 1]
  /\ UNCHANGED <<saves, status, refreshed>>

(* last_seen was updated but the caller is not told so.                    *)
RefreshSilently(r) ==
  /\ r \in saves /\ status[r] = "pending" /\ copies[r] > 0
  /\ refreshed' = refreshed \cup {r}
  /\ UNCHANGED <<saves, status, copies>>

Acknowledge(r) ==
  /\ r \in saves /\ status[r] = "pending" /\ copies[r] > 0
  /\ refreshed' = refreshed \cup {r}
  /\ status' = [status EXCEPT ![r] = "answered"]
  /\ UNCHANGED <<saves, copies>>

Answer(r) ==
  /\ r \notin saves /\ status[r] = "pending"
  /\ status' = [status EXCEPT ![r] = "answered"]
  /\ UNCHANGED <<saves, copies, refreshed>>

Fail(r) ==
  /\ status[r] = "pending"
  /\ status' = [status EXCEPT ![r] = "failed"]
  /\ UNCHANGED <<saves, copies, refreshed>>

Next == \E r \in Requests :
  Write(r) \/ RefreshSilently(r) \/ Acknowledge(r) \/ Answer(r) \/ Fail(r)

Spec == Init /\ [][Next]_vars
=============================================================================
