-------------------------- MODULE MCSimulationStore --------------------------
(* Instances of SimulationStore for TLC.                                   *)
EXTENDS SimulationStore, TLC

(* The requests are interchangeable (safety runs only).                    *)
RequestSymmetry == Permutations(Requests)
=============================================================================
