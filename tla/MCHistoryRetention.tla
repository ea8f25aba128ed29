------------------------- MODULE MCHistoryRetention -------------------------
(* Instances of HistoryRetention for TLC.                                  *)
EXTENDS HistoryRetention
=============================================================================
