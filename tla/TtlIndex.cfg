\* The two workers of the image and a third, as during a rolling restart.
SPECIFICATION IndexSpec
CONSTANTS
  Workers = {w1, w2, w3}
  MaxBreaks = 3
INVARIANTS
  IndexMissingOnlyDuringRepair
PROPERTIES
  RepairSettles
CHECK_DEADLOCK FALSE
