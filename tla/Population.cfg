CONSTANTS
  MaxBuckets = 3
  MaxValue = 5
  MaxSims = 10

SPECIFICATION PopulationSpec
CHECK_DEADLOCK FALSE

INVARIANTS
  DelaysAreReached
  CapacitiesAreDelivered
  RiskScoreIsNearest
  HistogramIsFaithful

PROPERTY CensoringNeverHelps
