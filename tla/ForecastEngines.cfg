CONSTANTS
  WordSize = 16
  StateIncrement = 5
  Mix <- MCMix
  Horizon = 3
  NSims = 5
  MaxBuckets = 3
  Commands <- MCCommands
  BatchSizes = {1, 2, 3, 7}

SPECIFICATION Spec
CHECK_DEADLOCK FALSE

INVARIANTS
  EnginesAgree

PROPERTIES
  BatchImplementsForecast
  SlotImplementsForecast
