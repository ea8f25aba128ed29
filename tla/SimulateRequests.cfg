\* Three simulations and a history request compete for two pool threads.
SPECIFICATION Spec
CONSTANTS
  Simulations = {s1, s2, s3}
  Histories = {h1}
  PoolSize = 2
INVARIANTS
  OnlyAnsweredSimulationsAreSaved
  TokensAreReturned
PROPERTIES
  EveryRequestAnswered
  EverySaveEnds
\* Everything stops once the requests are answered.
CHECK_DEADLOCK FALSE
