\* Two workers, one client at a limit of two, two outages.
SPECIFICATION LimiterSpec
CONSTANTS
  Workers = {w1, w2}
  Keys = {k1}
  NoKey = NoKey
  Limit = 2
  Interval = 2
  MaxTime = 3
  MaxOutages = 2
  MaxRequests = 5
INVARIANTS
  LimitIsShared
PROPERTIES
  UnthrottledIsLogged
  RecoveryIsTrue
CHECK_DEADLOCK FALSE
