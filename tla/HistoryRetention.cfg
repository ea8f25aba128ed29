\* Two saves of two browsers, the TTL monitor and the purge script.
SPECIFICATION Spec
CONSTANTS
  Clients = {c1, c2}
  Saves = {s1, s2}
  Ttl = 2
  Retention = 1
  MaxLag = 1
  MaxTime = 4
  MaxFaults = 1
INVARIANTS
  AcknowledgedSaveRefreshesHistory
PROPERTIES
  ExpirySparesActiveBrowsers
  PurgeSelectsInactiveBrowsers
  IdleHistoryDisappears
\* Everything stops at MaxTime.
CHECK_DEADLOCK FALSE
