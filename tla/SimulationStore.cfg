\* Two concurrent requests, up to three failures of MongoDB or the network.
SPECIFICATION Spec
CONSTANTS
  Requests = {r1, r2}
  Main = main
  Free = free
  MaxFaults = 3
INVARIANTS
  EveryOpenClientHasOneOwner
  OnlyFaultsBreakRequests
PROPERTIES
  ImplementsHistoryWrites
  EveryRequestEnds
\* The worker stops after Shutdown.
CHECK_DEADLOCK FALSE
