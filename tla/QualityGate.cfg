SPECIFICATION QSpec
CONSTANTS
  Node <- GateNode
  Needs <- GateNeeds
  Order <- GateOrder
  Depth <- GateOrder
  Aggregate = "aggregate"
  Release = "release-or-container-checks"
  Writes <- MCWrites
  MaxFaults = 2
  Runs <- HookRuns
  Commit = {1, 2, 3, 4, 5}
  Parents <- MCParents
  Paths <- MCPaths
  RemoteHeads = {2}
  Tracked = {1, 4}
  Pushes <- MCPushes
  Staged <- MCStaged
  CiPlans <- MCCiPlans
INVARIANTS
  ProofsAreOfThisRun
  AcceptedChangesAreCovered
  NothingIsLeftBehind
  TheGraphNeverStalls
PROPERTIES
  ImplementsGate
  EveryHookEnds
CHECK_DEADLOCK TRUE
