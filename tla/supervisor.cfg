SPECIFICATION FairSpec
CONSTANTS
  c1 = c1
  c2 = c2
  c3 = c3
  Pid <- MCPid
  NoChild = NoChild
  RestartWait = 20
  RestartDelay = 1
  MaxTimers = 2
  AnyTime = FALSE
  Faults <- SpawnFails
INVARIANTS TypeOK OneChild StopReachesChildren NeverIdle
PROPERTIES AlwaysRunsAgain
CHECK_DEADLOCK FALSE
