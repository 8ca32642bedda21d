SPECIFICATION FairSpec
CONSTANTS
  c1 = c1
  Cmd <- MCCmd
  Start = Start
  GotRetries = 1
  Retries = 1
  ClientRetries = 1
  MaxIp = 2
  MaxFaults = 1
INVARIANTS TypeOK ReadyMeansUrl IpNeverGoesBack NobodyIsForgotten
PROPERTIES ServerGetsReady CommandEnds
