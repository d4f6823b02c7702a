CONSTANTS
  Components = {server, other1, other2}
  Server = server
  Workers = {w1, w2}
  MaxRaises = 4
SPECIFICATION FairSpec
INVARIANTS
  LogsReachALiveLogger
  OnlyEarlyStopKillsRequests
PROPERTIES
  RegistryIsStable
  SigtermWhileServingEnds
  ShutdownTerminates
