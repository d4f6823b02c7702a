CONSTANTS
  Components = {server}
  Server = server
  Workers = {w1}
  MaxRaises = 1
SPECIFICATION FairSpec
PROPERTY RequestedShutdownEnds
