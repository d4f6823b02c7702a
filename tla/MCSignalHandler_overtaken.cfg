CONSTANTS
  Handlers = {h1}
  MaxRaises = 2
SPECIFICATION FairSpec
CHECK_DEADLOCK FALSE
PROPERTY EverySignalIsAnswered
