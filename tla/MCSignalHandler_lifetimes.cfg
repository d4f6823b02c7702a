CONSTANTS
  Handlers = {h1, h2, h3}
  MaxRaises = 3
SPECIFICATION FairSpec
CHECK_DEADLOCK FALSE
INVARIANT NoCallbackAfterDestruction
PROPERTIES
  CallsOnlyWhenSignalled
  QuietSignalIsAnswered
