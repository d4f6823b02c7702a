CONSTANTS
  MaxRetryCount = 3
  Interval = 2
  Base = 2
  Jitter = 1
  RetryCodes = {"retryable", "invalid"}
  Outcomes = {"ok", "retryable", "error", "invalid", "exception"}
  MaxDuration = 3
  MaxDelay = 1
  ClockSteps <- SetEitherWay
SPECIFICATION FairSpec
INVARIANTS
  RetriesAreOnSchedule
  GivesUpOnlyAfterAll
PROPERTY RequestEnds
