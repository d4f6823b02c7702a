CONSTANTS
  Globals <- NoGlobals
  Firsts <- NoKinds
  Lasts <- NoKinds
  MaxHooks = 2
  MaxRetries = 0
  FuncOutcomes <- AnyOutcome
  CallOutcomes <- AnyOutcome
  MaxPages = 2
  CalleeCodes = {200, 404, 503}
SPECIFICATION SpecService
INVARIANT DependencyErrorsAreServerErrors
