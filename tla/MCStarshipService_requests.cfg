CONSTANTS
  Globals <- NoGlobals
  Firsts <- HandlerOrIssuerKinds
  Lasts <- HandlerOrIssuerKinds
  MaxHooks = 2
  MaxRetries = 2
  FuncOutcomes <- AnyOutcome
  CallOutcomes <- AnyOutcome
  MaxPages = 2
  CalleeCodes = {200, 301, 400, 404, 429, 500, 503, 600}
SPECIFICATION SpecService
INVARIANTS
  PostsMirrorPres
  HandlerAnswers
  CalleeErrorsAreForwarded
  OnlyAuthorizedAreServed
  AnsweredListingIsComplete
  
