--------------------------- MODULE RequestPipeline ---------------------------
(***************************************************************************)
(* One incoming request on its way through the hooks of a RequestHandler,  *)
(* and the request its function issues through the hooks of a              *)
(* RequestIssuer.  RequestProcessor::Process nests the hooks: the request  *)
(* goes down through their pre_process, and its outcome, a status or an    *)
(* exception, comes up through their post_process.                         *)
(*                                                                         *)
(* Kinds of hooks: "logging"; "token", "claim" and "breaker", whose         *)
(* pre_process may refuse the request and whose post_process changes no    *)
(* status; "forwarding" (ErrorForwarding of all error codes, or of all but *)
(* not_found); "retry"; "caching"; "exceptions" (ExceptionHandling with    *)
(* its default mappers); and "recovery", a hook of the user that turns     *)
(* exceptions into a status.                                               *)
(***************************************************************************)
EXTENDS Naturals, Sequences, SequencesExt

CONSTANTS Globals,       \* Globals[l]: hooks added by GloballyWith, in order
          Firsts,        \* Firsts[l]: kinds that a request adds by BeginWith
          Lasts,         \* Lasts[l]: kinds that a request adds by With
          MaxHooks,      \* bound: hooks a request adds to
          MaxRetries,    \* retries of a Retry hook
          FuncOutcomes,  \* how the function of the incoming request may end
          CallOutcomes   \* how the function of the issued request may end

Levels == {"handler", "issuer"}
Guards == {"token", "claim", "breaker"}
Forwarding == {"forwarding", "forwarding_except_not_found"}
\* These implement Process themselves, and have neither pre_ nor post_process.
Overriding == {"exceptions", "caching"}
Kinds == Guards \cup Forwarding \cup Overriding \cup {"logging", "retry", "recovery"}

\* DefaultStatusCodeToHttpStatusCodeLookupTable
ToHttpStatusCode ==
  [ok |-> 200, cancelled |-> 499, unknown |-> 500, invalid_argument |-> 400,
   deadline_exceeded |-> 504, not_found |-> 404, already_exists |-> 409,
   permission_denied |-> 403, resource_exhausted |-> 429, failed_precondition |-> 400,
   aborted |-> 409, out_of_range |-> 400, unimplemented |-> 501, internal |-> 500,
   unavailable |-> 503, data_loss |-> 500, unauthenticated |-> 401]
Codes == DOMAIN ToHttpStatusCode \cup {"invalid"}
AllErrorCodes == Codes \ {"ok", "invalid"}
Retried == {"unavailable", "resource_exhausted", "internal", "unknown"}
Cached == {"ok", "not_found"}
Exceptions == {"invalid_argument", "out_of_range", "forwarded", "other", "foreign"}

\* An outcome is a status with its code, or an exception with its type;
\* "foreign" is not derived from std::exception.
Status(code) == [thrown |-> FALSE, what |-> code]
Thrown(type) == [thrown |-> TRUE, what |-> type]
Outcomes == {Status(c) : c \in Codes} \cup {Thrown(t) : t \in Exceptions}

ASSUME HooksAssumption ==
  /\ Globals \in [Levels -> Seq(Kinds)]
  /\ Firsts \in [Levels -> SUBSET Kinds] /\ Lasts \in [Levels -> SUBSET Kinds]
ASSUME OutcomesAssumption == FuncOutcomes \subseteq Outcomes /\ CallOutcomes \subseteq Outcomes

VARIABLES level,    \* the processor that is active
          stage,    \* what it does
          hooks,    \* hooks[l]: _hooks of each processor
          at,       \* at[l]: the hook that is reached
          outcome,  \* what comes up from inside
          retries,  \* retries[l]: _retry_counter of its Retry hook
          pending,  \* pending[l]: hooks whose pre_process succeeded, without
                    \* those that were left again in their turn (history)
          ends      \* ends[l]: how the function of each ended (history)

vars == <<level, stage, hooks, at, outcome, retries, pending, ends>>

-----------------------------------------------------------------------------
TypeOK == /\ level \in Levels
          /\ stage \in {"compose", "down", "up", "done"}
          /\ hooks \in [Levels -> Seq(Kinds)]
          /\ at \in [Levels -> Nat]
          /\ outcome \in Outcomes /\ ends \in [Levels -> Outcomes]
          /\ retries \in [Levels -> Nat] /\ pending \in [Levels -> Seq(Nat)]

Innermost(l) == at[l] > Len(hooks[l])
Hook == hooks[level][at[level]]

\* Messages name the status code: to_string throws for StatusCode::invalid.
Unnamed == Thrown("invalid_argument")
Named(o) == IF o = Status("invalid") THEN Unnamed ELSE o

\* post_process: most hooks return the status they get, StatusCode::invalid
\* standing for an exception.
ForwardedCodes(kind) == CASE kind = "forwarding" -> AllErrorCodes
                          [] kind = "forwarding_except_not_found" -> AllErrorCodes \ {"not_found"}
                          [] OTHER -> {}
ForwardingPost(kind, code) ==
  IF code \in ForwardedCodes(kind) THEN Thrown("forwarded") ELSE Status(code)
LoggingPost(code) == Named(Status(code))
RecoveryPost(code) == Status(IF code = "invalid" THEN "internal" ELSE code)
PostProcess(kind, code) == CASE kind = "logging" -> LoggingPost(code)
                             [] kind \in Forwarding -> ForwardingPost(kind, code)
                             [] kind = "recovery" -> RecoveryPost(code)
                             [] OTHER -> Status(code)

\* The status with which a guard refuses
Refusal(kind) == Status(CASE kind = "token" -> "unauthenticated"
                          [] kind = "claim" -> "permission_denied"
                          [] kind = "breaker" -> "unavailable")

\* Mutant: the mapper for any exception comes first.
ConstantMappedFirst(type) == "internal"

\* The first of the default mappers that maps the exception
MappedCode(type) == CASE type = "forwarded" -> "unavailable"
                      [] type = "invalid_argument" -> "invalid_argument"
                      [] type = "out_of_range" -> "out_of_range"
                      [] OTHER -> "internal"

Down(l, i) == stage' = "down" /\ at' = [at EXCEPT ![l] = i]
Up(l, i, o) == stage' = "up" /\ at' = [at EXCEPT ![l] = i] /\ outcome' = o

-----------------------------------------------------------------------------
\* At most one Retry hook for a processor: a bound of the model.
MayAdd(kind) == /\ stage = "compose" /\ Len(hooks[level]) < MaxHooks
                /\ kind = "retry" => "retry" \notin ToSet(hooks[level])

Begins(composed) ==
  /\ level = "handler" /\ stage = "compose"
  /\ hooks = composed
  /\ at = [l \in Levels |-> 0]
  /\ outcome = Status("ok") /\ ends = [l \in Levels |-> Status("ok")]
  /\ retries = [l \in Levels |-> 0] /\ pending = [l \in Levels |-> << >>]

Init == Begins(Globals)

With(kind) == /\ MayAdd(kind)
              /\ hooks' = [hooks EXCEPT ![level] = Append(@, kind)]
              /\ UNCHANGED <<level, stage, at, outcome, retries, pending, ends>>

BeginWith(kind) == /\ MayAdd(kind)
                   /\ hooks' = [hooks EXCEPT ![level] = <<kind>> \o @]
                   /\ UNCHANGED <<level, stage, at, outcome, retries, pending, ends>>

\* RequestProcessor::Process
Process == /\ stage = "compose"
           /\ Down(level, 1)
           /\ UNCHANGED <<level, hooks, outcome, retries, pending, ends>>

\* pre_process succeeds, or Process is overridden and calls what is inside.
PreProcess == /\ stage = "down" /\ ~Innermost(level)
              /\ Down(level, at[level] + 1)
              /\ pending' = IF Hook \in Overriding THEN pending
                            ELSE [pending EXCEPT ![level] = Append(@, at[level])]
              /\ retries' = IF Hook = "retry" THEN [retries EXCEPT ![level] = 0] ELSE retries
              /\ UNCHANGED <<level, hooks, outcome, ends>>

\* What is inside is not called, nor is post_process.
Return(o) == /\ Up(level, at[level] - 1, o)
             /\ ends' = [ends EXCEPT ![level] = o]
             /\ UNCHANGED <<level, hooks, retries, pending>>

\* pre_process of a guard fails.
Refuse == /\ stage = "down" /\ ~Innermost(level) /\ Hook \in Guards
          /\ Return(Refusal(Hook))

\* The answer is found in the cache.
CacheHit(code) == /\ stage = "down" /\ ~Innermost(level) /\ Hook = "caching"
                  /\ Return(Status(code))

\* The function of the incoming request ends without issuing a request ...
FuncEnds(o) == stage = "down" /\ level = "handler" /\ Innermost(level) /\ Return(o)

\* ... or constructs a RequestIssuer.
Issue == /\ stage = "down" /\ level = "handler" /\ Innermost(level)
         /\ level' = "issuer" /\ stage' = "compose"
         /\ UNCHANGED <<hooks, at, outcome, retries, pending, ends>>

\* The function of the issued request ends: the callee answered or did not.
CallEnds(o) == stage = "down" /\ level = "issuer" /\ Innermost(level) /\ Return(o)

-----------------------------------------------------------------------------
\* RequestHook::Process after the call of what is inside the hook.
Ascends == stage = "up" /\ at[level] > 0
Left ==
  pending' = [pending EXCEPT ![level] =
                IF @ # << >> /\ Last(@) = at[level] THEN Front(@) ELSE @]
Code == IF outcome.thrown THEN "invalid" ELSE outcome.what

\* The Retry hook's post_process calls Process of its base class once more.
Retries == Hook = "retry" /\ Code \in Retried /\ retries[level] < MaxRetries
RetryRequest == /\ Ascends /\ Retries
                /\ Down(level, at[level] + 1)
                /\ retries' = [retries EXCEPT ![level] = @ + 1]
                /\ UNCHANGED <<level, hooks, outcome, pending, ends>>

PostAfterStatus == /\ Ascends /\ Hook \notin Overriding /\ ~Retries
                   /\ ~outcome.thrown /\ outcome.what # "invalid"
                   /\ Up(level, at[level] - 1, Named(PostProcess(Hook, outcome.what)))
                   /\ Left
                   /\ UNCHANGED <<level, hooks, retries, ends>>

\* The trace message about the failed status throws before post_process: the
\* hook is left without it.
NoPostAfterInvalid == /\ Ascends /\ Hook \notin Overriding
                      /\ outcome = Status("invalid")
                      /\ Up(level, at[level] - 1, Unnamed)
                      /\ Left
                      /\ UNCHANGED <<level, hooks, retries, ends>>

\* Mutant: only exceptions derived from std::exception are caught.
PostAfterStdException ==
  /\ Ascends /\ Hook \notin Overriding
  /\ outcome.thrown
  /\ LET o == PostProcess(Hook, "invalid")
     IN Up(level, at[level] - 1,
           IF o = Status("invalid") \/ outcome.what = "foreign" THEN outcome ELSE o)
  /\ IF outcome.what = "foreign" THEN UNCHANGED pending ELSE Left
  /\ UNCHANGED <<level, hooks, retries, ends>>

\* post_process gets StatusCode::invalid; if it returns that, the exception is
\* rethrown, otherwise it is replaced by what post_process returns or throws.
PostAfterException == /\ Ascends /\ Hook \notin Overriding
                      /\ outcome.thrown
                      /\ LET o == PostProcess(Hook, "invalid")
                         IN Up(level, at[level] - 1,
                               IF o = Status("invalid") THEN outcome ELSE o)
                      /\ Left
                      /\ UNCHANGED <<level, hooks, retries, ends>>

\* Mutant: there is no mapper for any exception.
HandleNoOtherException ==
  /\ Ascends /\ Hook = "exceptions"
  /\ Up(level, at[level] - 1,
        IF outcome.thrown /\ outcome.what \in {"forwarded", "invalid_argument", "out_of_range"}
        THEN Status(MappedCode(outcome.what)) ELSE outcome)
  /\ UNCHANGED <<level, hooks, retries, pending, ends>>

\* ExceptionHandlingRequestHook::Process
HandleException == /\ Ascends /\ Hook = "exceptions"
                   /\ Up(level, at[level] - 1,
                         IF outcome.thrown THEN Status(MappedCode(outcome.what)) ELSE outcome)
                   /\ UNCHANGED <<level, hooks, retries, pending, ends>>

\* CachingRequestHook::Process; what it inserts is left to StarshipService.
CacheMissed == /\ Ascends /\ Hook = "caching"
               /\ Up(level, at[level] - 1, outcome)
               /\ UNCHANGED <<level, hooks, retries, pending, ends>>

\* An exception of the issued request passes through the function, and so does
\* an error through GetStarShip, whose empty result throws out_of_range.
\* ListStarShips does not look at the status.
AfterCall(o) == IF o.thrown \/ o = Status("ok") THEN {o}
                ELSE {Status("ok"), Thrown("out_of_range")}

CallOver == /\ stage = "up" /\ level = "issuer" /\ at[level] = 0
            /\ level' = "handler"
            /\ outcome' \in AfterCall(outcome)
            /\ at' = [at EXCEPT !["handler"] = @ - 1]
            /\ ends' = [ends EXCEPT !["handler"] = outcome']
            /\ UNCHANGED <<stage, hooks, retries, pending>>

RequestOver == /\ stage = "up" /\ level = "handler" /\ at[level] = 0
               /\ stage' = "done"
               /\ UNCHANGED <<level, hooks, at, outcome, retries, pending, ends>>

Done == stage = "done" /\ UNCHANGED vars

Next == \/ \E kind \in Lasts[level] : With(kind)
        \/ \E kind \in Firsts[level] : BeginWith(kind)
        \/ Process
        \/ PreProcess \/ Refuse \/ \E code \in Cached : CacheHit(code)
        \/ \E o \in FuncOutcomes : FuncEnds(o)
        \/ Issue
        \/ \E o \in CallOutcomes : CallEnds(o)
        \/ RetryRequest
        \/ PostAfterStatus \/ NoPostAfterInvalid \/ PostAfterException
        \/ HandleException \/ CacheMissed
        \/ CallOver \/ RequestOver \/ Done

Spec == Init /\ [][Next]_vars

-----------------------------------------------------------------------------
\* The hooks are nested: when a processor is left, whether with a status or an
\* exception, every hook whose pre_process succeeded has been left, once for
\* each attempt and in reverse order; its post_process was called, unless the
\* function returned StatusCode::invalid (NoPostAfterInvalid).
PostsMirrorPres == stage = "up" /\ at[level] = 0 => pending[level] = << >>

\* With an ExceptionHandling hook that no ErrorForwarding hook is outside of, a
\* handler answers every request with a status, wherever the exception comes
\* from, unless the function itself returns StatusCode::invalid.
HandlesAt(e) ==
  /\ e \in DOMAIN hooks["handler"] /\ hooks["handler"][e] = "exceptions"
  /\ \A i \in 1 .. e - 1 : hooks["handler"][i] \notin Forwarding
HandlesExceptions == \E e \in DOMAIN hooks["handler"] : HandlesAt(e)
HandlerAnswers ==
  stage = "done" /\ HandlesExceptions /\ ends["handler"] # Status("invalid")
    => ~outcome.thrown /\ outcome.what # "invalid"

\* The HTTP status of the response; httplib answers exceptions with 500.
Response == IF outcome.thrown \/ outcome.what = "invalid" THEN 500 ELSE ToHttpStatusCode[outcome.what]

\* ErrorForwarding is the first hook of the issuer, and its only one of that
\* kind; the handler has an ExceptionHandling hook, as ErrorForwarding demands,
\* with guards and caches at most inside of it (as in the example), and outside
\* of it no hook that calls the function again or throws for its status.
ForwardedAt(e) ==
  /\ HandlesAt(e)
  /\ \A i \in 1 .. e - 1 : hooks["handler"][i] # "retry"
  /\ \A i \in e + 1 .. Len(hooks["handler"]) : hooks["handler"][i] \in Guards \cup {"caching"}
ForwardsOnce ==
  /\ Len(hooks["issuer"]) > 0 /\ hooks["issuer"][1] \in Forwarding
  /\ \A i \in 2 .. Len(hooks["issuer"]) : hooks["issuer"][i] \notin Forwarding
ForwardsErrors == ForwardsOnce /\ \E e \in DOMAIN hooks["handler"] : ForwardedAt(e)

\* Then an error status of a callee, if retries do not overcome it, reaches the
\* caller as "unavailable".
CalleeErrorsAreForwarded ==
  stage = "done" /\ ForwardsErrors /\ ~ends["issuer"].thrown
    /\ ends["issuer"].what \in ForwardedCodes(hooks["issuer"][1])
    => Response = 503

\* Then an error retrieved from a depending service is not presented to the
\* caller as an error of the caller.
DependencyErrorsAreServerErrors ==
  stage = "done" /\ ForwardsErrors
    /\ (ends["issuer"].thrown \/ ends["issuer"].what \in ForwardedCodes(hooks["issuer"][1]))
    => Response \in 500 .. 599
=============================================================================
