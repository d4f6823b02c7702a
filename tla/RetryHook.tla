------------------------------ MODULE RetryHook ------------------------------
(***************************************************************************)
(* RetryRequestHook with a LinearRetryBackoff or ExponentialRetryBackoff   *)
(* strategy, with or without BackoffGaussianJitterDecorator, for one       *)
(* request.  post_process waits and calls RequestHook::Process again, so   *)
(* the attempts nest: each failed attempt leaves a frame that hands the    *)
(* outcome of the last attempt outwards.                                   *)
(*                                                                         *)
(* Time is counted in ticks.  The hook reads the system clock, which may   *)
(* be set forwards or backwards while a request is being processed.        *)
(***************************************************************************)
EXTENDS Integers, FiniteSetsExt

CONSTANTS MaxRetryCount,  \* _max_retry_count of the strategy
          Interval,       \* _retry_interval or _first_retry_interval
          Base,           \* _base of the exponential strategy
          Jitter,         \* bound on what the decorator adds or takes away
          RetryCodes,     \* retry_error_codes
          Outcomes,       \* how func may end: status codes and "exception"
          MaxDuration,    \* bound: the longest an attempt takes
          MaxDelay,       \* bound: how late sleep_for may wake up
          ClockSteps      \* by how much the system clock may be set at a time

ASSUME CountsAssumption == MaxRetryCount \in Nat /\ Interval \in Nat /\ Base \in Nat
ASSUME BoundsAssumption == Jitter \in Nat /\ MaxDuration \in Nat /\ MaxDelay \in Nat
ASSUME ClockAssumption == ClockSteps \subseteq Int
ASSUME CodesAssumption == "exception" \notin RetryCodes  \* it is no status code

VARIABLES strategy,  \* "linear" or "exponential"
          pc,        \* where the thread is in the innermost Process
          retries,   \* _retry_counter
          now,       \* time since Process was called
          clock,     \* what the system clock shows beyond now, since the call
          started,   \* when the last attempt began (history)
          ended,     \* when the last attempt ended (history)
          calls,     \* how often func was called (history)
          status     \* outcome of the last attempt, handed outwards

vars == <<strategy, pc, retries, now, clock, started, ended, calls, status>>

-----------------------------------------------------------------------------
\* Mutants: slips the properties must catch.
RefusesLast(count) == count >= MaxRetryCount

LinearTotal(count) == Interval * count

\* for (i = 0; i < retry_count; ++i) total += first * base^i
ExponentialTotal(count) == MapThenSumSet(LAMBDA i : Interval * Base^i, 0 .. count - 1)

\* max_total_request_duration: when retry number count is due
Due(count) == IF strategy = "linear" THEN LinearTotal(count) ELSE ExponentialTotal(count)

\* Mutant: the time that has passed already is not subtracted.
WaitInFull(count, elapsed) == IF elapsed > Due(count) THEN 0 ELSE Due(count)

\* getDurationUntilNextRetry: no value, or the time to wait
Refuses(count) == count > MaxRetryCount
Wait(count, elapsed) == IF elapsed > Due(count) THEN 0 ELSE Due(count) - elapsed

\* BackoffGaussianJitterDecorator; sleep_for does not sleep a negative time
Jittered(wait, jitter) == wait + jitter
Slept(wait) == IF wait < 0 THEN 0 ELSE wait

-----------------------------------------------------------------------------
Init == /\ strategy \in {"linear", "exponential"}
        /\ pc = "func"
        /\ retries = 0
        /\ now = 0 /\ clock = 0
        /\ started = 0 /\ ended = 0
        /\ calls = 1
        /\ status = "ok"

\* The attempt ends: func returns a status code or throws.
Attempt(outcome, duration) ==
  /\ pc = "func"
  /\ now' = now + duration
  /\ ended' = now + duration
  /\ status' = IF outcome = "invalid" THEN "exception" ELSE outcome
  /\ pc' = IF outcome = "invalid" THEN "over" ELSE "post"
  /\ UNCHANGED <<strategy, retries, clock, started, calls>>

\* post_process gets "invalid" for an exception; other codes as they are.
CodeSeen == IF status = "exception" THEN "invalid" ELSE status

\* The code is not in retry_error_codes: the attempt's outcome is final.
Accept == /\ pc = "post"
          /\ CodeSeen \notin RetryCodes
          /\ pc' = "over"
          /\ UNCHANGED <<strategy, retries, now, clock, started, ended, calls, status>>

\* The code calls for a retry, but the trace message about it cannot name it.
TraceThrows == /\ pc = "post"
               /\ CodeSeen \in RetryCodes /\ CodeSeen = "invalid"
               /\ retries' = retries + 1
               /\ pc' = "over"
               /\ UNCHANGED <<strategy, now, clock, started, ended, calls, status>>

RetryRequested == pc = "post" /\ CodeSeen \in RetryCodes \ {"invalid"}

GiveUp == /\ RetryRequested
          /\ retries' = retries + 1
          /\ Refuses(retries')
          /\ pc' = "over"
          /\ UNCHANGED <<strategy, now, clock, started, ended, calls, status>>

\* Mutant: the counter is not incremented.
RetryWithoutCount(jitter, delay) ==
  /\ RetryRequested
  /\ ~Refuses(retries + 1)
  /\ now' = now + delay
  /\ started' = now'
  /\ calls' = calls
  /\ pc' = "func"
  /\ UNCHANGED <<strategy, retries, clock, ended, status>>

\* Wait until the next retry is due, then call Process with func again.
Retry(jitter, delay) ==
  /\ RetryRequested
  /\ retries' = retries + 1
  /\ ~Refuses(retries')
  /\ now' = now + Slept(Jittered(Wait(retries', now + clock), jitter)) + delay
  /\ started' = now'
  /\ calls' = calls + 1
  /\ pc' = "func"
  /\ UNCHANGED <<strategy, clock, ended, status>>

\* Environment: the system clock is set, at most once per request.
SetClock(step) == /\ clock = 0 /\ pc # "over"
                  /\ clock' = step
                  /\ UNCHANGED <<strategy, pc, retries, now, started, ended, calls, status>>

Over == pc = "over" /\ UNCHANGED vars

Hook == \/ \E outcome \in Outcomes, duration \in 0 .. MaxDuration : Attempt(outcome, duration)
        \/ Accept
        \/ TraceThrows
        \/ GiveUp
        \/ \E jitter \in -Jitter .. Jitter, delay \in 0 .. MaxDelay : Retry(jitter, delay)

Next == Hook \/ (\E step \in ClockSteps : SetClock(step)) \/ Over

Spec == Init /\ [][Next]_vars

\* The request is processed as long as func ends and sleep_for wakes up.
FairSpec == Spec /\ WF_vars(Hook)

-----------------------------------------------------------------------------
\* Reference: the sum of a geometric series, without a loop.
GeometricSum(count) == IF Base = 1 THEN Interval * count
                       ELSE Interval * ((Base^count - 1) \div (Base - 1))
ReferenceDue(count) == IF strategy = "linear" THEN Interval * count ELSE GeometricSum(count)

\* The loop of the exponential strategy adds up what the closed form says, for
\* every retry that is made.
SumIsGeometric == \A n \in 1 .. MaxRetryCount :
  ExponentialTotal(n) \in Int /\ ExponentialTotal(n) = GeometricSum(n)

\* Retry number n starts when it is due, counted from the begin of the whole
\* request: not earlier than the jitter allows, and, if the attempt before it
\* was over by then, not later than jitter and the late wake-up allow.  Neither
\* slow attempts nor jitter shift the attempts that follow.  (The times are those
\* of the system clock, so this is about requests during which it is not set.)
RetriesAreOnSchedule ==
  pc = "func" /\ calls > 1 /\ clock = 0 =>
    LET due == ReferenceDue(calls - 1)
    IN /\ started >= due - Jitter
       /\ started <= (IF ended > due THEN ended ELSE due) + Jitter + MaxDelay

\* A request ends with a code that calls for a retry only after all retries
\* were made, and never makes more of them.
GivesUpOnlyAfterAll ==
  /\ calls <= MaxRetryCount + 1
  /\ pc = "over" /\ status \in RetryCodes => calls = MaxRetryCount + 1

\* Every request comes to an end.
RequestEnds == <>(pc = "over")
=============================================================================
