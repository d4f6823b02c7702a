--------------------------- MODULE CircuitBreaker ---------------------------
(***************************************************************************)
(* CircuitBreakerRequestHook with its one strategy,                        *)
(* MaxPendingRquestsExceededCircuitBreakerStrategy: every thread that      *)
(* issues a request runs RequestHook::Process with the hook's pre_process  *)
(* and post_process, all of them share one strategy object.  The strategy  *)
(* counts in pre_process and decides in GetStatus, each under a lock of    *)
(* its own, so that the calls of other threads fall in between.            *)
(***************************************************************************)
EXTENDS Integers, FiniteSets

CONSTANTS Threads,         \* threads that issue requests
          Names,           \* values of the context's "request" entry
          MaxPending,      \* _max_pending_request_count
          CounterModulus   \* 2^32: _pending_request_count is a uint32_t

\* How the wrapped function may end
Outcomes == {"ok", "error", "exception", "invalid"}

ASSUME ThreadsAssumption == IsFiniteSet(Threads)
ASSUME NamesAssumption == IsFiniteSet(Names)
ASSUME LimitAssumption == MaxPending \in Nat
ASSUME WidthAssumption == /\ CounterModulus \in Nat
                          /\ MaxPending + Cardinality(Threads) < CounterModulus

VARIABLES pc,       \* where each thread is in Process
          key,      \* key[t]: the "request" entry of the context of t's call
          pending,  \* _request_data[n]._pending_request_count, 0 if no entry
          lost,     \* lost[n]: calls that ended without post_process, counted
                    \* like pending[n] (history)
          renamed   \* has a function changed the "request" entry of the
                    \* context it was called with? (history)

vars == <<pc, key, pending, lost, renamed>>

-----------------------------------------------------------------------------
Locations == {"idle",     \* between two calls
              "arrived",  \* Process entered, not counted yet
              "counted",  \* counted, GetStatus not called yet
              "open",     \* GetStatus said OPEN, still counted
              "func",     \* inside the wrapped function
              "post"}     \* function over, post_process still to come

TypeOK == /\ pc \in [Threads -> Locations]
          /\ key \in [Threads -> Names]
          /\ pending \in [Names -> 0 .. CounterModulus - 1]
          /\ lost \in [Names -> 0 .. CounterModulus - 1]
          /\ renamed \in BOOLEAN

\* Mutants: plausible slips in the code that the properties below must catch.
DecrementedUnbounded(x) == x - 1
OpenTooLate(n) == pending[n] > MaxPending + 1
OpenTooEarly(n) == pending[n] >= MaxPending

\* uint32_t arithmetic
Incremented(x) == IF x = CounterModulus - 1 THEN 0 ELSE x + 1
Decremented(x) == IF x = 0 THEN CounterModulus - 1 ELSE x - 1

At(t, from, to) == pc[t] = from /\ pc' = [pc EXCEPT ![t] = to]

\* MaxPendingRquestsExceededCircuitBreakerStrategy::GetStatus
IsOpen(n) == pending[n] > MaxPending

Release(t) == pending' = [pending EXCEPT ![key[t]] = Decremented(@)]

\* Mutants, as above
CountUpToLimit(t) == /\ At(t, "arrived", "counted")
                     /\ pending' = IF IsOpen(key[t]) THEN pending
                                   ELSE [pending EXCEPT ![key[t]] = Incremented(@)]
                     /\ UNCHANGED <<key, lost, renamed>>
RejectWithoutPost(t) == /\ At(t, "open", "idle")
                        /\ UNCHANGED <<key, pending, lost, renamed>>
UncountBelowLimit(t) == /\ At(t, "post", "idle")
                        /\ IF pending[key[t]] < MaxPending THEN Release(t)
                           ELSE UNCHANGED pending
                        /\ UNCHANGED <<key, lost, renamed>>

-----------------------------------------------------------------------------
Init == /\ pc = [t \in Threads |-> "idle"]
        /\ key \in [Threads -> Names]
        /\ pending = [n \in Names |-> 0]
        /\ lost = [n \in Names |-> 0]
        /\ renamed = FALSE

\* Process is entered with a context whose "request" entry is n.
Arrive(t, n) == /\ At(t, "idle", "arrived")
                /\ key' = [key EXCEPT ![t] = n]
                /\ UNCHANGED <<pending, lost, renamed>>

\* strategy->pre_process, under the unique lock
Count(t) == /\ At(t, "arrived", "counted")
            /\ pending' = [pending EXCEPT ![key[t]] = Incremented(@)]
            /\ UNCHANGED <<key, lost, renamed>>

\* GetStatus, under the shared lock, answers CLOSED: the function is called
CheckClosed(t) == /\ ~IsOpen(key[t])
                  /\ At(t, "counted", "func")
                  /\ UNCHANGED <<key, pending, lost, renamed>>

CheckOpen(t) == /\ IsOpen(key[t])
                /\ At(t, "counted", "open")
                /\ UNCHANGED <<key, pending, lost, renamed>>

\* strategy->post_process in the OPEN branch; Process returns errorStatus
Reject(t) == /\ At(t, "open", "idle")
             /\ Release(t)
             /\ UNCHANGED <<key, lost, renamed>>

\* The function returns a status or throws; post_process comes next.  By then
\* the context's "request" entry, which functions may change, is n.
FuncEnds(t, outcome, n) == /\ outcome # "invalid"
                           /\ At(t, "func", "post")
                           /\ key' = [key EXCEPT ![t] = n]
                           /\ renamed' = (renamed \/ n # key[t])
                           /\ UNCHANGED <<pending, lost>>

\* The function returns StatusCode::invalid: the trace message calls
\* to_string, which throws, and Process is left without post_process.
FuncEndsInvalid(t, outcome) == /\ outcome = "invalid"
                               /\ At(t, "func", "idle")
                               /\ lost' = [lost EXCEPT ![key[t]] = Incremented(@)]
                               /\ UNCHANGED <<key, pending, renamed>>

\* strategy->post_process, then Process returns or rethrows
Uncount(t) == /\ At(t, "post", "idle")
              /\ Release(t)
              /\ UNCHANGED <<key, lost, renamed>>

Func(t) == \E outcome \in Outcomes :
             \/ \E n \in Names : FuncEnds(t, outcome, n)
             \/ FuncEndsInvalid(t, outcome)

Proceed(t) == \/ Count(t)
              \/ CheckClosed(t)
              \/ CheckOpen(t)
              \/ Reject(t)
              \/ Func(t)
              \/ Uncount(t)

Next == \E t \in Threads : Proceed(t) \/ \E n \in Names : Arrive(t, n)

Spec == Init /\ [][Next]_vars

\* A call that was begun goes on: the strategy's locks are held for a few
\* statements, and the wrapped function is assumed to end.  Nothing makes a
\* thread issue a request.
Fairness == \A t \in Threads : WF_vars(Proceed(t))

FairSpec == Spec /\ Fairness

-----------------------------------------------------------------------------
InFlight(n) == {t \in Threads : pc[t] \in {"counted", "open", "func", "post"}
                                /\ key[t] = n}
Admitted(n) == {t \in Threads : pc[t] \in {"func", "post"} /\ key[t] = n}

\* The counter of a request name is exactly the number of its calls between
\* strategy->pre_process and strategy->post_process, plus the calls whose
\* post_process was skipped; in particular it never wraps around.  This and
\* what follows from it holds as long as no function renames its request.
PendingCountsCalls ==
  ~renamed => \A n \in Names : pending[n] = Cardinality(InFlight(n)) + lost[n]

\* At most MaxPending calls of a name are let through to the function at the
\* same time, and every call whose post_process was skipped takes one of
\* these places for good.
PlacesAreBounded ==
  ~renamed => \A n \in Names : Cardinality(Admitted(n)) + lost[n] <= MaxPending

\* The units that counters hold: as many as the counters add up to.
Units(counter) == {u \in Names \X (1 .. CounterModulus - 1) : u[2] <= counter[u[1]]}
Counted == {t \in Threads : pc[t] \in {"counted", "open", "func", "post"}}

\* Even if functions rename their requests, no count is lost or invented: the
\* counters together hold, modulo their width, the number of all calls that
\* were counted and not uncounted.
CountsAreConserved ==
  (Cardinality(Units(pending)) - Cardinality(Units(lost)) - Cardinality(Counted))
    % CounterModulus = 0

\* A call is turned away only if more than MaxPending calls of its own name
\* are in flight at that moment or have lost their places: neither other
\* earlier calls nor calls of other names can trip the breaker.
RejectedOnlyUnderLoad ==
  [][\A t \in Threads :
       CheckOpen(t) /\ ~renamed
         => Cardinality(InFlight(key[t])) + lost[key[t]] > MaxPending]_vars

\* Whatever happened before, when no more requests are issued every counter
\* returns to the number of lost places and stays there, so that the breaker is
\* CLOSED again unless these are all.
QuietClears ==
  <>[][\A t \in Threads, n \in Names : ~Arrive(t, n)]_vars
    => <>[](~renamed => \A n \in Names : pending[n] = lost[n])

\* The hook implements admission control with MaxPending places per name: a
\* thread asks when it arrives, is inside while it runs the function.
Admission == INSTANCE AdmissionControl WITH
  Callers <- Threads, Requests <- Names, Limit <- MaxPending,
  phase <- [t \in Threads |->
              CASE pc[t] \in {"arrived", "counted", "open"} -> "asking"
                [] pc[t] = "func" -> "inside"
                [] OTHER -> "out"],
  wants <- key

\* Every step, up to the first that renames a request, is a step of admission
\* control or leaves it unchanged.
ImplementsAdmission ==
  Admission!Init /\ [][~renamed' => [Admission!Next]_(Admission!vars)]_vars
=============================================================================
