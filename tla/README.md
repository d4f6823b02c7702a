# TLA+ models of microservice-essentials

TLA+ specifications of the library's request pipeline, hooks and utilities, checked with TLC;
every safety property they state is also proved with TLAPS. Paths below are relative to `src/` of the repository (the library
is in `src/src/microservice-essentials/`, abbreviated `mse/`).

## 1. The system

A service handles requests in a `RequestHandler` and issues its own in a `RequestIssuer`. Both are
`RequestProcessor`s: they wrap a function in a chain of `RequestHook`s that add logging, error
handling, authorisation, circuit breaking, retries and caching. A request carries a `Context`
(metadata with a chain of parents). Signals and shutdown are handled beside the requests.

| Component | State | Operations | What is hard | What makes it correct |
|---|---|---|---|---|
| circuit breaker (`mse/reliability/circuit-breaker-request-hook.cpp`) | per request name, a `uint32_t` count of pending calls, under a shared mutex | count, decide, uncount | counting and deciding are separate critical sections of many threads; exceptional ends; the name may change | counters are exact, the bound holds, nobody is refused without load, counters return to zero |
| LRU cache (`mse/performance/caching-request-hook.cpp`) | list of keys, map to element and list iterator | Insert, Get, Remove | iterators that must stay valid; eviction at the limit | no dangling iterator; returns what was put last; evicts the least recent |
| caching hook (same file) | none of its own; shares the cache between threads | lookup, age test, removal, fetch, insertion | all of these are separate steps; data changes and time passes between them | staleness is bounded; entries are not doubled without a race |
| retry hook (`mse/reliability/retry-request-hook.cpp`) | retry counter, time of the request | attempt, wait, retry recursively, give up | slow attempts, jitter, a clock that is set | schedule, count, termination |
| signal handler (`mse/utilities/signal-handler.cpp`) | process-wide disposition and static flag, a polling thread per object | construct, raise, poll, call back, destroy | three parties without a common lock; several objects share the flag | no call after destruction, no call without a signal, no signal unanswered |
| graceful shutdown, handlers (`mse/cross-cutting-concerns/graceful-shutdown.cpp`, `mse/handler.h`, `examples/star-wars-starships/app/main.cpp`) | registry of callbacks, flag | Register, UnRegister, RequestShutdown; Handle, Stop | callbacks run in the polling thread while main constructs, serves and destroys and the server's threads handle requests | registry not changed during iteration; SIGTERM ends the service, and not in the middle of a request; no join deadlock |
| request processor and hook base class (`mse/request/`) | the chain of hooks | With, BeginWith, GloballyWith, Process; pre/post_process | exceptions thrown at any depth and by post_process itself | post_process mirrors pre_process, the handler always answers |
| logging, exception handling, error forwarding (`mse/observability`, `mse/cross-cutting-concerns`) | none | change a status or an exception | they interact through the chain: order matters | a callee's errors do not become the caller's |
| token authentication, claim checker (`mse/security`) | tables of tokens and scopes | refuse in pre_process, put the claim of the token into the context | claims that come with the metadata; answers from a cache | nobody is served whose token does not grant it |
| status codes and conversion (`mse/status.cpp`, `mse/utilities/status-converter.cpp`) | constant tables | to_string, conversion | `invalid` has no name and throws; some HTTP codes have no status code and throw | an error keeps its class on the way to the caller |
| context (`mse/context.cpp`) | metadata and parent pointer per object | construct, copy, move, assign, insert, look up, clear | parent pointers without ownership; cycles | no cycles, no parent destroyed early, inheritance from the global context, copies equal their source, a handler finds its metadata |
| logger, LogProvider (`mse/observability/logger.cpp`) | pointer to the current logger, without a lock | register in the constructor, reset in the destructor, take and write | a logger destroyed between taking and writing; overlapping lifetimes | nobody writes to a destroyed logger |
| request hook factory, request type (`mse/request/`) | a map of factory methods, filled by the first use of each kind of hook | Register, Create | the map has no lock | - |
| environment, url, metadata converters (`mse/utilities/`) | none | convert | - | pure functions, unit-tested |
| example service (`examples/star-wars-starships`) | a cached listing, an LRU cache of ships, a map of statuses without lock, a remote catalogue | list, get, update status | two caches, a retry and error forwarding in one chain; pages; neither core nor client looks at a status | only the authorised are served, listings are complete, a missing ship is the caller's error |

Interactions: `RequestProcessor::Process` calls the hooks from the outside in; a hook calls what is
inside of it as a function, so hooks interact only through the returned status, the exception that
passes and the context. Hooks for all requests of a kind share their strategy or cache object, which
is where threads meet. `SignalHandler` calls `GracefulShutdown::RequestShutdown` in its own thread,
which calls `Stop` of every registered handler. The list of hazards with their lines is in
`PROJECT.json`.

## 2. Modules

| Module | Models | State and actions against the code |
|---|---|---|
| `AdmissionControl` | the promise of the breaker | callers ask, are admitted or refused, leave; at most `Limit` inside per request |
| `CircuitBreaker` | `RequestHook::Process` with the breaker's pre and post_process, any number of threads | `pending` is `_request_data`; `Count`, `CheckClosed`/`CheckOpen`, `Uncount`/`Reject` are the critical sections of `pre_process`, `GetStatus` and `post_process`; `FuncEnds` is the wrapped function |
| `LossyCache`, `RecencyCache` | the promises of a bounded cache, and of an LRU cache | |
| `LRUCache` | `LRUCache` over `UnorderedMapCache` | `lru` is the list with node identities for iterators, `store` the map; one action per operation, each of which holds the exclusive lock |
| `CachingHook` | `CachingRequestHook::Process` by several threads, composed with `LRUCache` by `INSTANCE` | one action per step between two accesses of the cache or the clock; `Update` and `Tick` are the environment |
| `RetryHook` | `RetryRequestHook` with both backoffs and the jitter decorator, one request | `Attempt` is func, the others the branches of `post_process`; `SetClock` is the environment |
| `SignalHandler` | objects for one signal | `Construct`, `Raise` (the C handler), `Continue`/`End`/`Call`/`Pass`/`Return`/`Clear` (the polling loop statement by statement), `BeginDestroy`/`EndDestroy` |
| `LogProvider` | the provider and the loggers that register with it | `logger` is the pointer; taking it and writing are two steps |
| `ServiceShutdown` | `main` of the example composed with one `SignalHandler` and the `LogProvider` by `INSTANCE` | main thread (`ConstructLogger` ... `Exit`), polling thread (`RequestShutdown` ... `AllInformed`) and the threads of the server (`Accept` ... `Answer`); `handlerType` is the environment variable that chooses the HTTP or the gRPC handler. `BuildAndStart` and `AssignServer` are the two halves of `_server = _serverBuilder.BuildAndStart()`: the first starts the threads of the server, the second is when the polling thread sees the pointer |
| `RequestPipeline` | handler chain, and an issuer chain inside of the handler's function | hooks are kinds; `PreProcess`, `Refuse`, `PostAfter...`, `HandleException`, `RetryRequest`, `CacheHit`, `CacheMissed` are the parts of `RequestHook::Process` and of the hooks that override it |
| `StarshipService` | the three requests of the example, one after the other, over `RequestPipeline` | each action is one of `RequestPipeline` with what the token, the claim checker, the caches, the client, the core or the handler does in that step; `cache` outlives the requests |
| `Context` | `Context` objects of one thread | one action per constructor and per branch of `operator=` |
| `RequestContexts` | what `RequestHandler` and `RequestIssuer` do with contexts, nested to any depth, over `Context` | a stack of frames, each a processor with its own context and the one it passes to its hooks; `Store` is the assignment to the thread-local context; the functions may do anything `Context` allows in between |
| `CircuitBreakerProofs`, `LRUCacheProofs`, `CachingHookProofs`, `RetryHookProofs`, `SignalHandlerProofs`, `ServiceShutdownProofs`, `ContextProofs`, `StarshipServiceProofs` | proofs | each is about the module it is named after; `ContextProofs` also about `RequestContexts`, and `StarshipServiceProofs` also about `RequestPipeline` |
| `MC...` | constants for TLC | `MCRetryHook` has TLC evaluate `SumIsGeometric`, on which a theorem rests |

Definitions marked as mutants are not part of a model. They are slips one could make in the code,
used to see that the properties would notice.

Conventions. Variables marked *(history)* have no counterpart in the program; they record what a
property refers to, and no guard reads them. What a lock protects is one step. The polling loop of
`SignalHandler` has no lock, so reading and writing the flag are steps of their own, and so is
the beginning and the end of the callback. Names, keys, payloads and status codes are model values.

### Assumptions of the models

* Circuit breaker: the configured `errorStatus` is an error. If it were a success, `RequestHook`
  would call the function without a place.
* Circuit breaker: fewer than 2^32 - `MaxPending` threads issue requests (`WidthAssumption`);
  `CounterModulus` is 2^32 in the code and smaller in the run, so that wrap-around happens.
* Retry hook: durations are integers; jitter, which is Gaussian in the code, has a bound. Sleeping may last
  longer than asked for, by up to `MaxDelay`. The clock is set at most once per request.
* Signal handler: `std::async` without a policy starts a thread (as the common standard libraries
  choose); a deferred loop would run only in the destructor. All objects are for the same signal.
* Context: a parent that the program destroys itself has no children (guard of `Destroy`). The library cannot check this.
  That requests keep to it is a property (`KeepsParentsAlive`), not an assumption. The global context is not copied
  (`MayCopyGlobal = FALSE`) where it is claimed that all others inherit from it, see section 5. One key stands for all keys, for which each is independent. Its values
  are abstracted to the first of those inserted, which `At` returns.
* Request contexts: functions and hooks do with contexts what they like, but for two obligations of the program. The parent of a context
  that is given to a processor is the thread-local context, one below it, or the global context (guard `MayGive`); and no context that a
  function made itself still has a context of its request as parent when the request ends (guard `NoLocalBelow`). The library cannot check either,
  and `KeepsParentsAlive` and theorem `RequestsKeepParents` rest on both.
* Service shutdown: the plain pointer `_server` becomes visible to the polling thread some time after it is assigned, in one step with the
  server it points to.
* The text of a log message is formed before its level is compared, so `to_string` is called at any level.

## 3. Runs

A run passes unless it is marked as ending in a violation; the mutants listed in `PROJECT.json` show that each
property can fail in its run.

**`CircuitBreaker_calls`** (4 threads, 2 names, limit 2, counters modulo 8). Four threads are
two more than the limit, so that the counter exceeds it by more than one; two names show independence, and
functions may rename their request at any time. `PendingCountsCalls`, `PlacesAreBounded` and
`RejectedOnlyUnderLoad` say what a user may rely on, `CountsAreConserved` what is left when requests
are renamed, `QuietClears` that no place leaks, and `ImplementsAdmission` that the breaker refines
`AdmissionControl`. The first three and the refinement hold until the first renaming (`renamed`): after it,
the counter that is decremented is not the one that was incremented, and may underflow.

**`LRUCache_callers`** (4 keys, 2 elements, 3 places). One key more than places, so that eviction
happens, and three places so that the middle of the list differs from both ends. `IteratorsAreValid`,
`ImplementsLossyCache` hold for any use; `IsRecencyCache` until a caller inserts a key
that the cache holds.

**`CachingHook_threads`** (2 threads, 2 keys, 2 places, one change per key, `max_age` 0 so that one tick
expires an element). `CacheCatchesUp`: late and doubled insertions and mistaken removals happen, but
no answer is wrong for ever. `InsertsTwiceOnlyInRaces`: it takes two threads to bring the LRU cache
into the state where it is no longer an LRU cache.

**`CachingHook_eviction`** (violation) **`EvictsLeastRecentlyUsed`**: two threads that miss the same key
both insert it. `LRUCache::Insert` does not look for the key, so the list holds it twice; when the
older node reaches the end of the list, the key is evicted although it was used last, and
even though the map is not full.

**`RetryHook_request`** (3 retries, interval 2, base 2, jitter 1, attempts of up to 3 ticks, which are
longer than the first interval, clock set by 4 in either direction). `RetriesAreOnSchedule` compares the start of every retry with
a closed form of the sum the code computes in a loop, `GivesUpOnlyAfterAll` and `RequestEnds` hold
also when the clock is set. A clock that is set shifts the schedule: set back, the wait gets longer
by as much.

**`SignalHandler_lifetimes`** (3 objects that overlap in any way, 3 signals).
`NoCallbackAfterDestruction`, `CallsOnlyWhenSignalled`, `QuietSignalIsAnswered`. Three objects are enough for one
that is destroyed while another one answers and a third one is created.

**`SignalHandler_overtaken`** (violation) **`EverySignalIsAnswered`**: `callOnSignal` clears the flag after the callback,
so a signal that arrives during the callback is forgotten.

Deadlock is not checked in these two runs: a process that has been killed by the signal, or whose objects are gone, does stop.

**`ServiceShutdown_main`** (HTTP, gRPC or an invalid type; 3 registered components, one of which is the server, 4 signals, 2 threads
that handle requests). `RegistryIsStable`: the unlocked iteration over the callbacks never coincides with a registration,
because `main` constructs the signal handler last and destroys it first.
`OnlyEarlyStopKillsRequests`: whatever signals arrive, also early ones and a second SIGTERM, the process ends while a request is
handled in one way only. The gRPC server handles requests as soon as `BuildAndStart()` has started it, but `_server` is assigned when that
returns; a SIGTERM in between makes the polling thread call `Shutdown()` through a null pointer, and the requests are lost. The run reaches this.
That a signal never ends the process by itself during a request, and that `Stop()` of the HTTP handler, or later on of
the gRPC handler, does not, is what the property says.
`SigtermWhileServingEnds`, `ShutdownTerminates` (the destructor that joins the polling thread does not
deadlock with the callback, which waits for the requests of a gRPC server), and `LogsReachALiveLogger` (the polling thread and the
threads of the server log, and no logger they took is destroyed meanwhile, again because of the order of `main`; nor is a
message discarded). Loggers whose lifetimes overlap without nesting, which `main` does not have, would unregister each other.

**`ServiceShutdown_early_signal`** (violation; one thread that handles requests) **`RequestedShutdownEnds`**: a SIGTERM before `listen()`
calls `Stop()` of a server that does not listen yet. This has no effect, and the service then serves on.

**`RequestContexts_any_program`** (the global and the thread-local context and four other places in memory for contexts, one value of the
metadata). Requests nest, with hooks that change their contexts and functions that end at any point, while
the functions construct, copy, move, assign and destroy contexts of their own. `NoContextIsItsOwnAncestor`, `AllInheritGlobal`
and `CopiesSeeTheSame` are about contexts in general. `KeepsParentsAlive`: no context of a request
is destroyed before those that refer to it, although the parent is a plain pointer; it rests on the order in
which processors and their requests end. `RequestIsVisible`: from the assignment of a handler to the next one, the
thread-local context shows the metadata of that handler's request. Four places hold two
nested requests, or one with two contexts of its own; they are interchangeable and declared symmetric (all five are safety properties).

**`StarshipService_requests`** (any sequence of the three requests with any token; a catalogue of two pages that answers with
one of eight HTTP codes, one for each kind of row of the tables, one without a row, and none at all; two retries; and for another service all chains
of up to 2 hooks at both levels, all outcomes).
* `PostsMirrorPres`, `HandlerAnswers` and `CalleeErrorsAreForwarded` for any chain: two hooks per level show every pair of adjacent
  hooks, and the nesting of the two levels chains of up to four. The last one holds for issuers that have a single ErrorForwarding hook with
  nothing outside of it that could change what it throws: in an issuer with the hooks forwarding, logging, forwarding, the exception of the
  inner one makes the logging hook throw `std::invalid_argument`, and the outer one lets that pass.
* `OnlyAuthorizedAreServed`: neither claims in the metadata nor the cached listing help a caller without the scope.
* `AnsweredListingIsComplete`: neither core nor client looks at the status of the listing, and a failure leaves the pages fetched so far.
  That these are not answered, or cached for ever, rests on the place of the ErrorForwarding hook, which must be outside
  of Retry and of the breaker and turn whatever they return into an exception; the mutant adds it inside of the breaker.
* `UnknownShipIsAClientError`: `not_found` passes as a status, an empty optional, `bad_optional_access`, `out_of_range` and
  a status again, from the catalogue or from the cache. It is answered 400, which shows that the 404 of the comment in `core.cpp` does not happen.

**`StarshipService_dependency`** (violation) **`DependencyErrorsAreServerErrors`**: an exception of the issued
request, such as an answer that cannot be parsed, passes the Logging hook, whose `post_process` gets `StatusCode::invalid` and asks `to_string`
for its name. That throws `std::invalid_argument`, which replaces the original exception, and
the caller is told `invalid_argument`.

### Bounds

`MaxVersion`, `MaxRaises`, `MaxDuration`, `MaxDelay`, `Jitter`, `ClockSteps` and `MaxHooks` bound the
environment; `MaxPages` and the codes of the catalogue do in `StarshipService`, which has one ship and handles one request
at a time (threads that share a cache or a breaker are the subject of `CachingHook` and `CircuitBreaker`). A processor has at most
one Retry hook. `MaxAge + 1` stands for every greater age. All other constants are parameters of the
program. There are no state constraints.

### Fairness

* `CircuitBreaker`, `CachingHook`, `RetryHook`: a call that was begun goes on. Locks are held
  for a few statements; the function is assumed to end, as the code waits for it without a timeout. Nobody
  has to issue a request. In `CachingHook`, time passes.
* `SignalHandler`: the polling thread is scheduled, callbacks return, and a destructor that was begun
  ends. There is no fairness for `Raise`, `Construct` and `BeginDestroy`.
* `ServiceShutdown`: main, the polling thread and the threads that handle a request are scheduled. There is no fairness for SIGTERM; `listen` ends only after `Stop`.
* `RequestPipeline`, `StarshipService`, `Context`, `RequestContexts`: no liveness is stated.

## 4. Proofs

The theorems hold for every value of the constants that satisfies the named assumptions of the modules: any number of threads,
objects, requests, hooks, pages and retries. Every safety invariant, safety property of steps and refinement that a passing
run checks is stated by one. All proofs go by an inductive invariant; what follows says what it adds to the properties, and why.

**`CircuitBreakerProofs`**. `TypeCorrect` is inductive by itself. `PendingCountsCalls` is not: that a decrement does not
wrap around needs a counter above zero, which it says, but that an increment does not needs a bound on calls and lost
places. The latter grow only at the cost of an admitted call, hence `PlacesAreBounded`, whose own step
(`CheckClosed`) needs the exact counter. The inductive invariant is therefore
`IInv == TypeOK /\ PendingCountsCalls /\ PlacesAreBounded`; with `WidthAssumption`, lemma `NoWrap` gives
the arithmetic, and the lemmas `Joining` and `Leaving` the change of the cardinalities (`CountingCorrect`). From it
follow `CapacityRespected`, `RejectionJustified` (the counter is the number of calls) and `Implementation`
(`CheckClosed` maps to `Admit`, because the calls inside are fewer than those counted; all
other steps map to a step or a stutter). After a renaming none of this holds, but `CountsAreConserved` does (`NoCountIsLost`). It
is inductive by itself: the sum of the counters is the cardinality of the set of their units, to which an increment adds one unit, or
from which it takes all those of one counter (`Raising`), and a decrement is an increment backwards (`Lowering`).

**`LRUCacheProofs`**. `IteratorsAreValid` is inductive only together with the types of nodes and the bound on the list, without
which there might be no free node for an insertion. The lemmas say what removing, moving and appending a node do to a list whose nodes
differ; every operation is put together from them. With this invariant each step is one of `LossyCache` (`Implementation`).
For `RecencyCache` the invariant `Order` is needed: as long as no key was inserted that the cache held, the keys of the list are, place by
place, the history of uses, and the map holds exactly those keys. Then the node at the end of the list is that of the key
used least recently, and the list is full only when the map is (`RecencyImplementation`).

**`CachingHookProofs`** uses the invariant of `LRUCacheProofs`, by `INSTANCE`, for the cache that the threads share: a call of
the hook is a step of the cache, and making elements older keeps the invariant, too. `FetchedIsMissing` then says of each step between
the miss and the insertion that the key is still missing unless `raced` (`OnlyRacesInsertTwice`).

**`RetryHookProofs`**. `CountInv` relates the counter of retries to the calls made, and makes `GivesUpOnlyAfterAll` inductive
(`AllRetriesBeforeGivingUp`), for any codes, intervals and movements of the clock. The schedule
follows from lemma `OnTime`, about one wait. It is proved outright for the linear strategy (`LinearSchedule`), and for the exponential one
(`RetriesStartOnSchedule`) from `SumIsGeometric`: the loop of the code adds up to the closed form for every retry that is made. This is an
identity of numbers, about sums and powers, that takes an induction over data; TLC evaluates it for the instance of the run.

**`SignalHandlerProofs`**. `NoCallbackAfterDestruction` needs that the destructor ends only when the polling thread has. That no
signal is answered twice is harder, since all objects share one flag, and one object may clear the flag that another one is about to
test: `FlagIsHeard` says that a thread that may look at a raised flag has not answered the signal yet.

**`ServiceShutdownProofs`** builds on it by `INSTANCE`, with the one object of `main`. Nothing in
`GracefulShutdown` or `LogProvider` is locked, so the safety of both rests on the order of the declarations in `main`; the invariant `Order`
writes it down: in which phases of `main` the signal handler owns the signal, the loggers stand, and each
thread may be between taking a logger and writing to it. From it follow `NoConcurrentRegistration`, `NoDanglingLogger` and
`RequestsDieOfEarlyStopOnly`. For the last one `Order` says that requests are handled only while the server is started or assigned, and that until then the
disposition of the signal is the flag (`MainOwnsSignal`), so that no signal ends the process.

**`ContextProofs`**. Acyclicity is stated with `Ancestors`, the least closed set, and carried by
`WellFounded`: every non-empty set of contexts has a member whose parent is outside. The inductive
invariant adds that parents are live (a reused object has no children) and that the global context has no parent.
Lemma `Redirected` says that changing one parent pointer keeps this if the new parent does not descend
from the changed context, which is what `operator=` tests. `NoCycles` follows, because a cycle would be a set
without such a member. `GlobalInherited` needs `MayCopyGlobal = FALSE`: then the global context is the
only one without a parent, and every chain ends there. `CopiesAgree` rests on lemmas about lookups that mention no state, so that they
can be applied before and after the assignment.

For `RequestContexts`, `RInv` adds how the frames of nested requests are stacked: no two share a context, no context of a frame has one
of an inner frame above it, and the thread-local context never refers to one that a request destroys. So the destruction of a
frame's contexts is a step that `Context` allows, and requests implement a program over contexts (`RequestsKeepParents`);
with what each request brought into its context, lookups find it (`HandlersMetadataAreFound`).

**`StarshipServiceProofs`** is about `RequestPipeline`, too, for chains of hooks of any length. `PostsMirrorPres` looks at `pending` only when
a processor is left; `PipelineInv` says at every hook that `pending` holds, in order, the hooks that were entered and not left (`Mirrors`).
`AnswersInv` and `ForwardsInv` follow an exception and a callee's error on their way up, hook by hook.
These lemmas are about `AnyStep`, a step of the processors that leaves open what functions, caches and callees do, so that they carry
over to `StarshipService`, which fixes that. `ServiceInv` adds to it, for each request, where the claim (`Authorized`), the pages (`Listed`)
and the ship (`Known`) are on their way, and what the caches hold, as one request reads what
another one left (`CachesHold`). The theorems `NothingForTheUnauthorized`, `ListingsAreComplete` and `UnknownShipsAreTheClients` follow from it.

Assumptions used: the sets counted are finite (`ThreadsAssumption`, `NamesAssumption`), counters are wide enough (`WidthAssumption`), limits, sizes, durations and
bounds are numbers (`LimitAssumption`, `MaxSizeAssumption`, `CountsAssumption`, `BoundsAssumption`, `RaisesAssumption`, `ClockAssumption`,
`ServiceAssumption`), codes and outcomes are such (`CodesAssumption`, `OutcomesAssumption`), hooks are of known kinds (`HooksAssumption`), names are distinct
(`ObjectsAssumption`, `ServerAssumption`, `WorkersAssumption`). TLC evaluates each of them in a run.

Attempts to prove have corrected the models. `CalleeErrorsAreForwarded` was stated for
issuers with two ErrorForwarding hooks as well, where it is false (section 3). The type of `element` in `CachingHook` left out
the result of a fetch whose status is not cached. `CachingHook` never had TLC evaluate the assumption on the size of
the cache, which `LRUCache` makes where it is only instantiated.

Only model-checked: liveness, which needs fairness and is out of this prover's reach (`QuietClears`, `CacheCatchesUp`, `RequestEnds`,
`QuietSignalIsAnswered`, `SigtermWhileServingEnds`, `ShutdownTerminates`), and `SumIsGeometric`. The
four properties that end in a violation have a counterexample each.

## 5. Findings

The four runs that end in a violation, described above, contradict the documentation quoted
in `PROJECT.json`. Two comments are contradicted by the models without a run of their own:

* `core.cpp:29` says "convert to out of range => 404" of a missing ship, but `out_of_range` becomes 400. `UnknownShipIsAClientError` says 400,
  and holds. A ship that was missing once stays so until it is evicted from the cache.
* `context.cpp:113` says "global context must not have a parent. All others do". A copy of the global context has none,
  so it does not inherit what is inserted into the global context later. `AllInheritGlobal` is therefore checked and proved
  for programs that do not copy it.

The following are limits of the code that the models contain and that no document denies:

* A function that returns `StatusCode::invalid` makes the trace message in `RequestHook::Process` throw
  before `post_process` is called: a breaker loses a place for good (`lost`), and other hooks are not told.
* A function that changes the entry "request" of its context makes the breaker decrement another counter.
* `CachingRequestHook` may remove an element that another thread has just renewed.
* A signal flag that an object left unanswered is answered by the next object for this signal; the
  destructor of one object restores the default disposition for all.
* `RetryRequestHook` measures with the system clock, which may be set.
* An assignment that `Context` refuses has already replaced, or moved away, the metadata.
* A handler that runs inside of another one on the same thread leaves its metadata in the thread-local context: afterwards
  the outer one sees those of the inner one. A thread of the server keeps those of its last request.
* A listing that fails on a later page is retried with the earlier pages still in the result: their ships are
  listed, and cached, twice.
* An unknown status in the body of `updateStatus` throws `std::logic_error` and is answered with 500.
* SIGTERM between the construction of `GracefulShutdownOnSignal` and the assignment of the gRPC handler's `_server` makes `Stop()` use a null
  pointer. The server is started before the assignment, so that requests may be lost.

## 6. Not modelled

* Text: log messages and JSON, claim expressions, url and environment parsing, conversion of metadata and of ships. These are pure
  functions or pure output. The conversion to gRPC status codes is a cast between equal numbers.
* The HTTP and the gRPC server: external, modelled as the handlers use them.
* The request hook factory and the map of the in-memory database: what is hard about them are data races (first use of a kind of hook by
  a thread while another one looks its own up; an update during a listing). They have no defined outcome, and nothing is
  promised about them.
* A breaker with an `errorStatus` that is a success, and a polling loop that `std::async` defers: see the assumptions above.
* A request that waits for its retry keeps its place in a breaker that is outside of the Retry hook, as in the example. In terms of
  the breaker it is a pending call, and the run of `CircuitBreaker` covers it; how long it waits is what `RetryHook` models.
* Loggers whose lifetimes do not nest; the dummy client, which `main` does not use; destruction of statics after `main`.

## 7. Plan

Modelled, in this order: concurrency and shutdown (`CircuitBreaker`, `LRUCache`, `CachingHook`, `SignalHandler`, `ServiceShutdown`), the
request path (`RetryHook`, `RequestPipeline`, `Context`), and the compositions (`RequestContexts`, `StarshipService`). The proofs
followed in the same order. What is left:

1. Parts of the liveness arguments that are safety: that in `SignalHandler`, a signal that arrives while all threads test the flag stays raised until
   one of them calls back; that in `ServiceShutdown`, `informing` only moves forward.
2. `SumIsGeometric`, from the definition of the sum by recursion, without induction theorems that take an operator.
3. `CachingHook`: the part of `CacheCatchesUp` that is a bound on the age of an answer.
