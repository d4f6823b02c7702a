--------------------------- MODULE ServiceShutdown ---------------------------
(***************************************************************************)
(* The life of a service as app/main.cpp of the example arranges it:       *)
(* loggers are constructed, a handler of the configured type is, which     *)
(* registers its Stop at the GracefulShutdown singleton,                   *)
(* GracefulShutdownOnSignal connects SIGTERM to RequestShutdown, Handle()  *)
(* serves until Stop() ends it, and the objects are destroyed in reverse   *)
(* order.                                                                  *)
(*                                                                         *)
(* The polling thread of the SignalHandler iterates over the registered    *)
(* callbacks without a lock, and logs before, between and after them,      *)
(* while the main thread goes its way and the threads of the server        *)
(* handle requests.                                                        *)
(***************************************************************************)
EXTENDS Naturals, FiniteSets, TLC

CONSTANTS Components,  \* objects that register a shutdown callback
          Server,      \* the one whose Handle() the main thread calls
          Workers,     \* threads of the server
          MaxRaises    \* bound: how often SIGTERM arrives

ASSUME ServerAssumption == Server \in Components
ASSUME WorkersAssumption == Workers \cap {"main", "polling"} = {}
ASSUME RaisesAssumption == MaxRaises \in Nat

OnSignal == "GracefulShutdownOnSignal"   \* the one SignalHandler object

None == "nullptr"
LocalLoggers == {"logger", "structured_logger"}   \* of main

VARIABLES disposition, signalRaised, owner, poller, destruct, killed, raises, heard,
          main,       \* where the main thread is
          handlerType, \* HANDLER_TYPE
          handling,   \* the request each thread of the server handles
          callbacks,  \* GracefulShutdown::_callbacks, by id
          requested,  \* _isShutdownRequested
          informing,  \* where the polling thread is in RequestShutdown
          toInform,   \* callbacks RequestShutdown has still to call
          stopping,   \* has Stop() reached a server that listens?
          alive, logger, using   \* loggers and LogProvider

signalVars == <<disposition, signalRaised, owner, poller, destruct, killed, raises, heard>>
shutdownVars == <<callbacks, requested, informing, toInform, stopping>>
logVars == <<alive, logger, using>>
serverVars == <<handlerType, handling>>
vars == <<signalVars, main, shutdownVars, serverVars, logVars>>

Signal == INSTANCE SignalHandler WITH Handlers <- {OnSignal}

Log == INSTANCE LogProvider WITH
  Loggers <- LocalLoggers,
  Backends <- [l \in LocalLoggers |-> IF l = "structured_logger" THEN "logger" ELSE None],
  Threads <- {"main", "polling"} \cup Workers,
  Discard <- "DiscardLogger"

-----------------------------------------------------------------------------
TypeOK == /\ Signal!TypeOK /\ Log!TypeOK
          /\ main \in {"construct", "connected", "handle", "started", "listening",
                       "returned", "joining", "destroy", "exit"}
          /\ callbacks \subseteq Components
          /\ requested \in BOOLEAN
          /\ informing \in {"no", "announce", "next", "inform", "stop", "end"}
          /\ toInform \subseteq Components
          /\ stopping \in BOOLEAN
          /\ handlerType \in {"HTTP", "GRPC", "invalid"}
          /\ handling \in [Workers -> {"idle", "received", "called", "answering"}]

MainGoes(from, to) == ~killed /\ main = from /\ main' = to

\* The threads of the server run.
Serving == main \in {"started", "listening"}

Busy == \E w \in Workers : handling[w] # "idle"

\* The process ends: nothing is destroyed.
Crash == /\ ~killed /\ killed' = TRUE
         /\ UNCHANGED <<disposition, signalRaised, owner, poller, destruct, raises, heard>>
         /\ UNCHANGED <<main, shutdownVars, serverVars, logVars>>

PollingGoes(from, to) == informing = from /\ informing' = to

\* Mutants: slips the properties must catch.
DestroyBeforeSignalHandler(c) ==
  /\ ~killed /\ main \in {"returned", "joining", "destroy"} /\ c \in callbacks
  /\ callbacks' = callbacks \ {c}
  /\ UNCHANGED <<signalVars, main, requested, informing, toInform, stopping, serverVars, logVars>>
DestroyLoggerBeforeSignalHandler(l) ==
  /\ ~killed /\ main \in {"joining", "destroy"}
  /\ Log!Destroy(l)
  /\ UNCHANGED <<signalVars, main, shutdownVars, serverVars>>
InformWithoutStop(c) ==
  /\ ~killed /\ c \in toInform
  /\ PollingGoes("inform", "next")
  /\ toInform' = toInform \ {c}
  /\ Log!Written("polling")
  /\ UNCHANGED <<signalVars, main, callbacks, requested, stopping, serverVars>>

-----------------------------------------------------------------------------
Init == /\ Signal!Init /\ Log!Init
        /\ main = "construct"
        /\ callbacks = {}
        /\ requested = FALSE
        /\ informing = "no" /\ toInform = {}
        /\ stopping = FALSE
        /\ handlerType \in {"HTTP", "GRPC", "invalid"}
        /\ handling = [w \in Workers |-> "idle"]

\* The loggers of main are constructed first ...
ConstructLogger(l) == /\ ~killed /\ main = "construct"
                      /\ Log!Construct(l)
                      /\ UNCHANGED <<signalVars, main, shutdownVars, serverVars>>

\* ... then the handlers.  Handler's constructor: GracefulShutdown::Register of
\* a new id
Register(c) == /\ ~killed /\ main = "construct" /\ alive = LocalLoggers
               /\ handlerType # "invalid" /\ c \notin callbacks
               /\ callbacks' = callbacks \cup {c}
               /\ UNCHANGED <<signalVars, main, requested, informing, toInform, stopping, serverVars, logVars>>

\* main throws invalid_argument, which nobody catches.
InvalidHandlerType == /\ main = "construct" /\ alive = LocalLoggers
                      /\ handlerType = "invalid"
                      /\ Crash

\* Mutant: GracefulShutdownOnSignal is a temporary.
ConnectTemporarily == /\ callbacks = Components
                      /\ MainGoes("construct", "connected")
                      /\ UNCHANGED <<signalVars, shutdownVars, serverVars, logVars>>

\* GracefulShutdownOnSignal is constructed after all callbacks are registered.
Connect == /\ callbacks = Components
           /\ MainGoes("construct", "connected")
           /\ Signal!Construct(OnSignal)
           /\ UNCHANGED <<shutdownVars, serverVars, logVars>>

\* Handle() logs first.
CallHandle == /\ MainGoes("connected", "handle")
              /\ Log!GetLogger("main")
              /\ UNCHANGED <<signalVars, shutdownVars, serverVars>>

\* External: the HTTP server listens, or cannot.
Listen == /\ handlerType = "HTTP"
          /\ MainGoes("handle", "listening")
          /\ Log!Written("main")
          /\ UNCHANGED <<signalVars, shutdownVars, serverVars>>

ListenFails == /\ handlerType = "HTTP"
               /\ MainGoes("handle", "returned")
               /\ Log!Written("main")
               /\ UNCHANGED <<signalVars, shutdownVars, serverVars>>

\* External: the gRPC server is built and its threads start, or it is not, and
\* waiting for a server that was not built ends the process.
BuildAndStart == /\ handlerType = "GRPC"
                 /\ MainGoes("handle", "started")
                 /\ Log!Written("main")
                 /\ UNCHANGED <<signalVars, shutdownVars, serverVars>>

BuildFails == main = "handle" /\ handlerType = "GRPC" /\ Crash

\* Only then is _server assigned, a plain pointer.  This is the step after which
\* the polling thread sees it; main may be waiting already.
AssignServer == /\ MainGoes("started", "listening")
                /\ UNCHANGED <<signalVars, shutdownVars, serverVars, logVars>>

\* External: a server that has been stopped accepts no more, but the threads
\* end the requests they have before it returns.
ListenEnds == /\ stopping /\ ~Busy
              /\ MainGoes("listening", "returned")
              /\ UNCHANGED <<signalVars, shutdownVars, serverVars, logVars>>

WorkerGoes(w, from, to) ==
  /\ ~killed /\ handling[w] = from
  /\ handling' = [handling EXCEPT ![w] = to]
  /\ UNCHANGED <<signalVars, main, shutdownVars, handlerType>>

\* A thread of the server processes a request, of which the Logging hook logs
\* the begin and the end.
Accept(w) == /\ Serving /\ ~stopping
             /\ WorkerGoes(w, "idle", "received") /\ Log!GetLogger(w)
Request(w) == WorkerGoes(w, "received", "called") /\ Log!Written(w)
Respond(w) == WorkerGoes(w, "called", "answering") /\ Log!GetLogger(w)
Answer(w) == WorkerGoes(w, "answering", "idle") /\ Log!Written(w)

Serve(w) == Request(w) \/ Respond(w) \/ Answer(w)

\* The end of main: ~GracefulShutdownOnSignal waits for the polling thread ...
Disconnect == /\ MainGoes("returned", "joining")
              /\ Signal!BeginDestroy(OnSignal)
              /\ UNCHANGED <<shutdownVars, serverVars, logVars>>

Join == /\ MainGoes("joining", "destroy")
        /\ Signal!EndDestroy(OnSignal)
        /\ UNCHANGED <<shutdownVars, serverVars, logVars>>

\* ... then the handlers are destroyed: GracefulShutdown::UnRegister
Destroy(c) == /\ ~killed /\ main = "destroy" /\ c \in callbacks
              /\ callbacks' = callbacks \ {c}
              /\ UNCHANGED <<signalVars, main, requested, informing, toInform, stopping, serverVars, logVars>>

\* ... and the loggers.
DestroyLogger(l) == /\ ~killed /\ main = "destroy" /\ callbacks = {}
                    /\ Log!Destroy(l)
                    /\ UNCHANGED <<signalVars, main, shutdownVars, serverVars>>

Exit == /\ callbacks = {} /\ alive = {}
        /\ MainGoes("destroy", "exit")
        /\ UNCHANGED <<signalVars, shutdownVars, serverVars, logVars>>

Main == \/ InvalidHandlerType
        \/ CallHandle \/ Listen \/ ListenFails \/ ListenEnds
        \/ BuildAndStart \/ BuildFails \/ AssignServer
        \/ Connect \/ Disconnect \/ Join \/ Exit
        \/ \E c \in Components : Register(c) \/ Destroy(c)
        \/ \E l \in LocalLoggers : ConstructLogger(l) \/ DestroyLogger(l)

\* The polling thread begins the callback: RequestShutdown logs ...
RequestShutdown == /\ Signal!Call(OnSignal)
                   /\ PollingGoes("no", "announce")
                   /\ Log!GetLogger("polling")
                   /\ UNCHANGED <<main, callbacks, requested, toInform, stopping, serverVars>>

\* ... sets the flag, and starts to iterate.
Announced == /\ ~killed
             /\ PollingGoes("announce", "next")
             /\ requested' = TRUE
             /\ toInform' = callbacks
             /\ Log!Written("polling")
             /\ UNCHANGED <<signalVars, main, callbacks, stopping, serverVars>>

\* Each iteration, and the end of the loop, log once more.
LogNext == /\ ~killed
           /\ PollingGoes("next", IF toInform = {} THEN "end" ELSE "inform")
           /\ Log!GetLogger("polling")
           /\ UNCHANGED <<signalVars, main, callbacks, requested, toInform, stopping, serverVars>>

\* Until Handle() has assigned it, the _server of the gRPC handler is null for
\* the polling thread, although the threads of the server may run already.
NoServerYet(c) == /\ c = Server /\ handlerType = "GRPC"
                  /\ main \in {"connected", "handle", "started"}

\* One iteration: Stop() of a component, which logs, too.  External: stopping
\* the HTTP server has no effect unless it is listening; Shutdown() of the gRPC
\* server waits for the requests.
Inform(c) == /\ ~killed /\ c \in toInform /\ ~NoServerYet(c)
             /\ PollingGoes("inform", IF c = Server /\ handlerType = "GRPC" THEN "stop" ELSE "next")
             /\ toInform' = toInform \ {c}
             /\ stopping' = (stopping \/ (c = Server /\ main = "listening"))
             /\ Log!Written("polling")
             /\ UNCHANGED <<signalVars, main, callbacks, requested, serverVars>>

InformCrashes(c) == informing = "inform" /\ c \in toInform /\ NoServerYet(c) /\ Crash

StopReturns == /\ ~killed /\ ~Busy
               /\ PollingGoes("stop", "next")
               /\ UNCHANGED <<signalVars, main, callbacks, requested, toInform, stopping, serverVars, logVars>>

AllInformed == /\ PollingGoes("end", "no")
               /\ Signal!Return(OnSignal)
               /\ Log!Written("polling")
               /\ UNCHANGED <<main, callbacks, requested, toInform, stopping, serverVars>>

Polling == \/ /\ Signal!Continue(OnSignal) \/ Signal!End(OnSignal)
                   \/ Signal!Pass(OnSignal) \/ Signal!Clear(OnSignal)
              /\ UNCHANGED <<main, shutdownVars, serverVars, logVars>>
           \/ RequestShutdown \/ Announced \/ LogNext \/ StopReturns
           \/ \E c \in Components : Inform(c) \/ InformCrashes(c)
           \/ AllInformed

Sigterm == Signal!Raise /\ UNCHANGED <<main, shutdownVars, serverVars, logVars>>

Finished == (killed \/ main = "exit") /\ UNCHANGED vars

Next == \/ Main \/ Polling \/ Sigterm \/ Finished
        \/ \E w \in Workers : Accept(w) \/ Serve(w)

Spec == Init /\ [][Next]_vars

\* All threads are scheduled; nobody promises a signal or a request.
Fairness == /\ WF_vars(Main) /\ WF_vars(Polling)
            /\ \A w \in Workers : WF_vars(Serve(w))

FairSpec == Spec /\ Fairness

-----------------------------------------------------------------------------
\* RequestShutdown iterates over the map of callbacks without a lock: while it
\* does, no callback is registered or unregistered.
RegistryIsStable ==
  [][poller[OnSignal] = "calling" => UNCHANGED callbacks]_vars

\* The process ends while a request is handled only in Stop() of a gRPC handler
\* that is called before Handle() has assigned _server.  No signal ends it by
\* itself: it is caught from before Handle() until no request is left.  And
\* Stop() does not end the process of an HTTP handler, nor once _server is seen.
OnlyEarlyStopKillsRequests ==
  (killed /\ Busy) => (handlerType = "GRPC" /\ main = "started" /\ informing = "inform")

\* Whoever logs writes to a logger that exists, also while the service is shut
\* down and the loggers are destroyed; no message is discarded meanwhile.
LogsReachALiveLogger ==
  \A t \in DOMAIN using : using[t] # None => using[t] \in alive

\* A SIGTERM that is caught while the server listens ends the service.
SigtermWhileServingEnds ==
  (signalRaised /\ main = "listening" /\ poller[OnSignal] \in {"loop", "test"})
    ~> (main = "exit" \/ killed)

\* When the destructors run, the service comes to its end.
ShutdownTerminates == main = "returned" ~> (main = "exit" \/ killed)

\* A service that has been asked to shut down ends.
RequestedShutdownEnds == requested ~> (main = "exit" \/ killed)
=============================================================================
