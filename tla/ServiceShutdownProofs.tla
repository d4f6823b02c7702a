------------------------ MODULE ServiceShutdownProofs ------------------------
(***************************************************************************)
(* Proofs about ServiceShutdown, for any number of handlers, threads and   *)
(* signals.  Nothing in GracefulShutdown or LogProvider is locked: that    *)
(* the registry and the loggers are safe rests on the order of the         *)
(* declarations in main, which the inductive invariant writes down: in     *)
(* which phases of main the SignalHandler object lives, the loggers stand, *)
(* and each thread may be writing to one of them.                          *)
(***************************************************************************)
EXTENDS ServiceShutdown, TLAPS

\* What is proved about any set of SignalHandler objects holds of the one here.
SignalProofs == INSTANCE SignalHandlerProofs WITH Handlers <- {OnSignal}

-----------------------------------------------------------------------------
\* The phases of main in which GracefulShutdownOnSignal exists.
Connected == {"connected", "handle", "started", "listening", "returned"}

\* main constructs and destroys the SignalHandler object, and nobody else
\* changes the disposition of the signal.
MainOwnsSignal ==
  /\ main = "construct" => owner[OnSignal] = "unborn"
  /\ main \in Connected => owner[OnSignal] = "alive" /\ disposition = "flag"
  /\ main = "joining" => owner[OnSignal] = "destroying"
  /\ main \in {"destroy", "exit"} => owner[OnSignal] = "gone"

\* RequestShutdown is what the callback does.
CallbackInforms == poller[OnSignal] = "calling" <=> informing # "no"

BusyWhileServing == Busy => Serving

\* The loggers stand from before the first registration to after the join.
LoggersStand ==
  /\ main = "construct" => /\ alive # {} => logger \in alive
                           /\ callbacks # {} => alive = LocalLoggers
  /\ main \in Connected \cup {"joining"} =>
       alive = LocalLoggers /\ logger \in LocalLoggers

\* When each of the threads may be writing to a logger.
WhoLogs ==
  /\ using["main"] # None => main = "handle"
  /\ using["polling"] # None => informing # "no"
  /\ \A w \in Workers : using[w] # None => handling[w] # "idle"

\* The order in which the threads and objects of the service come and go.
Order == /\ MainOwnsSignal /\ CallbackInforms
         /\ BusyWhileServing /\ OnlyEarlyStopKillsRequests
         /\ LoggersStand /\ WhoLogs /\ LogsReachALiveLogger

IInv == SignalProofs!IInv /\ TypeOK /\ Order

-----------------------------------------------------------------------------
\* A step of the signal handler keeps the signal handler's invariant.
LEMMA SignalSteps ==
  ASSUME SignalProofs!IInv, [Signal!Next]_signalVars
  PROVE  SignalProofs!IInv'
<1>1. [SignalProofs!Next]_(SignalProofs!vars)
  BY DEF signalVars, Signal!Next, Signal!Raise, Signal!Construct, Signal!BeginDestroy,
         Signal!EndDestroy, Signal!Poll, Signal!Continue, Signal!End, Signal!Call,
         Signal!Pass, Signal!Clear, Signal!Return, Signal!Goes, Signal!Alive,
         SignalProofs!vars, SignalProofs!Next, SignalProofs!Raise,
         SignalProofs!Construct, SignalProofs!BeginDestroy, SignalProofs!EndDestroy,
         SignalProofs!Poll, SignalProofs!Continue, SignalProofs!End,
         SignalProofs!Call, SignalProofs!Pass, SignalProofs!Clear,
         SignalProofs!Return, SignalProofs!Goes, SignalProofs!Alive
<1>. QED
  BY <1>1, SignalProofs!Inductive, RaisesAssumption

\* So does the end of the process.
LEMMA SignalCrash ==
  ASSUME SignalProofs!IInv, Crash
  PROVE  SignalProofs!IInv'
BY DEF Crash, SignalProofs!IInv, SignalProofs!TypeOK,
       SignalProofs!ThreadLivesInObject, SignalProofs!HeardWereRaised,
       SignalProofs!FlagIsHeard

\* Every step is one of these two for the signal handler.
LEMMA SignalPart ==
  ASSUME [Next]_vars
  PROVE  [Signal!Next]_signalVars \/ Crash
<1>1. ASSUME Main PROVE [Signal!Next]_signalVars \/ Crash
  BY <1>1
     DEF Main, InvalidHandlerType, CallHandle, Listen, ListenFails, ListenEnds,
         BuildAndStart, BuildFails, AssignServer, Connect, Disconnect, Join, Exit,
         Register, Destroy, ConstructLogger, DestroyLogger,
         Signal!Next
<1>2. ASSUME Polling PROVE [Signal!Next]_signalVars \/ Crash
  BY <1>2
     DEF Polling, RequestShutdown, Announced, LogNext, StopReturns, Inform, InformCrashes,
         AllInformed, Signal!Next, Signal!Poll
<1>. QED
  BY <1>1, <1>2 DEF Next, vars, Sigterm, Finished, Accept, Serve, Request, Respond, Answer,
                    WorkerGoes, Signal!Next

LEMMA Initially == Init => IInv
<1>. SUFFICES ASSUME Init PROVE IInv
  OBVIOUS
<1>1. SignalProofs!IInv
  BY SignalProofs!Initially, RaisesAssumption DEF Init, Signal!Init, SignalProofs!Init
<1>2. TypeOK
  BY <1>1 DEF Init, TypeOK, Signal!TypeOK, SignalProofs!IInv, SignalProofs!TypeOK,
              Log!TypeOK, Log!Init
<1>. QED
  BY <1>1, <1>2, WorkersAssumption
     DEF Init, Signal!Init, Log!Init, IInv, Order, MainOwnsSignal, CallbackInforms, Connected,
         BusyWhileServing, OnlyEarlyStopKillsRequests, Serving, Busy, LoggersStand, WhoLogs,
         LogsReachALiveLogger

\* What the types say of the functions the invariant applies.
LEMMA Applied ==
  ASSUME IInv
  PROVE  /\ TypeOK
         /\ using \in [{"main", "polling"} \cup Workers
                         -> LocalLoggers \cup {None, "DiscardLogger"}]
         /\ owner[OnSignal] = "unborn" => poller[OnSignal] = "none"
         /\ owner[OnSignal] = "gone" => poller[OnSignal] = "ended"
         /\ owner \in [{OnSignal} -> {"unborn", "alive", "destroying", "gone"}]
         /\ poller \in [{OnSignal} -> {"none", "loop", "test", "calling", "clear", "ended"}]
BY DEF IInv, TypeOK, Log!TypeOK, SignalProofs!IInv, SignalProofs!ThreadLivesInObject,
       SignalProofs!TypeOK

\* So is every step one of LogProvider, of some thread or logger.
LEMMA LogPart ==
  ASSUME [Next]_vars
  PROVE  [Log!Next]_logVars
<1>1. ASSUME Main PROVE [Log!Next]_logVars
  BY <1>1
     DEF Main, InvalidHandlerType, CallHandle, Listen, ListenFails, ListenEnds,
         BuildAndStart, BuildFails, AssignServer, Connect, Disconnect, Join, Exit,
         Register, Destroy, ConstructLogger, DestroyLogger,
         Crash, Log!Next
<1>2. ASSUME Polling PROVE [Log!Next]_logVars
  BY <1>2
     DEF Polling, RequestShutdown, Announced, LogNext, StopReturns, Inform, InformCrashes,
         AllInformed, Crash, Log!Next
<1>. QED
  BY <1>1, <1>2 DEF Next, vars, Sigterm, Finished, Accept, Serve, Request, Respond, Answer,
                    WorkerGoes, Log!Next

LEMMA LogTypes ==
  ASSUME Log!TypeOK, [Log!Next]_logVars
  PROVE  Log!TypeOK'
<1>. USE DEF Log!TypeOK, logVars
<1>1. ASSUME NEW l \in LocalLoggers, Log!Construct(l) \/ Log!Destroy(l) PROVE Log!TypeOK'
  BY <1>1 DEF Log!Construct, Log!Destroy, Log!Register, Log!UnRegister
<1>2. ASSUME NEW t \in {"main", "polling"} \cup Workers, Log!GetLogger(t) \/ Log!Written(t)
      PROVE  Log!TypeOK'
  BY <1>2 DEF Log!GetLogger, Log!Written
<1>. QED
  BY <1>1, <1>2 DEF Log!Next

\* The types, of which the signal handler's are known already.
LEMMA Types ==
  ASSUME IInv, [Next]_vars, SignalProofs!IInv'
  PROVE  TypeOK'
<1>. USE DEF MainGoes, PollingGoes, WorkerGoes, Crash, shutdownVars, serverVars
<1>. DEFINE Rest ==
       /\ main \in {"construct", "connected", "handle", "started", "listening",
                    "returned", "joining", "destroy", "exit"}
       /\ callbacks \subseteq Components
       /\ requested \in BOOLEAN
       /\ informing \in {"no", "announce", "next", "inform", "stop", "end"}
       /\ toInform \subseteq Components
       /\ stopping \in BOOLEAN
       /\ handlerType \in {"HTTP", "GRPC", "invalid"}
       /\ handling \in [Workers -> {"idle", "received", "called", "answering"}]
<1>0. Rest /\ Log!TypeOK'
  BY Applied, LogPart, LogTypes DEF TypeOK
<1>1. ASSUME Main PROVE Rest'
  BY <1>0, <1>1
     DEF Main, InvalidHandlerType, CallHandle, Listen, ListenFails, ListenEnds,
         BuildAndStart, BuildFails, AssignServer, Connect, Disconnect, Join, Exit,
         Register, Destroy, ConstructLogger, DestroyLogger
<1>2. ASSUME Polling PROVE Rest'
  BY <1>0, <1>2
     DEF Polling, RequestShutdown, Announced, LogNext, StopReturns, Inform, InformCrashes,
         AllInformed
<1>3. ASSUME Sigterm \/ Finished \/ UNCHANGED vars PROVE Rest'
  BY <1>0, <1>3 DEF Sigterm, Finished, vars
<1>4. ASSUME NEW w \in Workers, Accept(w) \/ Serve(w) PROVE Rest'
  BY <1>0, <1>4 DEF Accept, Serve, Request, Respond, Answer
<1>5. Rest'
  BY <1>1, <1>2, <1>3, <1>4 DEF Next
<1>6. Signal!TypeOK'
  BY DEF SignalProofs!IInv, SignalProofs!TypeOK, Signal!TypeOK
<1>. QED
  BY <1>0, <1>5, <1>6 DEF TypeOK

-----------------------------------------------------------------------------
\* A step in which t, and no other thread, takes a logger or has written to it.
LogsAlone(t) ==
  /\ LogsReachALiveLogger'
  /\ UNCHANGED <<alive, logger>>
  /\ \A u \in {"main", "polling"} \cup Workers : u # t => using'[u] = using[u]

\* A thread that takes the logger while the loggers stand takes one that exists,
LEMMA Takes ==
  ASSUME IInv, NEW t \in {"main", "polling"} \cup Workers, Log!GetLogger(t),
         main \in Connected \cup {"joining"}
  PROVE  LogsAlone(t)
<1>. USE Applied DEF Log!GetLogger
<1>1. alive = LocalLoggers /\ logger \in LocalLoggers /\ logger # None
  BY DEF IInv, Order, LoggersStand, LocalLoggers, None
<1>2. using' = [using EXCEPT ![t] = logger]
  BY <1>1
<1>. QED
  BY <1>1, <1>2 DEF IInv, Order, LogsReachALiveLogger, LogsAlone

\* and one that has written refers to none any more.
LEMMA Writes ==
  ASSUME IInv, NEW t \in {"main", "polling"} \cup Workers, Log!Written(t)
  PROVE  LogsAlone(t) /\ using'[t] = None
BY Applied DEF Log!Written, IInv, Order, LogsReachALiveLogger, LogsAlone

\* The threads of the server do not log for main or the polling thread.
LEMMA ThreadsDiffer ==
  "main" # "polling" /\ "main" \notin Workers /\ "polling" \notin Workers
BY WorkersAssumption

\* main: the objects it constructs and destroys.
LEMMA MainKeepsOrder ==
  ASSUME IInv, Main
  PROVE  Order'
<1>. USE Applied DEF IInv, Order, MainOwnsSignal, CallbackInforms, Connected,
             BusyWhileServing, OnlyEarlyStopKillsRequests, Serving, Busy, LoggersStand, WhoLogs,
             MainGoes, shutdownVars, signalVars, serverVars, logVars, Crash
<1>1. CASE InvalidHandlerType \/ BuildFails
  BY <1>1 DEF LogsReachALiveLogger, InvalidHandlerType, BuildFails
<1>2. ASSUME NEW l \in LocalLoggers, ConstructLogger(l) PROVE Order'
  BY <1>2 DEF LogsReachALiveLogger, ConstructLogger, Log!Construct, Log!Register
<1>3. ASSUME NEW c \in Components, Register(c) \/ Destroy(c) PROVE Order'
  BY <1>3 DEF LogsReachALiveLogger, Register, Destroy
<1>4. CASE Connect
  BY <1>4, ServerAssumption
     DEF LogsReachALiveLogger, Connect, Signal!Construct, Signal!Goes, LocalLoggers
<1>5. CASE CallHandle
  <2>1. LogsAlone("main")
    BY <1>5, Takes DEF CallHandle
  <2>. QED
    BY <1>5, <2>1, ThreadsDiffer DEF LogsAlone, CallHandle
<1>6. CASE Listen \/ ListenFails \/ BuildAndStart
  <2>1. LogsAlone("main") /\ using'["main"] = None
    BY <1>6, Writes DEF Listen, ListenFails, BuildAndStart
  <2>. QED
    BY <1>6, <2>1, ThreadsDiffer DEF LogsAlone, Listen, ListenFails, BuildAndStart
<1>7. CASE ListenEnds \/ AssignServer
  BY <1>7 DEF LogsReachALiveLogger, ListenEnds, AssignServer
<1>8. CASE Disconnect \/ Join
  BY <1>8
     DEF LogsReachALiveLogger, Disconnect, Join, Signal!BeginDestroy, Signal!EndDestroy, Signal!Alive
<1>9. ASSUME NEW l \in LocalLoggers, DestroyLogger(l) PROVE Order'
  BY <1>9 DEF LogsReachALiveLogger, DestroyLogger, Log!Destroy, Log!UnRegister
<1>10. CASE Exit
  BY <1>10 DEF LogsReachALiveLogger, Exit
<1>. QED
  BY <1>1, <1>2, <1>3, <1>4, <1>5, <1>6, <1>7, <1>8, <1>9, <1>10 DEF Main

\* The polling thread exists only while the loggers stand.
LEMMA ThreadWhileConnected ==
  ASSUME IInv, poller[OnSignal] \notin {"none", "ended"}
  PROVE  main \in Connected \cup {"joining"}
BY Applied DEF IInv, TypeOK, Order, MainOwnsSignal, Connected

\* The polling thread: the callback, and the flag it is called for.
LEMMA PollingKeepsOrder ==
  ASSUME IInv, Polling
  PROVE  Order'
<1>. USE Applied DEF IInv, Order, MainOwnsSignal, CallbackInforms, Connected,
             BusyWhileServing, OnlyEarlyStopKillsRequests, Serving, Busy, LoggersStand, WhoLogs,
             PollingGoes, shutdownVars, signalVars, serverVars, logVars, Crash
<1>1. ASSUME Signal!Continue(OnSignal) \/ Signal!End(OnSignal)
               \/ Signal!Pass(OnSignal) \/ Signal!Clear(OnSignal),
             UNCHANGED <<main, shutdownVars, serverVars, logVars>>
      PROVE  Order'
  BY <1>1
     DEF LogsReachALiveLogger, Signal!Continue, Signal!End, Signal!Pass, Signal!Clear, Signal!Goes
<1>2. CASE RequestShutdown
  <2>1. LogsAlone("polling")
    BY <1>2, Takes, ThreadWhileConnected DEF RequestShutdown, Signal!Call, Signal!Goes
  <2>. QED
    BY <1>2, <2>1, ThreadsDiffer DEF LogsAlone, RequestShutdown, Signal!Call, Signal!Goes
<1>3. CASE Announced
  <2>1. LogsAlone("polling") /\ using'["polling"] = None
    BY <1>3, Writes DEF Announced
  <2>. QED
    BY <1>3, <2>1, ThreadsDiffer DEF LogsAlone, Announced
<1>4. CASE LogNext
  <2>1. LogsAlone("polling")
    BY <1>4, Takes, ThreadWhileConnected DEF LogNext
  <2>. QED
    BY <1>4, <2>1, ThreadsDiffer DEF LogsAlone, LogNext
<1>5. ASSUME NEW c \in Components, Inform(c) PROVE Order'
  <2>1. LogsAlone("polling") /\ using'["polling"] = None
    BY <1>5, Writes DEF Inform
  <2>. QED
    BY <1>5, <2>1, ThreadsDiffer DEF LogsAlone, Inform
<1>6. ASSUME NEW c \in Components, InformCrashes(c) PROVE Order'
  BY <1>6 DEF LogsReachALiveLogger, InformCrashes, NoServerYet
<1>7. CASE StopReturns
  BY <1>7 DEF LogsReachALiveLogger, StopReturns
<1>8. CASE AllInformed
  <2>1. LogsAlone("polling") /\ using'["polling"] = None
    BY <1>8, Writes DEF AllInformed, Signal!Return, Signal!Goes
  <2>. QED
    BY <1>8, <2>1, ThreadsDiffer DEF LogsAlone, AllInformed, Signal!Return, Signal!Goes
<1>. QED
  BY <1>1, <1>2, <1>3, <1>4, <1>5, <1>6, <1>7, <1>8 DEF Polling

\* A thread of the server: whenever it is not idle, the server is started.
LEMMA WorkerKeepsOrder ==
  ASSUME IInv, NEW w \in Workers, Accept(w) \/ Serve(w)
  PROVE  Order'
<1>1. /\ UNCHANGED <<signalVars, main, callbacks, informing>>
      /\ ~killed /\ Serving
      /\ \A v \in Workers : v # w => handling'[v] = handling[v]
  BY Applied DEF Accept, Serve, Request, Respond, Answer, WorkerGoes, shutdownVars,
                 IInv, Order, TypeOK, BusyWhileServing, Serving, Busy
<1>2. LogsAlone(w) /\ (using'[w] # None => handling'[w] # "idle")
  <2>1. CASE Accept(w) \/ Respond(w)
    <3>1. handling'[w] # "idle"
      BY <2>1, Applied DEF Accept, Respond, WorkerGoes, TypeOK
    <3>. QED
      BY <1>1, <2>1, <3>1, Takes DEF Accept, Respond, Connected, Serving
  <2>2. CASE Request(w) \/ Answer(w)
    BY <2>2, Writes DEF Request, Answer
  <2>. QED
    BY <2>1, <2>2 DEF Serve
<1>3. MainOwnsSignal' /\ CallbackInforms'
  BY <1>1 DEF IInv, Order, MainOwnsSignal, CallbackInforms, signalVars
<1>4. BusyWhileServing' /\ OnlyEarlyStopKillsRequests'
  BY <1>1 DEF BusyWhileServing, Serving, OnlyEarlyStopKillsRequests, signalVars
<1>5. LoggersStand'
  BY <1>1, <1>2 DEF IInv, Order, LoggersStand, LogsAlone
<1>6. WhoLogs'
  BY <1>1, <1>2, ThreadsDiffer DEF IInv, Order, WhoLogs, LogsAlone
<1>. QED
  BY <1>2, <1>3, <1>4, <1>5, <1>6 DEF Order, LogsAlone

\* SIGTERM sets the flag, or ends a process that handles no request.
LEMMA SignalKeepsOrder ==
  ASSUME IInv, Sigterm \/ UNCHANGED vars
  PROVE  Order'
<1>. USE DEF IInv, Order, MainOwnsSignal, CallbackInforms, Connected,
             BusyWhileServing, OnlyEarlyStopKillsRequests, Serving, Busy, LoggersStand, WhoLogs,
             LogsReachALiveLogger, shutdownVars, signalVars, serverVars, logVars
<1>1. CASE Sigterm
  BY <1>1 DEF Sigterm, Signal!Raise
<1>2. CASE UNCHANGED vars
  BY <1>2 DEF vars
<1>. QED
  BY <1>1, <1>2

LEMMA Inductive == IInv /\ [Next]_vars => IInv'
<1>. SUFFICES ASSUME IInv, [Next]_vars PROVE IInv'
  OBVIOUS
<1>1. SignalProofs!IInv'
  BY SignalPart, SignalSteps, SignalCrash DEF IInv
<1>2. TypeOK'
  BY <1>1, Types
<1>3. Order'
  BY MainKeepsOrder, PollingKeepsOrder, WorkerKeepsOrder, SignalKeepsOrder DEF Next, Finished
<1>. QED
  BY <1>1, <1>2, <1>3 DEF IInv

-----------------------------------------------------------------------------
\* The order in which main constructs and destroys the objects of the service
\* is kept by all threads.
THEOREM Invariance == Spec => []IInv
BY Initially, Inductive, PTL DEF Spec

\* Whoever logs writes to a logger that exists, although LogProvider guards
\* its pointer by nothing: the loggers outlive the polling thread, which the
\* destructor of GracefulShutdownOnSignal joins, and the threads of the server.
THEOREM NoDanglingLogger == Spec => []LogsReachALiveLogger
<1>1. IInv => LogsReachALiveLogger
  BY DEF IInv, Order
<1>. QED
  BY <1>1, Invariance, PTL

\* Requests outlive all signals: the process ends during one only if the gRPC
\* handler is asked to stop before it has assigned its server.
THEOREM RequestsDieOfEarlyStopOnly == Spec => []OnlyEarlyStopKillsRequests
<1>1. IInv => OnlyEarlyStopKillsRequests
  BY DEF IInv, Order
<1>. QED
  BY <1>1, Invariance, PTL

\* RequestShutdown iterates over a map that nobody changes meanwhile: handlers
\* are registered before the polling thread exists and unregistered after it.
THEOREM NoConcurrentRegistration == Spec => RegistryIsStable
<1>1. ASSUME IInv, [Next]_vars, poller[OnSignal] = "calling"
      PROVE  UNCHANGED callbacks
  <2>1. main \notin {"construct", "destroy"}
    BY <1>1, Applied DEF IInv, Order, MainOwnsSignal
  <2>2. ASSUME Main PROVE UNCHANGED callbacks
    BY <2>1, <2>2
       DEF Main, InvalidHandlerType, CallHandle, Listen, ListenFails, ListenEnds,
           BuildAndStart, BuildFails, AssignServer, Connect, Disconnect, Join, Exit,
           Register, Destroy, ConstructLogger, DestroyLogger, Crash, MainGoes, shutdownVars
  <2>3. ASSUME Polling PROVE UNCHANGED callbacks
    BY <2>3
       DEF Polling, RequestShutdown, Announced, LogNext, StopReturns, Inform,
           InformCrashes, AllInformed, Crash, shutdownVars
  <2>. QED
    BY <1>1, <2>2, <2>3
       DEF Next, Sigterm, Finished, vars, Accept, Serve, Request, Respond, Answer,
           WorkerGoes, shutdownVars
<1>. QED
  BY <1>1, Invariance, PTL DEF RegistryIsStable, Spec
=============================================================================
