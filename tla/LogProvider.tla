----------------------------- MODULE LogProvider -----------------------------
(***************************************************************************)
(* The LogProvider singleton and the loggers that register with it while   *)
(* they are constructed (ConsoleLogger, StructuredLogger).  The singleton  *)
(* keeps a plain pointer to the logger that was constructed last, and any  *)
(* logger that is destroyed resets it.  There is no lock: a thread that    *)
(* logs takes the pointer, and writes to the logger in a step of its own.  *)
(***************************************************************************)
CONSTANTS Loggers,   \* the loggers of the program
          Backends,  \* _logger_backend of each, None for a ConsoleLogger
          Threads,   \* the threads that log
          None,      \* nullptr
          Discard    \* the DiscardLogger of GetLogger

VARIABLES alive,   \* the loggers that exist
          logger,  \* LogProvider::_logger
          using    \* the logger each thread is writing to

vars == <<alive, logger, using>>

TypeOK == /\ alive \subseteq Loggers
          /\ logger \in Loggers \cup {None}
          /\ using \in [Threads -> Loggers \cup {None, Discard}]

-----------------------------------------------------------------------------
\* SetLogger, as AutoRegistration calls it while a logger is constructed and
\* destroyed.  The registration is undone even if another logger was
\* registered since.
Register(l) == logger' = l
UnRegister == logger' = None

Init == /\ alive = {}
        /\ logger = None
        /\ using = [t \in Threads |-> None]

\* A StructuredLogger refers to its backend, which must exist.
Construct(l) == /\ l \notin alive
                /\ Backends[l] \in alive \cup {None}
                /\ alive' = alive \cup {l}
                /\ Register(l)
                /\ UNCHANGED using

\* The program's obligation: no StructuredLogger outlives its backend.
Destroy(l) == /\ l \in alive
              /\ \A x \in alive : Backends[x] # l
              /\ alive' = alive \ {l}
              /\ UnRegister
              /\ UNCHANGED using

GetLogger(t) == /\ using[t] = None
                /\ using' = [using EXCEPT ![t] = IF logger = None THEN Discard ELSE logger]
                /\ UNCHANGED <<alive, logger>>

\* Write returns.
Written(t) == /\ using[t] # None
              /\ using' = [using EXCEPT ![t] = None]
              /\ UNCHANGED <<alive, logger>>

Next == \/ \E l \in Loggers : Construct(l) \/ Destroy(l)
        \/ \E t \in Threads : GetLogger(t) \/ Written(t)

Spec == Init /\ [][Next]_vars
=============================================================================
