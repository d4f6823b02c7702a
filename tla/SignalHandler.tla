---------------------------- MODULE SignalHandler ----------------------------
(***************************************************************************)
(* SignalHandler objects for one system signal.  The disposition of the    *)
(* signal and the flag signalRaised belong to the process: all objects for *)
(* the signal share them.  Each object has a thread that polls the flag,   *)
(* runs the callback and clears the flag afterwards.                       *)
(***************************************************************************)
EXTENDS Naturals, FiniteSets

CONSTANTS Handlers,   \* the SignalHandler objects the process may create
          MaxRaises   \* bound: how often the signal is raised

ASSUME RaisesAssumption == MaxRaises \in Nat

VARIABLES disposition,  \* what the process does on the signal
          signalRaised, \* SignalCallbackHolder<S>::signalRaised
          owner,        \* lifetime of each object
          poller,       \* where callOnSignal of each object is
          destruct,     \* _requestDestruction of each object
          killed,       \* has the default action ended the process?
          raises,       \* signals raised so far (bounded by MaxRaises)
          heard         \* signals caught since the object was created or last
                        \* began its callback, and one that was unanswered when
                        \* it was created (history)

vars == <<disposition, signalRaised, owner, poller, destruct, killed, raises, heard>>

-----------------------------------------------------------------------------
TypeOK == /\ disposition \in {"default", "flag"}
          /\ signalRaised \in BOOLEAN
          /\ owner \in [Handlers -> {"unborn", "alive", "destroying", "gone"}]
          /\ poller \in [Handlers -> {"none", "loop", "test", "calling", "clear", "ended"}]
          /\ destruct \in [Handlers -> BOOLEAN]
          /\ killed \in BOOLEAN
          /\ raises \in 0 .. MaxRaises
          /\ heard \in [Handlers -> 0 .. MaxRaises]

\* The thread of h goes on, in a process that has not been ended.
Goes(h, from, to) == ~killed /\ poller[h] = from /\ poller' = [poller EXCEPT ![h] = to]

Alive(h) == owner[h] = "alive"

\* Mutants: slips the properties must catch.
NotClear(h) == /\ Goes(h, "clear", "loop")
               /\ UNCHANGED <<disposition, signalRaised, owner, destruct, killed, raises, heard>>
EndDestroyAtOnce(h) == /\ ~killed /\ owner[h] = "destroying"
                       /\ owner' = [owner EXCEPT ![h] = "gone"]
                       /\ UNCHANGED <<disposition, signalRaised, poller, destruct, killed, raises, heard>>
BeginDestroyQuietly(h) ==
  /\ ~killed /\ Alive(h)
  /\ owner' = [owner EXCEPT ![h] = "destroying"]
  /\ disposition' = "default"
  /\ UNCHANGED <<signalRaised, poller, destruct, killed, raises, heard>>
ClearInTest(h) == /\ Goes(h, "test", "loop")
                  /\ signalRaised' = FALSE
                  /\ UNCHANGED <<disposition, owner, destruct, killed, raises, heard>>

-----------------------------------------------------------------------------
Init == /\ disposition = "default"
        /\ signalRaised = FALSE
        /\ owner = [h \in Handlers |-> "unborn"]
        /\ poller = [h \in Handlers |-> "none"]
        /\ destruct = [h \in Handlers |-> FALSE]
        /\ killed = FALSE
        /\ raises = 0
        /\ heard = [h \in Handlers |-> 0]

\* The constructor installs the flag as disposition and starts the thread.
Construct(h) == /\ owner[h] = "unborn"
                /\ owner' = [owner EXCEPT ![h] = "alive"]
                /\ disposition' = "flag"
                /\ Goes(h, "none", "loop")
                /\ heard' = [heard EXCEPT ![h] = IF signalRaised THEN 1 ELSE 0]
                /\ UNCHANGED <<signalRaised, destruct, killed, raises>>

\* The signal arrives; the default action ends the process.
Raise == /\ ~killed
         /\ raises < MaxRaises
         /\ raises' = raises + 1
         /\ IF disposition = "flag"
            THEN /\ signalRaised' = TRUE
                 /\ heard' = [h \in Handlers |->
                             IF owner[h] \in {"alive", "destroying"} THEN heard[h] + 1 ELSE heard[h]]
                 /\ UNCHANGED killed
            ELSE /\ killed' = TRUE
                 /\ UNCHANGED <<signalRaised, heard>>
         /\ UNCHANGED <<disposition, owner, poller, destruct>>

\* while (_requestDestruction == false)
Continue(h) == /\ ~destruct[h]
               /\ Goes(h, "loop", "test")
               /\ UNCHANGED <<disposition, signalRaised, owner, destruct, killed, raises, heard>>

End(h) == /\ destruct[h]
          /\ Goes(h, "loop", "ended")
          /\ UNCHANGED <<disposition, signalRaised, owner, destruct, killed, raises, heard>>

\* if (signalRaised)
Call(h) == /\ signalRaised
           /\ Goes(h, "test", "calling")
           /\ heard' = [heard EXCEPT ![h] = 0]
           /\ UNCHANGED <<disposition, signalRaised, owner, destruct, killed, raises>>

Pass(h) == /\ ~signalRaised
           /\ Goes(h, "test", "loop")
           /\ UNCHANGED <<disposition, signalRaised, owner, destruct, killed, raises, heard>>

Return(h) == /\ Goes(h, "calling", "clear")
             /\ UNCHANGED <<disposition, signalRaised, owner, destruct, killed, raises, heard>>

Clear(h) == /\ Goes(h, "clear", "loop")
            /\ signalRaised' = FALSE
            /\ UNCHANGED <<disposition, owner, destruct, killed, raises, heard>>

\* The destructor restores the default disposition and asks the thread to
\* end; the future that is destroyed last waits for the thread.
BeginDestroy(h) == /\ ~killed /\ Alive(h)
                   /\ owner' = [owner EXCEPT ![h] = "destroying"]
                   /\ disposition' = "default"
                   /\ destruct' = [destruct EXCEPT ![h] = TRUE]
                   /\ UNCHANGED <<signalRaised, poller, killed, raises, heard>>

EndDestroy(h) == /\ ~killed /\ owner[h] = "destroying"
                 /\ poller[h] = "ended"
                 /\ owner' = [owner EXCEPT ![h] = "gone"]
                 /\ UNCHANGED <<disposition, signalRaised, poller, destruct, killed, raises, heard>>

\* callOnSignal, without the callback itself
Poll(h) == Continue(h) \/ End(h) \/ Call(h) \/ Pass(h) \/ Clear(h)

Next == \/ Raise
        \/ \E h \in Handlers : \/ Construct(h) \/ BeginDestroy(h) \/ EndDestroy(h)
                               \/ Poll(h) \/ Return(h)

Spec == Init /\ [][Next]_vars

\* The polling threads are scheduled, callbacks return, destructors end.
Fairness == \A h \in Handlers : /\ WF_vars(Poll(h))
                                /\ WF_vars(Return(h))
                                /\ WF_vars(EndDestroy(h))

FairSpec == Spec /\ Fairness

-----------------------------------------------------------------------------
\* Once its destructor is over, an object's callback does not run.
NoCallbackAfterDestruction ==
  \A h \in Handlers : owner[h] = "gone" => poller[h] = "ended"

\* No signal makes an object begin its callback twice: it takes a further one
\* that is raised meanwhile (or, for the first callback, one that was left
\* unanswered by objects that existed before).
CallsOnlyWhenSignalled ==
  [][\A h \in Handlers : Call(h) => heard[h] > 0]_vars

\* A caught signal is answered by a callback that begins after it, unless the
\* object is destroyed or the process ends.
EverySignalIsAnswered ==
  \A h \in Handlers : heard[h] > 0 ~> (heard[h] = 0 \/ ~Alive(h) \/ killed)

\* A signal that is caught while no thread is in its callback, nor about to
\* clear the flag after it, is answered unless all objects are destroyed before.
Quiet == \A h \in Handlers : poller[h] \notin {"calling", "clear"}
QuietSignalIsAnswered ==
  (signalRaised /\ Quiet /\ \E h \in Handlers : Alive(h))
    ~> ((\E h \in Handlers : poller[h] = "calling") \/ (\A h \in Handlers : ~Alive(h)) \/ killed)
=============================================================================
