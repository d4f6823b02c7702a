------------------------- MODULE SignalHandlerProofs -------------------------
(***************************************************************************)
(* Proofs about SignalHandler, for any number of objects and of signals.   *)
(* That no signal is answered twice is a matter of the one flag all        *)
(* objects share: a thread that may look at the flag finds it raised only  *)
(* when a signal has come since its last callback, because the thread      *)
(* itself clears the flag before it looks again.                           *)
(***************************************************************************)
EXTENDS SignalHandler, TLAPS

\* Where the thread of an object is agrees with the lifetime of the object.
ThreadLivesInObject ==
  \A h \in Handlers : /\ owner[h] = "unborn" => poller[h] = "none"
                      /\ owner[h] = "gone" => poller[h] = "ended"

\* The histories count no signal that was not raised.
HeardWereRaised == /\ signalRaised => raises > 0
                   /\ \A h \in Handlers : heard[h] <= raises

\* A thread that looks at the flag, or is about to, finds only signals raised
\* that it has not answered yet.
FlagIsHeard ==
  \A h \in Handlers :
    signalRaised /\ poller[h] \in {"loop", "test"} => heard[h] > 0

IInv == TypeOK /\ ThreadLivesInObject /\ HeardWereRaised /\ FlagIsHeard

LEMMA Initially == Init => IInv
<1>. SUFFICES ASSUME Init PROVE IInv
  OBVIOUS
<1>1. TypeOK
  <2>1. 0 \in 0 .. MaxRaises
    BY RaisesAssumption
  <2>. QED
    BY <2>1 DEF Init, TypeOK
<1>2. ThreadLivesInObject /\ HeardWereRaised /\ FlagIsHeard
  BY DEF Init, ThreadLivesInObject, HeardWereRaised, FlagIsHeard
<1>. QED
  BY <1>1, <1>2 DEF IInv

\* The signal handler sets the flag, for all objects at once.
LEMMA Raised ==
  ASSUME IInv, Raise
  PROVE  IInv'
<1>. USE DEF IInv, Raise
<1>1. TypeOK'
  <2>1. raises' \in 0 .. MaxRaises
    BY RaisesAssumption DEF TypeOK
  <2>2. heard' \in [Handlers -> 0 .. MaxRaises]
    <3>1. CASE disposition = "flag"
      <4>1. \A h \in Handlers : heard[h] \in Nat /\ heard[h] + 1 <= MaxRaises
        BY RaisesAssumption DEF TypeOK, HeardWereRaised
      <4>2. \A h \in Handlers : {heard[h], heard[h] + 1} \subseteq 0 .. MaxRaises
        BY <4>1, RaisesAssumption DEF TypeOK
      <4>. QED
        BY <3>1, <4>2
    <3>. QED
      BY <3>1 DEF TypeOK
  <2>. QED
    BY <2>1, <2>2 DEF TypeOK
<1>2. ThreadLivesInObject'
  BY DEF ThreadLivesInObject
<1>3. HeardWereRaised' /\ FlagIsHeard'
  <2>1. CASE disposition = "flag"
    <3>1. \A h \in Handlers :
            /\ heard'[h] \in {heard[h], heard[h] + 1}
            /\ poller[h] \in {"loop", "test"} => heard'[h] = heard[h] + 1
      BY <2>1 DEF TypeOK, ThreadLivesInObject
    <3>2. \A h \in Handlers : heard[h] \in Nat /\ heard[h] <= raises /\ raises \in Nat
      BY RaisesAssumption DEF TypeOK, HeardWereRaised
    <3>. QED
      BY <2>1, <3>1, <3>2, RaisesAssumption DEF TypeOK, HeardWereRaised, FlagIsHeard
  <2>2. CASE disposition # "flag"
    BY <2>2, RaisesAssumption DEF TypeOK, HeardWereRaised, FlagIsHeard
  <2>. QED
    BY <2>1, <2>2
<1>. QED
  BY <1>1, <1>2, <1>3

\* What the owner of an object and its thread do.
LEMMA Moved ==
  ASSUME IInv, NEW h \in Handlers,
         Construct(h) \/ BeginDestroy(h) \/ EndDestroy(h) \/ Poll(h) \/ Return(h)
  PROVE  IInv'
<1>. USE DEF IInv, Goes, Alive
<1>1. CASE Construct(h)
  <2>1. TypeOK'
    <3>1. (IF signalRaised THEN 1 ELSE 0) \in 0 .. MaxRaises
      BY RaisesAssumption DEF TypeOK, HeardWereRaised
    <3>. QED
      BY <1>1, <3>1 DEF Construct, TypeOK
  <2>2. ThreadLivesInObject'
    BY <1>1 DEF Construct, TypeOK, ThreadLivesInObject
  <2>3. HeardWereRaised' /\ FlagIsHeard'
    BY <1>1, RaisesAssumption DEF Construct, TypeOK, HeardWereRaised, FlagIsHeard
  <2>. QED
    BY <2>1, <2>2, <2>3
<1>2. CASE Call(h)
  <2>1. TypeOK'
    <3>1. 0 \in 0 .. MaxRaises
      BY RaisesAssumption
    <3>. QED
      BY <1>2, <3>1 DEF Call, TypeOK
  <2>2. ThreadLivesInObject'
    BY <1>2 DEF Call, TypeOK, ThreadLivesInObject
  <2>3. HeardWereRaised' /\ FlagIsHeard'
    BY <1>2, RaisesAssumption DEF Call, TypeOK, HeardWereRaised, FlagIsHeard
  <2>. QED
    BY <2>1, <2>2, <2>3
<1>3. ASSUME BeginDestroy(h) \/ EndDestroy(h) \/ Continue(h) \/ End(h)
               \/ Pass(h) \/ Clear(h) \/ Return(h)
      PROVE  IInv'
  <2>. USE DEF BeginDestroy, EndDestroy, Continue, End, Pass, Clear, Return
  <2>1. TypeOK'
    BY <1>3 DEF TypeOK
  <2>2. ThreadLivesInObject'
    BY <1>3 DEF TypeOK, ThreadLivesInObject
  <2>3. UNCHANGED <<raises, heard>> /\ (signalRaised' => signalRaised)
    BY <1>3 DEF TypeOK
  <2>4. HeardWereRaised'
    BY <2>3 DEF HeardWereRaised
  <2>5. FlagIsHeard'
    <3>1. CASE Clear(h)
      BY <3>1 DEF FlagIsHeard
    <3>2. CASE ~Clear(h)
      <4>1. /\ signalRaised' = signalRaised
            /\ \A g \in Handlers : poller'[g] \in {"loop", "test"} =>
                 poller[g] \in {"loop", "test"}
        BY <1>3, <3>2 DEF TypeOK
      <4>. QED
        BY <2>3, <4>1 DEF FlagIsHeard
    <3>. QED
      BY <3>1, <3>2
  <2>. QED
    BY <2>1, <2>2, <2>4, <2>5
<1>. QED
  BY <1>1, <1>2, <1>3 DEF Poll

LEMMA Inductive == IInv /\ [Next]_vars => IInv'
<1>. SUFFICES ASSUME IInv, [Next]_vars PROVE IInv'
  OBVIOUS
<1>1. CASE UNCHANGED vars
  BY <1>1 DEF vars, IInv, TypeOK, ThreadLivesInObject, HeardWereRaised, FlagIsHeard
<1>. QED
  BY <1>1, Raised, Moved DEF Next

\* The flag, the lifetimes and the threads keep to what the class allows, and
\* no more signals are counted than were raised.
THEOREM Invariance == Spec => []IInv
BY Initially, Inductive, PTL DEF Spec

\* The destructor of an object ends only after its thread has: no callback
\* runs on behalf of an object that is gone, however many objects there are.
THEOREM NoLateCallback == Spec => []NoCallbackAfterDestruction
<1>1. IInv => NoCallbackAfterDestruction
  BY DEF IInv, ThreadLivesInObject, NoCallbackAfterDestruction
<1>. QED
  BY <1>1, Invariance, PTL

\* An object begins its callback only for a signal that was raised since it
\* last began it, or that it found unanswered when it was created: none of the
\* objects that share the flag answers a signal twice.
THEOREM NoSecondAnswer == Spec => CallsOnlyWhenSignalled
<1>1. IInv => \A h \in Handlers : Call(h) => heard[h] > 0
  BY DEF IInv, FlagIsHeard, Call, Goes
<1>. QED
  BY <1>1, Invariance, PTL DEF CallsOnlyWhenSignalled
=============================================================================
