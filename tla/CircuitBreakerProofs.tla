------------------------ MODULE CircuitBreakerProofs ------------------------
(***************************************************************************)
(* Proofs about CircuitBreaker.  The inductive invariant is the type       *)
(* invariant together with the two counting invariants: that the counter   *)
(* is exact is what bounds the admitted calls, and the bound on places is  *)
(* what keeps the counter from wrapping around.                            *)
(***************************************************************************)
EXTENDS CircuitBreaker, FiniteSetTheorems, TLAPS

\* Adding a new element to a finite set, as Count and CheckClosed do.
LEMMA Joining ==
  ASSUME NEW S, NEW T, NEW t, IsFiniteSet(S), t \notin S, T = S \cup {t}
  PROVE  Cardinality(T) = Cardinality(S) + 1 /\ Cardinality(S) \in Nat
BY FS_AddElement, FS_CardinalityType

\* Removing an element from a finite set, as the ends of a call do.
LEMMA Leaving ==
  ASSUME NEW S, NEW T, NEW t, IsFiniteSet(S), t \in S, T = S \ {t}
  PROVE  /\ Cardinality(T) = Cardinality(S) - 1
         /\ Cardinality(S) \in Nat /\ Cardinality(T) \in Nat
BY FS_RemoveElement, FS_CardinalityType, FS_Subset

\* The sets the invariants count are finite, and admitted calls are in flight.
LEMMA Counts ==
  ASSUME NEW n \in Names
  PROVE  /\ IsFiniteSet(InFlight(n)) /\ IsFiniteSet(Admitted(n))
         /\ Cardinality(InFlight(n)) \in Nat /\ Cardinality(Admitted(n)) \in Nat
         /\ Cardinality(InFlight(n)) <= Cardinality(Threads)
<1>1. InFlight(n) \subseteq Threads /\ Admitted(n) \subseteq Threads
  BY DEF InFlight, Admitted
<1>2. QED
  BY <1>1, ThreadsAssumption, FS_Subset, FS_CardinalityType

\* The counters stay within uint32_t and every thread is at one of the
\* locations of Process, whatever the function does to status and context.
THEOREM TypeCorrect == Spec => []TypeOK
<1>1. Init => TypeOK
  <2>1. 0 \in 0 .. CounterModulus - 1
    BY WidthAssumption, LimitAssumption, ThreadsAssumption, FS_CardinalityType
  <2>. QED
    BY <2>1 DEF Init, TypeOK, Locations
<1>2. TypeOK /\ [Next]_vars => TypeOK'
  <2>. SUFFICES ASSUME TypeOK, [Next]_vars PROVE TypeOK'
    OBVIOUS
  <2>. USE DEF TypeOK, Locations, At
  <2>0. \A x \in 0 .. CounterModulus - 1 :
          /\ Incremented(x) \in 0 .. CounterModulus - 1
          /\ Decremented(x) \in 0 .. CounterModulus - 1
    BY WidthAssumption DEF Incremented, Decremented
  <2>1. ASSUME NEW t \in Threads, NEW n \in Names, Arrive(t, n) PROVE TypeOK'
    BY <2>1 DEF Arrive
  <2>2. ASSUME NEW t \in Threads, Count(t) PROVE TypeOK'
    BY <2>0, <2>2 DEF Count
  <2>3. ASSUME NEW t \in Threads, CheckClosed(t) \/ CheckOpen(t) PROVE TypeOK'
    BY <2>3 DEF CheckClosed, CheckOpen
  <2>4. ASSUME NEW t \in Threads, Reject(t) \/ Uncount(t) PROVE TypeOK'
    BY <2>0, <2>4 DEF Reject, Uncount, Release
  <2>5. ASSUME NEW t \in Threads, NEW o \in Outcomes, NEW n \in Names, FuncEnds(t, o, n)
        PROVE TypeOK'
    BY <2>5 DEF FuncEnds
  <2>6. ASSUME NEW t \in Threads, NEW o \in Outcomes, FuncEndsInvalid(t, o)
        PROVE TypeOK'
    BY <2>0, <2>6 DEF FuncEndsInvalid
  <2>7. CASE UNCHANGED vars
    BY <2>7 DEF vars
  <2>. QED
    BY <2>1, <2>2, <2>3, <2>4, <2>5, <2>6, <2>7 DEF Next, Proceed, Func
<1>. QED
  BY <1>1, <1>2, PTL DEF Spec

-----------------------------------------------------------------------------
IInv == TypeOK /\ PendingCountsCalls /\ PlacesAreBounded

\* Under the invariant no counter is near its width or below a call it counts.
LEMMA NoWrap ==
  ASSUME IInv, ~renamed, NEW t \in Threads
  PROVE  /\ pc[t] = "arrived" => Incremented(pending[key[t]]) = pending[key[t]] + 1
         /\ pc[t] = "func" => Incremented(lost[key[t]]) = lost[key[t]] + 1
         /\ pc[t] \in {"open", "post"} =>
              Decremented(pending[key[t]]) = pending[key[t]] - 1
<1>. DEFINE n == key[t]
<1>. USE DEF IInv, TypeOK
<1>1. /\ n \in Names /\ pending[n] \in Nat /\ lost[n] \in Nat
      /\ pending[n] = Cardinality(InFlight(n)) + lost[n]
      /\ Cardinality(Admitted(n)) + lost[n] <= MaxPending
  BY DEF PendingCountsCalls, PlacesAreBounded
<1>2. CASE pc[t] = "arrived"
  <2>1. InFlight(n) \subseteq Threads \ {t}
    BY <1>2 DEF InFlight
  <2>2. Cardinality(InFlight(n)) <= Cardinality(Threads) - 1
    BY <2>1, ThreadsAssumption, FS_RemoveElement, FS_Subset, FS_CardinalityType
  <2>3. pending[n] < CounterModulus - 1
    BY <1>1, <2>2, Counts, ThreadsAssumption, FS_CardinalityType,
       LimitAssumption, WidthAssumption
  <2>. QED
    BY <1>2, <2>3 DEF Incremented
<1>3. CASE pc[t] \in {"open", "post"}
  <2>1. t \in InFlight(n)
    BY <1>3 DEF InFlight
  <2>2. Cardinality(InFlight(n)) # 0
    BY <2>1, Counts, <1>1, FS_EmptySet
  <2>. QED
    BY <1>1, <1>3, <2>2, Counts DEF Decremented
<1>4. CASE pc[t] = "func"
  <2>1. t \in Admitted(n)
    BY <1>4 DEF Admitted
  <2>2. Cardinality(Admitted(n)) # 0
    BY <2>1, Counts, <1>1, FS_EmptySet
  <2>3. lost[n] < MaxPending
    BY <1>1, <2>2, Counts, LimitAssumption
  <2>4. lost[n] # CounterModulus - 1
    BY <1>1, <2>3, LimitAssumption, WidthAssumption, ThreadsAssumption, FS_CardinalityType
  <2>. QED
    BY <1>4, <2>4 DEF Incremented
<1>. QED
  BY <1>2, <1>3, <1>4

\* Every step of Process keeps the counters exact and the places bounded,
\* as long as functions leave the context's "request" entry alone.
LEMMA Inductive ==
  ASSUME IInv, TypeOK', [Next]_vars
  PROVE  PendingCountsCalls' /\ PlacesAreBounded'
<1>. SUFFICES ASSUME ~renamed'  PROVE PendingCountsCalls' /\ PlacesAreBounded'
  BY DEF PendingCountsCalls, PlacesAreBounded
<1>0. ~renamed
  BY DEF Next, vars, Proceed, Func, Arrive, Count, CheckClosed, CheckOpen, Reject,
         Uncount, FuncEnds, FuncEndsInvalid
<1>. USE <1>0 DEF IInv, TypeOK
<1>1. ASSUME NEW t \in Threads, NEW m \in Names, Arrive(t, m)
      PROVE  PendingCountsCalls' /\ PlacesAreBounded'
  <2>1. ASSUME NEW n \in Names
        PROVE  InFlight(n)' = InFlight(n) /\ Admitted(n)' = Admitted(n)
    BY <1>1 DEF Arrive, At, InFlight, Admitted
  <2>. QED
    BY <1>1, <2>1 DEF Arrive, PendingCountsCalls, PlacesAreBounded
<1>2. ASSUME NEW t \in Threads, Count(t)
      PROVE  PendingCountsCalls' /\ PlacesAreBounded'
  <2>1. pending' = [pending EXCEPT ![key[t]] = pending[key[t]] + 1]
    BY <1>2, NoWrap DEF Count, At
  <2>2. ASSUME NEW n \in Names PROVE Admitted(n)' = Admitted(n)
    BY <1>2 DEF Count, At, Admitted
  <2>3. ASSUME NEW n \in Names, n # key[t] PROVE InFlight(n)' = InFlight(n)
    BY <1>2, <2>3 DEF Count, At, InFlight
  <2>4. /\ t \notin InFlight(key[t])
        /\ InFlight(key[t])' = InFlight(key[t]) \cup {t}
    BY <1>2 DEF Count, At, InFlight
  <2>5. Cardinality(InFlight(key[t]))' = Cardinality(InFlight(key[t])) + 1
    BY <2>4, Counts, Joining
  <2>6. key' = key /\ lost' = lost
    BY <1>2 DEF Count
  <2>7. ASSUME NEW n \in Names
        PROVE  pending'[n] = Cardinality(InFlight(n))' + lost[n]
    <3>1. pending[n] = Cardinality(InFlight(n)) + lost[n]
      BY DEF PendingCountsCalls
    <3>2. CASE n = key[t]
      <4>1. Cardinality(InFlight(n))' = Cardinality(InFlight(n)) + 1
        BY <2>5, <2>6, <3>2
      <4>. QED
        BY <2>1, <3>1, <3>2, <4>1, Counts
    <3>3. CASE n # key[t]
      BY <2>1, <2>3, <3>1, <3>3
    <3>. QED
      BY <3>2, <3>3
  <2>. QED
    BY <2>2, <2>6, <2>7 DEF PendingCountsCalls, PlacesAreBounded
<1>3. ASSUME NEW t \in Threads, CheckClosed(t)
      PROVE  PendingCountsCalls' /\ PlacesAreBounded'
  <2>1. ASSUME NEW n \in Names PROVE InFlight(n)' = InFlight(n)
    BY <1>3 DEF CheckClosed, At, InFlight
  <2>2. ASSUME NEW n \in Names, n # key[t] PROVE Admitted(n)' = Admitted(n)
    BY <1>3, <2>2 DEF CheckClosed, At, Admitted
  <2>3. /\ t \notin Admitted(key[t]) /\ t \in InFlight(key[t])
        /\ Admitted(key[t])' = Admitted(key[t]) \cup {t}
        /\ Admitted(key[t]) \subseteq InFlight(key[t]) \ {t}
    BY <1>3 DEF CheckClosed, At, Admitted, InFlight
  <2>4. Cardinality(Admitted(key[t]))' = Cardinality(Admitted(key[t])) + 1
    BY <2>3, Counts, Joining
  <2>5. Cardinality(Admitted(key[t])) + 1 <= Cardinality(InFlight(key[t]))
    <3>1. Cardinality(InFlight(key[t]) \ {t}) = Cardinality(InFlight(key[t])) - 1
      BY <2>3, Counts, Leaving
    <3>2. Cardinality(Admitted(key[t])) <= Cardinality(InFlight(key[t]) \ {t})
      BY <2>3, Counts, FS_RemoveElement, FS_Subset
    <3>. QED
      BY <3>1, <3>2, Counts
  <2>6. Cardinality(InFlight(key[t])) + lost[key[t]] <= MaxPending
    BY <1>3, LimitAssumption, WidthAssumption
       DEF CheckClosed, IsOpen, PendingCountsCalls
  <2>7. Cardinality(Admitted(key[t]))' + lost[key[t]] <= MaxPending
    BY <2>4, <2>5, <2>6, Counts, LimitAssumption
  <2>. QED
    BY <1>3, <2>1, <2>2, <2>7 DEF CheckClosed, PendingCountsCalls, PlacesAreBounded
<1>4. ASSUME NEW t \in Threads, CheckOpen(t)
      PROVE  PendingCountsCalls' /\ PlacesAreBounded'
  <2>1. ASSUME NEW n \in Names
        PROVE  InFlight(n)' = InFlight(n) /\ Admitted(n)' = Admitted(n)
    BY <1>4 DEF CheckOpen, At, InFlight, Admitted
  <2>. QED
    BY <1>4, <2>1 DEF CheckOpen, PendingCountsCalls, PlacesAreBounded
<1>5. ASSUME NEW t \in Threads, Reject(t)
      PROVE  PendingCountsCalls' /\ PlacesAreBounded'
  <2>1. pending' = [pending EXCEPT ![key[t]] = pending[key[t]] - 1]
    BY <1>5, NoWrap DEF Reject, Release, At
  <2>2. ASSUME NEW n \in Names PROVE Admitted(n)' = Admitted(n)
    BY <1>5 DEF Reject, At, Admitted
  <2>3. ASSUME NEW n \in Names, n # key[t] PROVE InFlight(n)' = InFlight(n)
    BY <1>5, <2>3 DEF Reject, At, InFlight
  <2>4. t \in InFlight(key[t]) /\ InFlight(key[t])' = InFlight(key[t]) \ {t}
    BY <1>5 DEF Reject, At, InFlight
  <2>5. Cardinality(InFlight(key[t]))' = Cardinality(InFlight(key[t])) - 1
    BY <2>4, Counts, Leaving
  <2>. QED
    BY <1>5, <2>1, <2>2, <2>3, <2>5, Counts
       DEF Reject, PendingCountsCalls, PlacesAreBounded
<1>6. ASSUME NEW t \in Threads, NEW o \in Outcomes, NEW m \in Names, FuncEnds(t, o, m)
      PROVE  PendingCountsCalls' /\ PlacesAreBounded'
  <2>1. key' = key
    BY <1>6 DEF FuncEnds
  <2>2. ASSUME NEW n \in Names
        PROVE  InFlight(n)' = InFlight(n) /\ Admitted(n)' = Admitted(n)
    BY <1>6, <2>1 DEF FuncEnds, At, InFlight, Admitted
  <2>. QED
    BY <1>6, <2>2 DEF FuncEnds, PendingCountsCalls, PlacesAreBounded
<1>7. ASSUME NEW t \in Threads, NEW o \in Outcomes, FuncEndsInvalid(t, o)
      PROVE  PendingCountsCalls' /\ PlacesAreBounded'
  <2>1. ASSUME NEW n \in Names, n # key[t]
        PROVE  InFlight(n)' = InFlight(n) /\ Admitted(n)' = Admitted(n)
    BY <1>7, <2>1 DEF FuncEndsInvalid, At, InFlight, Admitted
  <2>2. /\ t \in InFlight(key[t]) /\ InFlight(key[t])' = InFlight(key[t]) \ {t}
        /\ t \in Admitted(key[t]) /\ Admitted(key[t])' = Admitted(key[t]) \ {t}
    BY <1>7 DEF FuncEndsInvalid, At, InFlight, Admitted
  <2>3. /\ Cardinality(InFlight(key[t]))' = Cardinality(InFlight(key[t])) - 1
        /\ Cardinality(Admitted(key[t]))' = Cardinality(Admitted(key[t])) - 1
    BY <2>2, Counts, Leaving
  <2>4. ASSUME NEW n \in Names
        PROVE  /\ lost'[n] = IF n = key[t] THEN lost[n] + 1 ELSE lost[n]
               /\ pending'[n] = pending[n]
    BY <1>7, NoWrap DEF FuncEndsInvalid, At
  <2>5. ASSUME NEW n \in Names
        PROVE  /\ pending'[n] = Cardinality(InFlight(n))' + lost'[n]
               /\ Cardinality(Admitted(n))' + lost'[n] <= MaxPending
    <3>1. /\ pending[n] = Cardinality(InFlight(n)) + lost[n]
          /\ Cardinality(Admitted(n)) + lost[n] <= MaxPending
      BY DEF PendingCountsCalls, PlacesAreBounded
    <3>2. CASE n = key[t]
      <4>1. key'[t] = n
        BY <1>7, <3>2 DEF FuncEndsInvalid
      <4>2. /\ Cardinality(InFlight(n))' = Cardinality(InFlight(n)) - 1
            /\ Cardinality(Admitted(n))' = Cardinality(Admitted(n)) - 1
        BY <2>3, <3>2, <4>1
      <4>. QED
        BY <2>4, <3>1, <3>2, <4>2, Counts, LimitAssumption
    <3>3. CASE n # key[t]
      BY <2>1, <2>4, <3>1, <3>3
    <3>. QED
      BY <3>2, <3>3
  <2>. QED
    BY <2>5 DEF PendingCountsCalls, PlacesAreBounded
<1>8. ASSUME NEW t \in Threads, Uncount(t)
      PROVE  PendingCountsCalls' /\ PlacesAreBounded'
  <2>1. pending' = [pending EXCEPT ![key[t]] = pending[key[t]] - 1]
    BY <1>8, NoWrap DEF Uncount, Release, At
  <2>2. ASSUME NEW n \in Names, n # key[t]
        PROVE  InFlight(n)' = InFlight(n) /\ Admitted(n)' = Admitted(n)
    BY <1>8, <2>2 DEF Uncount, At, InFlight, Admitted
  <2>3. /\ t \in InFlight(key[t]) /\ InFlight(key[t])' = InFlight(key[t]) \ {t}
        /\ t \in Admitted(key[t]) /\ Admitted(key[t])' = Admitted(key[t]) \ {t}
    BY <1>8 DEF Uncount, At, InFlight, Admitted
  <2>4. /\ Cardinality(InFlight(key[t]))' = Cardinality(InFlight(key[t])) - 1
        /\ Cardinality(Admitted(key[t]))' = Cardinality(Admitted(key[t])) - 1
    BY <2>3, Counts, Leaving
  <2>5. PendingCountsCalls'
    BY <1>8, <2>1, <2>2, <2>4, Counts DEF Uncount, PendingCountsCalls
  <2>6. PlacesAreBounded'
    BY <1>8, <2>2, <2>4, Counts, LimitAssumption DEF Uncount, PlacesAreBounded
  <2>. QED
    BY <2>5, <2>6
<1>9. CASE UNCHANGED vars
  BY <1>9 DEF vars, PendingCountsCalls, PlacesAreBounded, InFlight, Admitted
<1>. QED
  BY <1>1, <1>2, <1>3, <1>4, <1>5, <1>6, <1>7, <1>8, <1>9 DEF Next, Proceed, Func

\* The counters are exact, no counter wraps around, and no request name ever
\* has more than MaxPending calls past the breaker: for any number of threads,
\* names and places, and even if some calls skip post_process.
THEOREM CountingCorrect == Spec => [](PendingCountsCalls /\ PlacesAreBounded)
<1>1. Init => PendingCountsCalls /\ PlacesAreBounded
  <2>. SUFFICES ASSUME Init, NEW n \in Names
       PROVE  /\ pending[n] = Cardinality(InFlight(n)) + lost[n]
              /\ Cardinality(Admitted(n)) + lost[n] <= MaxPending
    BY DEF PendingCountsCalls, PlacesAreBounded
  <2>1. InFlight(n) = {} /\ Admitted(n) = {}
    BY DEF Init, InFlight, Admitted
  <2>. QED
    BY <2>1, FS_EmptySet, LimitAssumption DEF Init
<1>2. TypeOK /\ TypeOK' /\ PendingCountsCalls /\ PlacesAreBounded /\ [Next]_vars
        => PendingCountsCalls' /\ PlacesAreBounded'
  BY Inductive DEF IInv
<1>. QED
  BY <1>1, <1>2, TypeCorrect, PTL DEF Spec

\* Of each request name never more than MaxPending calls are past the breaker
\* or have lost their places there.
THEOREM CapacityRespected == Spec => []PlacesAreBounded
<1>. QED
  BY CountingCorrect, PTL

\* A call is rejected only while more than MaxPending calls of the same name
\* are in flight or have lost their places, for any number of threads and names.
THEOREM RejectionJustified == Spec => RejectedOnlyUnderLoad
<1>1. TypeOK /\ PendingCountsCalls /\ [Next]_vars
        => [\A t \in Threads :
              CheckOpen(t) /\ ~renamed
                => Cardinality(InFlight(key[t])) + lost[key[t]] > MaxPending]_vars
  BY DEF CheckOpen, IsOpen, TypeOK, PendingCountsCalls
<1>. QED
  BY <1>1, TypeCorrect, CountingCorrect, PTL DEF Spec, RejectedOnlyUnderLoad

-----------------------------------------------------------------------------
(* Renamed or not, the counters together stay right                        *)

LEMMA Multiple ==
  ASSUME NEW m \in Nat, m > 0, NEW q \in Int
  PROVE  (q * m) % m = 0
OBVIOUS

LEMMA Congruent ==
  ASSUME NEW m \in Nat, m > 0, NEW a \in Int, a % m = 0
  PROVE  (a + m) % m = 0 /\ (a - m) % m = 0
<1>1. PICK q \in Int : a = q * m
  OBVIOUS
<1>2. a + m = (q + 1) * m /\ a - m = (q - 1) * m /\ q + 1 \in Int /\ q - 1 \in Int
  BY <1>1
<1>. QED
  BY <1>2, Multiple

Counters == [Names -> 0 .. CounterModulus - 1]

LEMMA UnitsFinite ==
  ASSUME NEW f \in Counters
  PROVE  IsFiniteSet(Units(f)) /\ Cardinality(Units(f)) \in Nat
<1>1. IsFiniteSet(1 .. CounterModulus - 1)
  <2>1. CounterModulus - 1 \in Int
    BY WidthAssumption
  <2>. QED
    BY <2>1, FS_Interval
<1>2. IsFiniteSet(Names \X (1 .. CounterModulus - 1))
  BY <1>1, NamesAssumption, FS_Product
<1>3. Units(f) \subseteq Names \X (1 .. CounterModulus - 1)
  BY DEF Units
<1>. QED
  BY <1>2, <1>3, FS_Subset, FS_CardinalityType

\* An incremented counter holds one unit more, or has given up all of its units.
LEMMA Raising ==
  ASSUME NEW f \in Counters, NEW n \in Names, NEW g, g = [f EXCEPT ![n] = Incremented(f[n])]
  PROVE  /\ g \in Counters
         /\ \/ Cardinality(Units(g)) = Cardinality(Units(f)) + 1
            \/ Cardinality(Units(g)) = Cardinality(Units(f)) + 1 - CounterModulus
<1>. DEFINE m == CounterModulus
<1>0. m \in Nat /\ m > 0 /\ f[n] \in 0 .. m - 1
  BY WidthAssumption, LimitAssumption, ThreadsAssumption, FS_CardinalityType DEF Counters
<1>1. g \in Counters
  BY <1>0 DEF Counters, Incremented
<1>2. IsFiniteSet(Units(f)) /\ IsFiniteSet(Units(g))
  BY <1>1, UnitsFinite
<1>3. CASE f[n] = m - 1
  <2>. DEFINE all == {n} \X (1 .. m - 1)
  <2>1. g[n] = 0 /\ \A k \in Names : k # n => g[k] = f[k]
    BY <1>0, <1>3 DEF Incremented, Counters
  <2>2. Units(f) = Units(g) \cup all
    BY <1>0, <1>3, <2>1 DEF Units
  <2>3. Units(g) \cap all = {}
    BY <1>0, <2>1 DEF Units
  <2>4. IsFiniteSet(all) /\ Cardinality(all) = m - 1
    <3>1. IsFiniteSet({n}) /\ Cardinality({n}) = 1
      BY FS_Singleton
    <3>2. IsFiniteSet(1 .. m - 1) /\ Cardinality(1 .. m - 1) = m - 1
      BY <1>0, FS_Interval
    <3>3. IsFiniteSet(all) /\ Cardinality(all) = Cardinality({n}) * Cardinality(1 .. m - 1)
      BY <3>1, <3>2, FS_Product
    <3>. QED
      BY <1>0, <3>1, <3>2, <3>3
  <2>. HIDE DEF all
  <2>5. Cardinality(Units(f)) = Cardinality(Units(g)) + Cardinality(all) - 0
    <3>1. Cardinality(Units(g) \cap all) = 0
      BY <2>3, FS_EmptySet
    <3>2. Cardinality(Units(g) \cup all)
            = Cardinality(Units(g)) + Cardinality(all) - Cardinality(Units(g) \cap all)
      BY <1>2, <2>4, FS_Union
    <3>. QED
      BY <2>2, <3>1, <3>2
  <2>6. Cardinality(Units(f)) \in Nat /\ Cardinality(Units(g)) \in Nat
    BY <1>1, UnitsFinite
  <2>. QED
    BY <1>0, <1>1, <2>4, <2>5, <2>6
<1>4. CASE f[n] # m - 1
  <2>1. g[n] = f[n] + 1 /\ \A k \in Names : k # n => g[k] = f[k]
    BY <1>0, <1>4 DEF Incremented, Counters
  <2>2. Units(g) = Units(f) \cup {<<n, f[n] + 1>>}
    <3>1. \A k \in Names, i \in 1 .. m - 1 :
            <<k, i>> \in Units(g) <=> <<k, i>> \in Units(f) \/ (k = n /\ i = f[n] + 1)
      BY <1>0, <2>1 DEF Units, Counters
    <3>2. f[n] + 1 \in 1 .. m - 1
      BY <1>0, <1>4
    <3>3. /\ Units(g) \subseteq Names \X (1 .. m - 1)
          /\ Units(f) \subseteq Names \X (1 .. m - 1)
          /\ <<n, f[n] + 1>> \in Names \X (1 .. m - 1)
      BY <3>2 DEF Units
    <3>4. ASSUME NEW u \in Names \X (1 .. m - 1)
          PROVE  u \in Units(g) <=> u \in Units(f) \cup {<<n, f[n] + 1>>}
      <4>1. PICK k \in Names, i \in 1 .. m - 1 : u = <<k, i>>
        OBVIOUS
      <4>2. u = <<n, f[n] + 1>> <=> k = n /\ i = f[n] + 1
        BY <4>1
      <4>. QED
        BY <3>1, <4>1, <4>2
    <3>. QED
      BY <3>3, <3>4
  <2>3. <<n, f[n] + 1>> \notin Units(f)
    BY <1>0 DEF Units
  <2>. QED
    BY <1>1, <1>2, <2>2, <2>3, Joining
<1>. QED
  BY <1>3, <1>4

\* A decremented counter is one that was incremented.
LEMMA Lowering ==
  ASSUME NEW f \in Counters, NEW n \in Names, NEW g, g = [f EXCEPT ![n] = Decremented(f[n])]
  PROVE  /\ g \in Counters
         /\ \/ Cardinality(Units(f)) = Cardinality(Units(g)) + 1
            \/ Cardinality(Units(f)) = Cardinality(Units(g)) + 1 - CounterModulus
<1>0. CounterModulus \in Nat /\ CounterModulus > 0 /\ f[n] \in 0 .. CounterModulus - 1
  BY WidthAssumption, LimitAssumption, ThreadsAssumption, FS_CardinalityType DEF Counters
<1>1. g \in Counters
  BY <1>0 DEF Counters, Decremented
<1>2. f = [g EXCEPT ![n] = Incremented(g[n])]
  <2>1. Incremented(g[n]) = f[n]
    BY <1>0 DEF Counters, Decremented, Incremented
  <2>. QED
    BY <2>1 DEF Counters
<1>. QED
  BY <1>1, <1>2, Raising

LEMMA CountedFinite == IsFiniteSet(Counted) /\ Cardinality(Counted) \in Nat
BY ThreadsAssumption, FS_Subset, FS_CardinalityType DEF Counted

\* Whatever a step does, all counters together follow the calls.
LEMMA Conserved ==
  ASSUME TypeOK, CountsAreConserved, [Next]_vars
  PROVE  CountsAreConserved'
<1>. DEFINE m == CounterModulus
            a == Cardinality(Units(pending))
            b == Cardinality(Units(lost))
            c == Cardinality(Counted)
<1>1. m \in Nat /\ m > 0
  BY WidthAssumption, LimitAssumption, ThreadsAssumption, FS_CardinalityType
<1>2. pending \in Counters /\ lost \in Counters /\ key \in [Threads -> Names]
  BY DEF TypeOK, Counters
<1>3. a \in Nat /\ b \in Nat /\ c \in Nat /\ (a - b - c) % m = 0
  BY <1>2, UnitsFinite, CountedFinite DEF CountsAreConserved
<1>4. SUFFICES \/ a' - b' - c' = a - b - c
               \/ a' - b' - c' = (a - b - c) + m
               \/ a' - b' - c' = (a - b - c) - m
  <2>. HIDE DEF m, a, b, c
  <2>1. ((a - b - c) + m) % m = 0 /\ ((a - b - c) - m) % m = 0
    <3>1. a - b - c \in Int
      BY <1>3
    <3>. QED
      BY <1>1, <1>3, <3>1, Congruent
  <2>2. (a' - b' - c') % m = 0
    BY <1>3, <1>4, <2>1
  <2>. QED
    BY <2>2 DEF CountsAreConserved, m, a, b, c
<1>5. ASSUME UNCHANGED <<pending, lost>>, Counted' = Counted
      PROVE  a' - b' - c' = a - b - c
  BY <1>5 DEF Units
<1>6. ASSUME NEW t \in Threads, Count(t)
      PROVE  \/ a' - b' - c' = a - b - c
             \/ a' - b' - c' = (a - b - c) - m
  <2>1. t \notin Counted /\ Counted' = Counted \cup {t}
    BY <1>6 DEF Count, At, Counted, TypeOK
  <2>2. c' = c + 1
    BY <2>1, CountedFinite, Joining
  <2>3. b' = b /\ pending' = [pending EXCEPT ![key[t]] = Incremented(pending[key[t]])]
    BY <1>6 DEF Count
  <2>4. a' = a + 1 \/ a' = a + 1 - m
    BY <1>2, <2>3, Raising
  <2>. QED
    BY <1>1, <1>3, <2>2, <2>3, <2>4
<1>7. ASSUME NEW t \in Threads, Reject(t) \/ Uncount(t)
      PROVE  \/ a' - b' - c' = a - b - c
             \/ a' - b' - c' = (a - b - c) + m
  <2>1. t \in Counted /\ Counted' = Counted \ {t}
    BY <1>7 DEF Reject, Uncount, At, Counted, TypeOK
  <2>2. c' = c - 1
    BY <2>1, CountedFinite, Leaving
  <2>3. b' = b /\ pending' = [pending EXCEPT ![key[t]] = Decremented(pending[key[t]])]
    BY <1>7 DEF Reject, Uncount, Release
  <2>4. pending' \in Counters /\ (a = a' + 1 \/ a = a' + 1 - m)
    BY <1>2, <2>3, Lowering
  <2>5. a' \in Nat
    BY <2>4, UnitsFinite
  <2>. QED
    BY <1>1, <1>3, <2>2, <2>3, <2>4, <2>5
<1>8. ASSUME NEW t \in Threads, NEW o \in Outcomes, FuncEndsInvalid(t, o)
      PROVE  \/ a' - b' - c' = a - b - c
             \/ a' - b' - c' = (a - b - c) + m
  <2>1. t \in Counted /\ Counted' = Counted \ {t}
    BY <1>8 DEF FuncEndsInvalid, At, Counted, TypeOK
  <2>2. c' = c - 1
    BY <2>1, CountedFinite, Leaving
  <2>3. a' = a /\ lost' = [lost EXCEPT ![key[t]] = Incremented(lost[key[t]])]
    BY <1>8 DEF FuncEndsInvalid
  <2>4. b' = b + 1 \/ b' = b + 1 - m
    <3>1. key[t] \in Names
      BY <1>2
    <3>. QED
      BY <1>2, <2>3, <3>1, Raising
  <2>. HIDE DEF m, a, b, c
  <2>. QED
    BY <1>1, <1>3, <2>2, <2>3, <2>4
<1>9. CASE UNCHANGED vars
  BY <1>5, <1>9 DEF vars, Counted
<1>10. ASSUME NEW t \in Threads, CheckClosed(t) \/ CheckOpen(t)
       PROVE  UNCHANGED <<pending, lost>> /\ Counted' = Counted
  BY <1>10 DEF CheckClosed, CheckOpen, At, Counted, TypeOK
<1>11. ASSUME NEW t \in Threads, NEW n \in Names, Arrive(t, n)
       PROVE  UNCHANGED <<pending, lost>> /\ Counted' = Counted
  BY <1>11 DEF Arrive, At, Counted, TypeOK
<1>12. ASSUME NEW t \in Threads, NEW o \in Outcomes, NEW n \in Names, FuncEnds(t, o, n)
       PROVE  UNCHANGED <<pending, lost>> /\ Counted' = Counted
  BY <1>12 DEF FuncEnds, At, Counted, TypeOK
<1>. HIDE DEF m, a, b, c
<1>. QED
  BY <1>5, <1>6, <1>7, <1>8, <1>9, <1>10, <1>11, <1>12 DEF Next, Proceed, Func

\* No count is lost or invented: even if functions rename their requests and
\* counters wrap around, all counters together are the number of the calls
\* counted, modulo their width, for any threads and names.
THEOREM NoCountIsLost == Spec => []CountsAreConserved
<1>1. Init => CountsAreConserved
  <2>. SUFFICES ASSUME Init PROVE CountsAreConserved
    OBVIOUS
  <2>1. Units(pending) = {} /\ Units(lost) = {} /\ Counted = {}
    BY WidthAssumption DEF Init, Units, Counted
  <2>2. CounterModulus \in Nat /\ CounterModulus > 0
    BY WidthAssumption, LimitAssumption, ThreadsAssumption, FS_CardinalityType
  <2>3. 0 % CounterModulus = 0
    BY <2>2
  <2>. QED
    BY <2>1, <2>3, FS_EmptySet DEF CountsAreConserved
<1>. QED
  BY <1>1, Conserved, TypeCorrect, PTL DEF Spec

-----------------------------------------------------------------------------
\* Cardinality means the same in the abstract specification.
LEMMA SameCardinality ==
  ASSUME NEW S PROVE Admission!Cardinality(S) = Cardinality(S)
BY DEF Cardinality, Admission!Cardinality

\* The hook with its strategy implements admission control: at most MaxPending
\* threads are inside the function of one request name, until one is renamed.
THEOREM Implementation == Spec => ImplementsAdmission
<1>. DEFINE phase == [t \in Threads |->
                        CASE pc[t] \in {"arrived", "counted", "open"} -> "asking"
                          [] pc[t] = "func" -> "inside"
                          [] OTHER -> "out"]
<1>1. Init => Admission!Init
  BY DEF Init, Admission!Init
<1>2. TypeOK /\ TypeOK' /\ PlacesAreBounded' /\ [Next]_vars
        => [~renamed' => [Admission!Next]_(Admission!vars)]_vars
  <2>. SUFFICES ASSUME TypeOK, TypeOK', PlacesAreBounded', [Next]_vars, ~renamed'
                PROVE  Admission!Next \/ UNCHANGED <<phase, key>>
    BY DEF Admission!vars
  <2>. USE DEF TypeOK, Locations, At
  <2>1. ASSUME NEW t \in Threads, NEW n \in Names, Arrive(t, n)
        PROVE  Admission!Ask(t, n)
    BY <2>1 DEF Arrive, Admission!Ask
  <2>2. ASSUME NEW t \in Threads, Count(t) \/ CheckOpen(t) \/ Uncount(t)
        PROVE  UNCHANGED <<phase, key>>
    BY <2>2 DEF Count, CheckOpen, Uncount
  <2>3. ASSUME NEW t \in Threads, CheckClosed(t)
        PROVE  Admission!Admit(t)
    <3>1. /\ phase[t] = "asking"
          /\ phase' = [phase EXCEPT ![t] = "inside"]
          /\ key' = key
      BY <2>3 DEF CheckClosed
    <3>2. /\ t \notin Admission!Inside(key[t])
          /\ Admission!Inside(key[t]) \cup {t} \subseteq Admitted(key[t])'
      BY <2>3 DEF CheckClosed, Admission!Inside, Admitted
    <3>3. /\ IsFiniteSet(Admitted(key[t])')
          /\ Cardinality(Admitted(key[t])') \in Nat
          /\ Cardinality(Admitted(key[t])') <= MaxPending
      <4>1. Admitted(key[t])' \subseteq Threads
        BY DEF Admitted
      <4>2. IsFiniteSet(Admitted(key[t])') /\ Cardinality(Admitted(key[t])') \in Nat
        BY <4>1, ThreadsAssumption, FS_Subset, FS_CardinalityType
      <4>. QED
        BY <4>2, LimitAssumption DEF PlacesAreBounded
    <3>4. Cardinality(Admission!Inside(key[t])) < MaxPending
      <4>1. /\ IsFiniteSet(Admission!Inside(key[t]))
            /\ IsFiniteSet(Admission!Inside(key[t]) \cup {t})
            /\ Cardinality(Admission!Inside(key[t]) \cup {t}) <= MaxPending
        BY <3>2, <3>3, FS_Subset, FS_CardinalityType, LimitAssumption
      <4>. QED
        BY <3>2, <4>1, Joining, LimitAssumption
    <3>. QED
      BY <3>1, <3>4, SameCardinality DEF Admission!Admit
  <2>4. ASSUME NEW t \in Threads, Reject(t)
        PROVE  Admission!Refuse(t)
    BY <2>4 DEF Reject, Admission!Refuse
  <2>5. ASSUME NEW t \in Threads, NEW o \in Outcomes, NEW n \in Names,
               FuncEnds(t, o, n) \/ FuncEndsInvalid(t, o)
        PROVE  Admission!Leave(t)
    <3>1. phase[t] = "inside" /\ phase' = [phase EXCEPT ![t] = "out"]
      BY <2>5 DEF FuncEnds, FuncEndsInvalid
    <3>2. key' = [key EXCEPT ![t] = key[t]] /\ key[t] \in Names
      BY <2>5 DEF FuncEnds, FuncEndsInvalid
    <3>. QED
      BY <3>1, <3>2 DEF Admission!Leave
  <2>6. CASE UNCHANGED vars
    BY <2>6 DEF vars
  <2>. QED
    BY <2>1, <2>2, <2>3, <2>4, <2>5, <2>6
       DEF Next, Proceed, Func, Admission!Next
<1>. QED
  BY <1>1, <1>2, TypeCorrect, CountingCorrect, PTL DEF Spec, ImplementsAdmission
=============================================================================
