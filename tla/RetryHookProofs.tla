-------------------------- MODULE RetryHookProofs --------------------------
(***************************************************************************)
(* Proofs about module RetryHook, for any number of retries, any codes,    *)
(* intervals, jitter and delays.                                           *)
(*                                                                         *)
(* GivesUpOnlyAfterAll alone is not inductive: that a refused retry is the *)
(* last one needs that each retry before it was counted and made.          *)
(*                                                                         *)
(* The schedule is proved outright for the linear strategy.  For the       *)
(* exponential one it rests on SumIsGeometric, an identity of numbers      *)
(* that takes an induction to prove, and that TLC evaluates.               *)
(***************************************************************************)
EXTENDS RetryHook, TLAPS

\* The strategies whose schedule is known.
Known == strategy = "linear" \/ (strategy = "exponential" /\ SumIsGeometric)

-----------------------------------------------------------------------------
\* Every attempt after the first one is a retry that was counted, and none is
\* made that the strategy would refuse.
CountInv ==
  /\ retries \in Nat /\ calls \in Nat
  /\ calls <= MaxRetryCount + 1
  /\ pc \in {"func", "post", "over"}
  /\ status # "invalid"
  /\ pc # "over" => calls = retries + 1
  /\ pc = "over" /\ status \in RetryCodes => calls = MaxRetryCount + 1

\* The times are whole numbers of ticks; post_process runs when func has ended.
TimeInv ==
  /\ now \in Int /\ clock \in Int /\ started \in Int /\ ended \in Int
  /\ pc = "post" => ended = now

IInv == /\ CountInv
        /\ strategy \in {"linear", "exponential"}
        /\ Known => TimeInv /\ RetriesAreOnSchedule

-----------------------------------------------------------------------------
LEMMA CountInitially == Init => CountInv
BY CountsAssumption DEF Init, CountInv

LEMMA CountKept == CountInv /\ [Next]_vars => CountInv'
<1>. SUFFICES ASSUME CountInv, [Next]_vars PROVE CountInv'
  OBVIOUS
<1>. USE CountsAssumption
<1>1. CASE UNCHANGED vars
  BY <1>1 DEF vars, CountInv
<1>2. ASSUME NEW outcome \in Outcomes, NEW duration \in 0 .. MaxDuration, Attempt(outcome, duration)
      PROVE  CountInv'
  BY <1>2, CodesAssumption DEF Attempt, CountInv
<1>3. CASE Accept
  BY <1>3, CodesAssumption DEF Accept, CodeSeen, CountInv
<1>4. CASE TraceThrows
  <2>1. status \notin RetryCodes
    BY <1>4, CodesAssumption DEF TraceThrows, CodeSeen, CountInv
  <2>. QED
    BY <1>4, <2>1 DEF TraceThrows, CountInv
<1>5. CASE GiveUp
  BY <1>5 DEF GiveUp, RetryRequested, Refuses, CountInv
<1>6. ASSUME NEW jitter \in -Jitter .. Jitter, NEW delay \in 0 .. MaxDelay, Retry(jitter, delay)
      PROVE  CountInv'
  BY <1>6 DEF Retry, RetryRequested, Refuses, CountInv
<1>7. ASSUME NEW step \in ClockSteps, SetClock(step)
      PROVE  CountInv'
  BY <1>7 DEF SetClock, CountInv
<1>8. CASE Over
  BY <1>8 DEF Over, vars, CountInv
<1>. QED
  BY <1>1, <1>2, <1>3, <1>4, <1>5, <1>6, <1>7, <1>8 DEF Next, Hook

-----------------------------------------------------------------------------
LEMMA StrategyStays == [Next]_vars => strategy' = strategy
BY DEF Next, Hook, Attempt, Accept, TraceThrows, GiveUp, Retry, SetClock, Over, vars

\* With a known strategy, what the strategy computes is what the reference says.
LEMMA DueIs ==
  ASSUME Known, NEW n \in 1 .. MaxRetryCount
  PROVE  Due(n) \in Int /\ Due(n) = ReferenceDue(n)
<1>1. CASE strategy = "linear"
  BY <1>1, CountsAssumption DEF Due, LinearTotal, ReferenceDue
<1>2. CASE strategy = "exponential" /\ SumIsGeometric
  BY <1>2 DEF Due, ReferenceDue, SumIsGeometric
<1>. QED
  BY <1>1, <1>2 DEF Known

LEMMA TimeInitially == Init => TimeInv
BY DEF Init, TimeInv

LEMMA TimeKept == CountInv /\ TimeInv /\ Known /\ [Next]_vars => TimeInv'
<1>. SUFFICES ASSUME CountInv, TimeInv, Known, [Next]_vars PROVE TimeInv'
  OBVIOUS
<1>. USE CountsAssumption, BoundsAssumption, ClockAssumption
<1>1. CASE UNCHANGED vars
  BY <1>1 DEF vars, TimeInv
<1>2. ASSUME NEW outcome \in Outcomes, NEW duration \in 0 .. MaxDuration, Attempt(outcome, duration)
      PROVE  TimeInv'
  BY <1>2 DEF Attempt, TimeInv
<1>3. CASE Accept \/ TraceThrows \/ GiveUp
  BY <1>3 DEF Accept, TraceThrows, GiveUp, TimeInv
<1>4. ASSUME NEW jitter \in -Jitter .. Jitter, NEW delay \in 0 .. MaxDelay, Retry(jitter, delay)
      PROVE  TimeInv'
  <2>0. retries' \in 1 .. MaxRetryCount
    BY <1>4 DEF Retry, RetryRequested, Refuses, CountInv
  <2>1. Due(retries') \in Int
    BY <2>0, DueIs
  <2>2. Slept(Jittered(Wait(retries', now + clock), jitter)) \in Int
    BY <2>1 DEF Slept, Jittered, Wait, TimeInv
  <2>. QED
    BY <1>4, <2>2 DEF Retry, TimeInv
<1>5. ASSUME NEW step \in ClockSteps, SetClock(step)
      PROVE  TimeInv'
  BY <1>5 DEF SetClock, TimeInv
<1>6. CASE Over
  BY <1>6 DEF Over, vars, TimeInv
<1>. QED
  BY <1>1, <1>2, <1>3, <1>4, <1>5, <1>6 DEF Next, Hook

\* A retry that waits until it is due starts on time, whatever it waited for.
LEMMA OnTime ==
  ASSUME NEW due \in Int, NEW t \in Int, NEW jitter \in -Jitter .. Jitter, NEW delay \in 0 .. MaxDelay
  PROVE  LET start == t + Slept(Jittered(IF t > due THEN 0 ELSE due - t, jitter)) + delay
         IN /\ start >= due - Jitter
            /\ start <= (IF t > due THEN t ELSE due) + Jitter + MaxDelay
<1>1. jitter \in Int /\ delay \in Int /\ Jitter \in Nat /\ MaxDelay \in Nat
  BY BoundsAssumption
<1>2. CASE t > due
  BY <1>1, <1>2 DEF Slept, Jittered
<1>3. CASE ~(t > due)
  BY <1>1, <1>3 DEF Slept, Jittered
<1>. QED
  BY <1>2, <1>3

LEMMA ScheduleKept ==
  /\ CountInv /\ TimeInv /\ Known /\ RetriesAreOnSchedule
  /\ [Next]_vars
  => RetriesAreOnSchedule'
<1>. SUFFICES ASSUME CountInv, TimeInv, Known, RetriesAreOnSchedule, [Next]_vars
              PROVE  RetriesAreOnSchedule'
  OBVIOUS
<1>1. CASE UNCHANGED vars
  BY <1>1 DEF vars, RetriesAreOnSchedule, ReferenceDue
<1>2. CASE pc' # "func"
  BY <1>2 DEF RetriesAreOnSchedule
<1>3. ASSUME NEW jitter \in -Jitter .. Jitter, NEW delay \in 0 .. MaxDelay, Retry(jitter, delay)
      PROVE  RetriesAreOnSchedule'
  <2>1. /\ retries' \in 1 .. MaxRetryCount /\ calls' - 1 = retries'
        /\ strategy' = strategy /\ ended' = ended /\ ended = now
    <3>1. pc = "post" /\ retries' = retries + 1 /\ retries' <= MaxRetryCount
      BY <1>3, CountsAssumption DEF Retry, RetryRequested, Refuses, CountInv
    <3>2. calls' - 1 = retries' /\ retries' >= 1
      BY <1>3, <3>1 DEF Retry, CountInv
    <3>. QED
      BY <1>3, <3>1, <3>2, CountsAssumption DEF Retry, CountInv, TimeInv
  <2>. DEFINE due == Due(retries')
  <2>2. due \in Int /\ due = Due(retries') /\ ReferenceDue(calls - 1)' = due
    <3>1. due \in Int /\ due = ReferenceDue(retries')
      BY <2>1, DueIs
    <3>. QED
      BY <2>1, <3>1 DEF ReferenceDue
  <2>. HIDE DEF due
  <2>3. CASE clock' = 0
    <3>1. started' = now + Slept(Jittered(IF now > due THEN 0 ELSE due - now, jitter)) + delay
      BY <1>3, <2>2, <2>3 DEF Retry, Wait, TimeInv
    <3>2. /\ started' >= due - Jitter
          /\ started' <= (IF ended' > due THEN ended' ELSE due) + Jitter + MaxDelay
      BY <2>1, <2>2, <3>1, OnTime DEF TimeInv
    <3>. QED
      BY <2>2, <3>2 DEF RetriesAreOnSchedule
  <2>4. CASE clock' # 0
    BY <2>4 DEF RetriesAreOnSchedule
  <2>. QED
    BY <2>3, <2>4
<1>4. ASSUME NEW step \in ClockSteps, SetClock(step)
      PROVE  RetriesAreOnSchedule'
  BY <1>4 DEF SetClock, RetriesAreOnSchedule, ReferenceDue
<1>5. [Next]_vars => \/ UNCHANGED vars
                     \/ pc' # "func"
                     \/ \E jitter \in -Jitter .. Jitter, delay \in 0 .. MaxDelay : Retry(jitter, delay)
                     \/ \E step \in ClockSteps : SetClock(step)
  BY DEF Next, Hook, Attempt, Accept, TraceThrows, GiveUp, Over
<1>. QED
  BY <1>1, <1>2, <1>3, <1>4, <1>5

-----------------------------------------------------------------------------
\* No more retries are made than the strategy allows, and a request ends with a
\* code that calls for a retry only when all of them were made.
THEOREM AllRetriesBeforeGivingUp == Spec => []GivesUpOnlyAfterAll
<1>1. CountInv => GivesUpOnlyAfterAll
  BY DEF CountInv, GivesUpOnlyAfterAll
<1>. QED
  BY CountInitially, CountKept, <1>1, PTL DEF Spec

\* IInv holds in every state.
THEOREM Invariance == Spec => []IInv
<1>1. Init => IInv
  BY CountInitially, TimeInitially DEF Init, IInv, RetriesAreOnSchedule
<1>2. IInv /\ [Next]_vars => IInv'
  <2>1. [Next]_vars => (Known' <=> Known)
    BY StrategyStays DEF Known
  <2>. QED
    BY <2>1, CountKept, TimeKept, ScheduleKept, StrategyStays DEF IInv
<1>. QED
  BY <1>1, <1>2, PTL DEF Spec

\* With the linear strategy every retry starts when it is due, counted from the
\* begin of the request: never earlier than the jitter allows, and late only by
\* the jitter, a late wake-up and the attempt before it.
THEOREM LinearSchedule == Spec => [](strategy = "linear" => RetriesAreOnSchedule)
<1>1. IInv => (strategy = "linear" => RetriesAreOnSchedule)
  BY DEF IInv, Known
<1>. QED
  BY Invariance, <1>1, PTL

\* With either strategy, if the loop that adds up the exponential intervals yields
\* the sum of the geometric series: every retry starts on schedule.
THEOREM RetriesStartOnSchedule == SumIsGeometric => (Spec => []RetriesAreOnSchedule)
<1>. SUFFICES ASSUME SumIsGeometric PROVE Spec => []RetriesAreOnSchedule
  OBVIOUS
<1>1. IInv => RetriesAreOnSchedule
  BY DEF IInv, Known
<1>. QED
  BY Invariance, <1>1, PTL
=============================================================================
