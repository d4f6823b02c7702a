----------------------------- MODULE MCRetryHook -----------------------------
(* Instances of RetryHook for TLC. *)
EXTENDS RetryHook

\* The clock is set by up to two intervals.
SetEitherWay == {-4, 4}

\* What the proof of the exponential schedule takes from arithmetic.
ASSUME SumAssumption == SumIsGeometric
=============================================================================
