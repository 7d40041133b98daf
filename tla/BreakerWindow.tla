----------------------------- MODULE BreakerWindow -----------------------------
(* What a sliding-window circuit breaker promises its caller, without a clock: *)
(* a count of the failures still inside the window and the flag that opens at  *)
(* the threshold.  AgentActor is written against it (the ICircuitBreaker its   *)
(* deps inject); SlidingWindowBreaker implements it.                           *)
EXTENDS Naturals

CONSTANT Threshold   \* failures in the window that open the breaker

VARIABLES failures, opened

WindowTypeOK == failures \in Nat /\ opened \in BOOLEAN

Closed == failures = 0 /\ opened = FALSE

\* What isOpen() answers: an open breaker whose window emptied has recovered.
StillOpen == opened /\ failures >= Threshold

\* isOpen() and recordSuccess() close a breaker that has recovered.
Refresh ==
    /\ opened' = StillOpen
    /\ UNCHANGED failures

RecordFailure ==
    /\ failures' = failures + 1
    /\ opened' = (opened \/ failures' >= Threshold)

\* Time passes: the oldest failures leave the window; nobody closes it yet.
Expire ==
    /\ failures' \in 0 .. failures - 1
    /\ UNCHANGED opened

WindowNext == Refresh \/ RecordFailure \/ Expire

Window == Closed /\ [][WindowNext]_<<failures, opened>>
=============================================================================
