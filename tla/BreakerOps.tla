----------------------------- MODULE BreakerOps -----------------------------
(***************************************************************************)
(* CircuitBreaker of GatewayService (NetUI/controller/CircuitBreaker.cpp): *)
(* the three methods as operators on the record of its fields.             *)
(*                                                                         *)
(* failureCount_ is only ever compared with failureThreshold_, so counting *)
(* stops there.  elapsed is the number of whole seconds since openTime_;   *)
(* it is only compared with retryTimeout_, and only while the breaker is   *)
(* open, so it stops at RetryTimeout.                                      *)
(***************************************************************************)
EXTENDS Naturals

CONSTANTS FailureThreshold,   \* failureThreshold_: failures that open it
          RetryTimeout        \* retryTimeout_: seconds before a trial call

ASSUME BreakerAssumption == /\ FailureThreshold \in Nat \ {0}
                            /\ RetryTimeout \in Nat \ {0}

Breaker == [open : BOOLEAN,
            failureCount : 0..FailureThreshold,
            elapsed : 0..RetryTimeout]

Fresh == [open |-> FALSE, failureCount |-> 0, elapsed |-> 0]

isRetryTimeoutExceeded(b) == b.elapsed >= RetryTimeout

\* What isAvailable() answers.
Available(b) == ~b.open \/ isRetryTimeoutExceeded(b)

\* Mutant of AfterIsAvailable: closing the breaker also forgets the failures.
AfterIsAvailableForgets(b) ==
    [b EXCEPT !.open = ~Available(b), !.failureCount = IF b.open /\ Available(b) THEN 0 ELSE @]

\* Mutant of AfterIsAvailable: a refused request starts the pause again.
AfterIsAvailablePostpones(b) ==
    [b EXCEPT !.open = ~Available(b), !.elapsed = IF Available(b) THEN @ ELSE 0]

\* What isAvailable() makes of the breaker.
AfterIsAvailable(b) == [b EXCEPT !.open = ~Available(b)]

onSuccess(b) == [b EXCEPT !.failureCount = 0]

Counted(b) == IF b.failureCount < FailureThreshold
              THEN b.failureCount + 1 ELSE b.failureCount

onFailure(b) ==
    IF b.open
    THEN [b EXCEPT !.elapsed = 0]
    ELSE IF Counted(b) >= FailureThreshold
         THEN [open |-> TRUE, failureCount |-> Counted(b), elapsed |-> 0]
         ELSE [b EXCEPT !.failureCount = Counted(b)]

\* One second of steady_clock.
Aging(b) == b.open /\ b.elapsed < RetryTimeout

Aged(b) == IF Aging(b) THEN [b EXCEPT !.elapsed = @ + 1] ELSE b
=============================================================================
