--------------------------- MODULE AbstractBreaker ---------------------------
(***************************************************************************)
(* What a circuit breaker promises the requests that go through it: one    *)
(* call at a time; a request is refused if, and only if, the last          *)
(* FailureThreshold calls failed and fewer than RetryTimeout seconds went  *)
(* by since; after that pause one trial call is let through, whose failure *)
(* alone starts the next pause.                                            *)
(***************************************************************************)
EXTENDS Naturals

CONSTANTS FailureThreshold, RetryTimeout

VARIABLES mode,     \* "idle", "calling" or "refused"
          streak,   \* failed calls since the last success, at most FailureThreshold
          pause     \* seconds during which calls are still refused

vars == <<mode, streak, pause>>

Init == mode = "idle" /\ streak = 0 /\ pause = 0

\* A streak this long starts a pause.
PauseAfter(n) == IF n >= FailureThreshold THEN RetryTimeout ELSE 0

Fails(n) == /\ streak' = (IF n < FailureThreshold THEN n + 1 ELSE n)
            /\ pause' = PauseAfter(streak')

Admit == /\ mode = "idle" /\ pause = 0
         /\ mode' = "calling"
         /\ UNCHANGED <<streak, pause>>

Refuse == /\ mode = "idle" /\ pause > 0 /\ streak >= FailureThreshold
          /\ mode' = "refused"
          /\ UNCHANGED <<streak, pause>>

Dismiss == /\ mode = "refused"
           /\ mode' = "idle"
           /\ UNCHANGED <<streak, pause>>

Succeed == /\ mode = "calling"
           /\ mode' = "idle"
           /\ streak' = 0
           /\ UNCHANGED pause

Fail == /\ mode = "calling"
        /\ mode' = "idle"
        /\ Fails(streak)

\* The call answered (the streak ends) and its answer could not be read.
Garble == /\ mode = "calling"
          /\ mode' = "idle"
          /\ Fails(0)

\* One second of the pause.
Tick == /\ pause > 0
        /\ pause' = pause - 1
        /\ UNCHANGED <<mode, streak>>

Next == Admit \/ Refuse \/ Dismiss \/ Succeed \/ Fail \/ Garble \/ Tick

Spec == Init /\ [][Next]_vars
=============================================================================
