------------------------- MODULE GatewayBreakerProofs -------------------------
(***************************************************************************)
(* Gateway's breakers implement AbstractBreaker, for any number of         *)
(* workers, any thresholds and any replies of the other services.          *)
(***************************************************************************)
EXTENDS GatewayProofs

\* The breaker of service s, as its callers see it.
Contract(s) == INSTANCE AbstractBreaker
    WITH mode <- Mode(s), streak <- Streak(s), pause <- Pause(s)

\* The breakers are open only after enough failures, and never during a call:
\* isAvailable() closes a breaker that lets a call through.
BreakerInv ==
    \A s \in Services :
        /\ breaker[s].open => breaker[s].failureCount = FailureThreshold
        /\ \A w \in Workers : phase[w] = "calling" /\ Svc(w) = s => ~breaker[s].open

Inv == LockInv /\ BreakerInv

-----------------------------------------------------------------------------
(* What an outsider sees of the workers.                                   *)

At(w, ph, s) == phase[w] = ph /\ Svc(w) = s

\* Nobody holds the mutex: no call is under way.
LEMMA FreeIsIdle ==
    ASSUME LockInv, NEW s \in Services, lock[s] \notin Workers
    PROVE  Mode(s) = "idle"
  BY DEF LockInv, GuardedCallHoldsLock, InSection, Mode

\* The one worker in the section decides what is seen.
LEMMA ModeInSection ==
    ASSUME LockInv, NEW s \in Services, NEW w \in Workers, InSection(w, s)
    PROVE  Mode(s) = phase[w] /\ \A v \in Workers \ {w} : ~InSection(v, s)
  BY DEF LockInv, GuardedCallHoldsLock, InSection, Mode

\* Nothing is seen of a step that moves no worker into or out of the section.
LEMMA ModeUnchanged ==
    ASSUME NEW s, \A v \in Workers : \A ph \in {"calling", "refused"} : At(v, ph, s)' <=> At(v, ph, s)
    PROVE  Mode(s)' = Mode(s)
  BY DEF Mode, At

\* The worker in the section leaves it.
LEMMA ModeAfterLeaving ==
    ASSUME LockInv, NEW s \in Services, NEW w \in Workers, InSection(w, s), GoesOn(w)
    PROVE  Mode(s)' = "idle"
  <1>1. \A v \in Workers : ~InSection(v, s)'
    BY ModeInSection, SectionsAfter DEF LockInv, TypeOK
  <1> QED
    BY <1>1 DEF Mode, InSection

\* A step of the breaker's contract, or none.
Step(s) == [Contract(s)!Next]_<<Mode(s), Streak(s), Pause(s)>>

LEMMA Unseen ==
    ASSUME NEW s \in Services, Mode(s)' = Mode(s), breaker'[s] = breaker[s]
    PROVE  Step(s)
  BY DEF Step, Streak, Pause

\* A worker that goes on elsewhere is not seen.
LEMMA ElsewhereUnseen ==
    ASSUME HandlersOK, NEW w \in Workers, NEW s \in Services, GoesOn(w), ~InSection(w, s),
           breaker'[s] = breaker[s]
    PROVE  Step(s)
  <1>1. \A v \in Workers : \A ph \in {"calling", "refused"} : At(v, ph, s)' <=> At(v, ph, s)
    <2> SUFFICES ASSUME NEW v \in Workers, NEW ph \in {"calling", "refused"}
                 PROVE  At(v, ph, s)' <=> At(v, ph, s)
      OBVIOUS
    <2>1. CASE v = w
      BY <2>1, SectionsAfter DEF At, InSection
    <2>2. CASE v # w
      BY <2>2 DEF At, GoesOn, Svc, Current, HandlersOK
    <2> QED
      BY <2>1, <2>2
  <1> QED
    BY <1>1, ModeUnchanged, Unseen

-----------------------------------------------------------------------------
(* What the methods of the breaker mean to its callers.                    *)

PauseOf(b) == IF b.open THEN RetryTimeout - b.elapsed ELSE 0

FailsTo(b, n, c) ==
    /\ c.failureCount = (IF n < FailureThreshold THEN n + 1 ELSE n)
    /\ PauseOf(c) = (IF c.failureCount >= FailureThreshold THEN RetryTimeout ELSE 0)

LEMMA MethodsMean ==
    ASSUME NEW b \in Breaker
    PROVE  /\ Available(b) <=> PauseOf(b) = 0
           /\ ~Available(b) => PauseOf(b) > 0 /\ b.open
           /\ ~Available(b) => AfterIsAvailable(b) = b
           /\ Available(b) => PauseOf(AfterIsAvailable(b)) = 0 /\ ~AfterIsAvailable(b).open
           /\ AfterIsAvailable(b).failureCount = b.failureCount
           /\ ~b.open => /\ onSuccess(b).failureCount = 0 /\ ~onSuccess(b).open
                         /\ FailsTo(b, b.failureCount, onFailure(b))
                         /\ FailsTo(b, 0, onFailure(onSuccess(b)))
           /\ PauseOf(Aged(b)) = (IF PauseOf(b) > 0 THEN PauseOf(b) - 1 ELSE 0)
           /\ Aged(b).failureCount = b.failureCount /\ Aged(b).open = b.open
           /\ onSuccess(b) \in Breaker
  <1> USE DEF Breaker, PauseOf
  <1>0. FailureThreshold \in Nat \ {0} /\ RetryTimeout \in Nat \ {0}
    BY BreakerAssumption DEF BreakerAssumption
  <1>1. /\ Available(b) <=> PauseOf(b) = 0
        /\ ~Available(b) => PauseOf(b) > 0 /\ b.open
    BY <1>0 DEF Available, isRetryTimeoutExceeded
  <1>2. /\ ~Available(b) => AfterIsAvailable(b) = b
        /\ Available(b) => PauseOf(AfterIsAvailable(b)) = 0 /\ ~AfterIsAvailable(b).open
        /\ AfterIsAvailable(b).failureCount = b.failureCount
    BY <1>1 DEF AfterIsAvailable
  <1>3. ASSUME ~b.open
        PROVE  /\ onSuccess(b).failureCount = 0 /\ ~onSuccess(b).open
               /\ FailsTo(b, b.failureCount, onFailure(b))
    BY <1>0, <1>3 DEF onSuccess, onFailure, Counted, FailsTo
  <1>4. ASSUME ~b.open
        PROVE  FailsTo(b, 0, onFailure(onSuccess(b)))
    BY <1>0, <1>4 DEF onSuccess, onFailure, Counted, FailsTo
  <1>5. /\ PauseOf(Aged(b)) = (IF PauseOf(b) > 0 THEN PauseOf(b) - 1 ELSE 0)
        /\ Aged(b).failureCount = b.failureCount /\ Aged(b).open = b.open
    BY <1>0 DEF Aged, Aging
  <1> QED
    BY <1>1, <1>2, <1>3, <1>4, <1>5, BreakerType

LEMMA Seen == ASSUME NEW s PROVE Pause(s) = PauseOf(breaker[s]) /\ Streak(s) = breaker[s].failureCount
  BY DEF Pause, PauseOf, Streak

-----------------------------------------------------------------------------
(* Steps inside the section.                                               *)

LEMMA AcquireMaps ==
    ASSUME Inv, NEW w \in Workers, NEW s \in Services, Acquire(w)
    PROVE  Step(s)
  <1>h. HandlersOK /\ breaker \in [Services -> Breaker] /\ breaker[s] \in Breaker
    BY DEF Inv, LockInv, TypeOK
  <1>1. Svc(w) \in Services /\ lock[Svc(w)] = NoWorker /\ Svc(w)' = Svc(w)
    BY <1>h, CurrentType DEF Acquire, Svc, Current
  <1>2. \A v \in Workers \ {w} : \A ph \in {"calling", "refused"} : At(v, ph, s)' <=> At(v, ph, s)
    BY <1>h DEF Acquire, HandlersOK, At, Svc, Current
  <1>3. CASE s # Svc(w)
    <2>1. \A ph : ~At(w, ph, s) /\ ~At(w, ph, s)'
      BY <1>1, <1>3 DEF At
    <2>2. breaker'[s] = breaker[s]
      BY <1>3, <1>h DEF Acquire, Update
    <2> QED
      BY <1>2, <2>1, <2>2, ModeUnchanged, Unseen
  <1>4. CASE s = Svc(w)
    <2>1. Mode(s) = "idle" /\ \A v \in Workers : ~InSection(v, s)
      BY <1>1, <1>4, FreeIsIdle, GatewayAssumption
      DEF Inv, LockInv, GuardedCallHoldsLock, GatewayAssumption
    <2>2. breaker'[s] = AfterIsAvailable(breaker[s])
      BY <1>4, <1>h DEF Acquire, Update
    <2>3. phase'[w] = IF Available(breaker[s]) THEN "calling" ELSE "refused"
      BY <1>4, <1>h DEF Acquire, HandlersOK
    <2>4. \A v \in Workers \ {w} : \A ph \in {"calling", "refused"} : ~At(v, ph, s)'
      BY <1>2, <2>1 DEF At, InSection
    <2>5. Mode(s)' = phase'[w]
      BY <1>1, <1>4, <2>3, <2>4 DEF Mode, At
    <2>6. CASE Available(breaker[s])
      <3>1. Contract(s)!Admit
        BY <1>h, <2>1, <2>2, <2>3, <2>5, <2>6, MethodsMean, Seen DEF Contract!Admit, Pause, PauseOf, Streak
      <3> QED
        BY <3>1 DEF Step, Contract!Next
    <2>7. CASE ~Available(breaker[s])
      <3>1. Streak(s) >= FailureThreshold
        BY <1>h, <2>7, MethodsMean, BreakerAssumption DEF Inv, BreakerInv, Streak, BreakerAssumption
      <3>2. Contract(s)!Refuse
        BY <1>h, <2>1, <2>2, <2>3, <2>5, <2>7, <3>1, MethodsMean, Seen DEF Contract!Refuse, Pause, PauseOf, Streak
      <3> QED
        BY <3>2 DEF Step, Contract!Next
    <2> QED
      BY <2>6, <2>7
  <1> QED
    BY <1>3, <1>4

\* A worker leaves its section: the four ways in which a call or a refusal ends.
Ends(w, s) ==
    \/ phase[w] = "refused" /\ breaker'[s] = breaker[s]
    \/ phase[w] = "calling" /\ breaker'[s] = onFailure(breaker[s])
    \/ phase[w] = "calling" /\ breaker'[s] = onSuccess(breaker[s])
    \/ phase[w] = "calling" /\ breaker'[s] = onFailure(onSuccess(breaker[s]))

LEMMA LeavingMaps ==
    ASSUME Inv, NEW w \in Workers, NEW s \in Services, InSection(w, s), GoesOn(w), Ends(w, s)
    PROVE  Step(s)
  <1>1. Mode(s) = phase[w] /\ Mode(s)' = "idle"
    BY ModeInSection, ModeAfterLeaving DEF Inv
  <1>2. breaker[s] \in Breaker
    BY DEF Inv, LockInv, TypeOK
  <1>3. phase[w] = "calling" => ~breaker[s].open
    BY DEF Inv, BreakerInv, InSection
  <1>4. CASE phase[w] = "refused" /\ breaker'[s] = breaker[s]
    <2>1. Contract(s)!Dismiss
      BY <1>1, <1>4 DEF Contract!Dismiss, Pause, Streak
    <2> QED
      BY <2>1 DEF Step, Contract!Next
  <1>5. CASE phase[w] = "calling" /\ breaker'[s] = onFailure(breaker[s])
    <2>1. FailsTo(breaker[s], breaker[s].failureCount, breaker'[s])
      BY <1>2, <1>3, <1>5, MethodsMean
    <2>2. Contract(s)!Fail
      BY <1>1, <1>5, <2>1 DEF Contract!Fail, Contract!Fails, Contract!PauseAfter, FailsTo, Pause, PauseOf, Streak
    <2> QED
      BY <2>2 DEF Step, Contract!Next
  <1>6. CASE phase[w] = "calling" /\ breaker'[s] = onSuccess(breaker[s])
    <2>1. breaker'[s].failureCount = 0 /\ ~breaker'[s].open
      BY <1>2, <1>3, <1>6, MethodsMean
    <2>2. Contract(s)!Succeed
      BY <1>1, <1>3, <1>6, <2>1 DEF Contract!Succeed, Pause, Streak
    <2> QED
      BY <2>2 DEF Step, Contract!Next
  <1>7. CASE phase[w] = "calling" /\ breaker'[s] = onFailure(onSuccess(breaker[s]))
    <2>1. FailsTo(breaker[s], 0, breaker'[s])
      BY <1>2, <1>3, <1>7, MethodsMean
    <2>2. Contract(s)!Garble
      BY <1>1, <1>7, <2>1 DEF Contract!Garble, Contract!Fails, Contract!PauseAfter, FailsTo, Pause, PauseOf, Streak
    <2> QED
      BY <2>2 DEF Step, Contract!Next
  <1> QED
    BY <1>4, <1>5, <1>6, <1>7 DEF Ends

LEMMA TickMaps ==
    ASSUME Inv, NEW s \in Services, NEW r \in Services, Tick(r)
    PROVE  Step(s)
  <1>1. breaker'[s] \in {breaker[s], Aged(breaker[s])} /\ breaker[s] \in Breaker
    BY DEF Tick, Inv, LockInv, TypeOK
  <1>2. Mode(s)' = Mode(s)
    BY DEF Tick, Mode, Svc, Current
  <1>3. /\ Pause(s)' \in {Pause(s), IF Pause(s) > 0 THEN Pause(s) - 1 ELSE 0}
        /\ Streak(s)' = Streak(s)
    BY <1>1, MethodsMean DEF Pause, PauseOf, Streak
  <1>4. Pause(s) \in Nat
    BY <1>1, BreakerAssumption DEF Pause, Breaker, BreakerAssumption
  <1>5. CASE Pause(s) > 0 /\ Pause(s)' # Pause(s)
    BY <1>2, <1>3, <1>5 DEF Contract!Tick, Step, Contract!Next
  <1>6. CASE Pause(s) = 0 \/ Pause(s)' = Pause(s)
    BY <1>2, <1>3, <1>6 DEF Step
  <1> QED
    BY <1>4, <1>5, <1>6

-----------------------------------------------------------------------------
(* The invariant and the refinement.                                       *)

\* A worker locks a mutex, goes on from where it was, or changes nothing that
\* a breaker or a mutex depends on.
LEMMA WorkerMoves ==
    ASSUME LockInv, NEW w \in Workers, Receive(w) \/ ReceiveLocal(w) \/ Work(w)
    PROVE  \/ Acquire(w)
           \/ /\ GoesOn(w)
              /\ \A s \in Services :
                    \/ InSection(w, s) /\ Ends(w, s)
                    \/ ~InSection(w, s) /\ breaker'[s] = breaker[s]
           \/ UNCHANGED <<breaker, phase, todo>>
  <1>h. HandlersOK /\ breaker \in [Services -> Breaker]
    BY DEF LockInv, TypeOK
  <1>1. CASE Receive(w) \/ Cancel(w) \/ RefundBonus(w) \/ PublishRefund(w)
    <2>1. GoesOn(w)
      BY <1>1, <1>h, ActionsGoOn
    <2>2. breaker' = breaker /\ \A s : ~InSection(w, s)
      BY <1>1 DEF Receive, Cancel, RefundBonus, PublishRefund, InSection
    <2> QED
      BY <2>1, <2>2
  <1>2. CASE Refused(w) \/ Failed(w) \/ Responded(w) \/ FallbackResponded(w)
    <2>1. GoesOn(w)
      BY <1>2, <1>h, ActionsGoOn
    <2>2. phase[w] \in {"calling", "refused"}
      BY <1>2 DEF Refused, Failed, Responded, FallbackResponded
    <2>3. Svc(w) \in Services /\ \A s : InSection(w, s) <=> s = Svc(w)
      BY <2>2, <1>h, CurrentType DEF InSection
    <2>4. Ends(w, Svc(w)) /\ \A s \in Services \ {Svc(w)} : breaker'[s] = breaker[s]
      <3>1. CASE Refused(w)
        BY <3>1 DEF Refused, Ends
      <3>2. CASE Failed(w)
        BY <3>2, <1>h, <2>3 DEF Failed, Ends, Update
      <3>3. CASE Responded(w)
        BY <3>3, <1>h, <2>3 DEF Responded, Ends, Update
      <3>4. CASE FallbackResponded(w)
        BY <3>4, <1>h, <2>3 DEF FallbackResponded, Ends, Update
      <3> QED
        BY <1>2, <3>1, <3>2, <3>3, <3>4
    <2> QED
      BY <2>1, <2>3, <2>4
  <1>3. CASE ReceiveLocal(w)
    BY <1>3 DEF ReceiveLocal
  <1> QED
    BY <1>1, <1>2, <1>3 DEF Work

LEMMA BreakerStep == Inv /\ [Next]_vars => BreakerInv'
  <1> SUFFICES ASSUME Inv, [Next]_vars, NEW s \in Services
               PROVE  /\ breaker'[s].open => breaker'[s].failureCount = FailureThreshold
                      /\ \A v \in Workers : At(v, "calling", s)' => ~breaker'[s].open
    BY DEF BreakerInv, At
  <1>h. /\ LockInv /\ HandlersOK
        /\ breaker \in [Services -> Breaker] /\ breaker[s] \in Breaker
        /\ breaker[s].open => breaker[s].failureCount = FailureThreshold
        /\ \A v \in Workers : At(v, "calling", s) => ~breaker[s].open
    BY DEF Inv, LockInv, TypeOK, BreakerInv, At
  <1>1. ASSUME NEW w \in Workers, Acquire(w)
        PROVE  /\ breaker'[s].open => breaker'[s].failureCount = FailureThreshold
               /\ \A v \in Workers : At(v, "calling", s)' => ~breaker'[s].open
    <2>1. \A v \in Workers \ {w} : At(v, "calling", s)' => At(v, "calling", s)
      BY <1>1, <1>h DEF Acquire, HandlersOK, At, Svc, Current
    <2>2. Svc(w)' = Svc(w) /\ Svc(w) \in Services
      BY <1>1, <1>h, CurrentType DEF Acquire, Svc, Current
    <2>3. CASE s # Svc(w)
      BY <1>1, <1>h, <2>1, <2>2, <2>3 DEF Acquire, Update, At
    <2>4. CASE s = Svc(w)
      <3>1. breaker'[s] = AfterIsAvailable(breaker[s])
        BY <1>1, <1>h, <2>4 DEF Acquire, Update
      <3>2. phase'[w] = IF Available(breaker[s]) THEN "calling" ELSE "refused"
        BY <1>1, <1>h, <2>4 DEF Acquire, HandlersOK
      <3>3. \A v \in Workers : ~At(v, "calling", s)
        BY <1>1, <1>h, <2>4, GatewayAssumption DEF Acquire, LockInv, GuardedCallHoldsLock, InSection, At, GatewayAssumption
      <3>4. At(w, "calling", s)' => Available(breaker[s])
        BY <3>2 DEF At
      <3> QED
        BY <1>h, <2>1, <3>1, <3>3, <3>4, MethodsMean
    <2> QED
      BY <2>3, <2>4
  <1>2. ASSUME NEW w \in Workers, GoesOn(w), ~InSection(w, s), breaker'[s] = breaker[s]
        PROVE  /\ breaker'[s].open => breaker'[s].failureCount = FailureThreshold
               /\ \A v \in Workers : At(v, "calling", s)' => ~breaker'[s].open
    BY <1>2, <1>h, SectionsAfter DEF GoesOn, At, Svc, Current, HandlersOK
  <1>3. ASSUME NEW w \in Workers, GoesOn(w), InSection(w, s), Ends(w, s)
        PROVE  /\ breaker'[s].open => breaker'[s].failureCount = FailureThreshold
               /\ \A v \in Workers : At(v, "calling", s)' => ~breaker'[s].open
    <2>1. \A v \in Workers : ~At(v, "calling", s)'
      BY <1>3, <1>h, SectionsAfter, ModeInSection DEF At, InSection
    <2>2. phase[w] = "calling" => ~breaker[s].open
      BY <1>3, <1>h DEF InSection, At
    <2>3. \A b \in Breaker : ~b.open /\ onFailure(b).open => onFailure(b).failureCount = FailureThreshold
      BY BreakerAssumption DEF onFailure, Counted, Breaker, BreakerAssumption
    <2> QED
      BY <1>3, <1>h, <2>1, <2>2, <2>3, MethodsMean DEF Ends
  <1>4. ASSUME NEW r \in Services, Tick(r)
        PROVE  /\ breaker'[s].open => breaker'[s].failureCount = FailureThreshold
               /\ \A v \in Workers : At(v, "calling", s)' => ~breaker'[s].open
    <2>1. breaker'[s] \in {breaker[s], Aged(breaker[s])}
      BY <1>4, <1>h DEF Tick, TypeOK
    <2>2. \A v \in Workers : At(v, "calling", s)' <=> At(v, "calling", s)
      BY <1>4 DEF Tick, At, Svc, Current
    <2> QED
      BY <1>h, <2>1, <2>2, MethodsMean
  <1>5. CASE UNCHANGED <<breaker, phase, todo>>
    BY <1>5, <1>h DEF At, Svc, Current
  <1>6. ASSUME NEW w \in Workers, Receive(w) \/ ReceiveLocal(w) \/ Work(w)
        PROVE  /\ breaker'[s].open => breaker'[s].failureCount = FailureThreshold
               /\ \A v \in Workers : At(v, "calling", s)' => ~breaker'[s].open
    BY <1>1, <1>2, <1>3, <1>5, <1>6, <1>h, WorkerMoves
  <1> QED
    BY <1>4, <1>5, <1>6 DEF Next, vars

LEMMA StepMaps == Inv /\ [Next]_vars => \A s \in Services : Step(s)
  <1> SUFFICES ASSUME Inv, [Next]_vars, NEW s \in Services PROVE Step(s)
    OBVIOUS
  <1>h. LockInv /\ HandlersOK
    BY DEF Inv, LockInv, TypeOK
  <1>1. CASE UNCHANGED <<breaker, phase, todo>>
    BY <1>1, Unseen DEF Mode, Svc, Current
  <1>2. ASSUME NEW w \in Workers, Receive(w) \/ ReceiveLocal(w) \/ Work(w)
        PROVE  Step(s)
    BY <1>1, <1>2, <1>h, WorkerMoves, AcquireMaps, ElsewhereUnseen, LeavingMaps
  <1>3. ASSUME NEW r \in Services, Tick(r)
        PROVE  Step(s)
    BY <1>3, TickMaps
  <1> QED
    BY <1>1, <1>2, <1>3 DEF Next, vars

LEMMA InvInit == Init => Inv
  BY LockInit DEF Init, Inv, BreakerInv, Fresh

LEMMA Invariant == Spec => []Inv
  <1>1. Inv /\ [Next]_vars => Inv'
    BY BreakerStep, LockStep, TypeStep DEF Inv, LockInv, LocksKept
  <1> QED
    BY InvInit, <1>1, PTL DEF Spec

LEMMA InitMaps ==
    Init => \A s \in Services : Mode(s) = "idle" /\ Streak(s) = 0 /\ Pause(s) = 0
  BY DEF Init, Mode, Streak, Pause, Fresh

\* Requests that go through the gateway's breakers see what AbstractBreaker
\* promises, for each of the three services.
THEOREM BreakersKeepContract == Spec => BreakerContract
  <1>1. Spec => FlightBreaker!Spec
    <2>1. Init => FlightBreaker!Init
      BY InitMaps DEF FlightBreaker!Init, Services
    <2>2. Inv /\ [Next]_vars => [FlightBreaker!Next]_FlightBreaker!vars
      BY StepMaps
      DEF Services, Step, FlightBreaker!vars, FlightBreaker!Next, FlightBreaker!Admit, FlightBreaker!Refuse, FlightBreaker!Dismiss,
          FlightBreaker!Succeed, FlightBreaker!Fail, FlightBreaker!Garble, FlightBreaker!Tick, FlightBreaker!Fails, FlightBreaker!PauseAfter,
          Contract!Next, Contract!Admit, Contract!Refuse, Contract!Dismiss, Contract!Succeed,
          Contract!Fail, Contract!Garble, Contract!Tick, Contract!Fails, Contract!PauseAfter
    <2> QED
      BY <2>1, <2>2, Invariant, PTL DEF Spec, FlightBreaker!Spec
  <1>2. Spec => TicketBreaker!Spec
    <2>1. Init => TicketBreaker!Init
      BY InitMaps DEF TicketBreaker!Init, Services
    <2>2. Inv /\ [Next]_vars => [TicketBreaker!Next]_TicketBreaker!vars
      BY StepMaps
      DEF Services, Step, TicketBreaker!vars, TicketBreaker!Next, TicketBreaker!Admit, TicketBreaker!Refuse, TicketBreaker!Dismiss,
          TicketBreaker!Succeed, TicketBreaker!Fail, TicketBreaker!Garble, TicketBreaker!Tick, TicketBreaker!Fails, TicketBreaker!PauseAfter,
          Contract!Next, Contract!Admit, Contract!Refuse, Contract!Dismiss, Contract!Succeed,
          Contract!Fail, Contract!Garble, Contract!Tick, Contract!Fails, Contract!PauseAfter
    <2> QED
      BY <2>1, <2>2, Invariant, PTL DEF Spec, TicketBreaker!Spec
  <1>3. Spec => BonusBreaker!Spec
    <2>1. Init => BonusBreaker!Init
      BY InitMaps DEF BonusBreaker!Init, Services
    <2>2. Inv /\ [Next]_vars => [BonusBreaker!Next]_BonusBreaker!vars
      BY StepMaps
      DEF Services, Step, BonusBreaker!vars, BonusBreaker!Next, BonusBreaker!Admit, BonusBreaker!Refuse, BonusBreaker!Dismiss,
          BonusBreaker!Succeed, BonusBreaker!Fail, BonusBreaker!Garble, BonusBreaker!Tick, BonusBreaker!Fails, BonusBreaker!PauseAfter,
          Contract!Next, Contract!Admit, Contract!Refuse, Contract!Dismiss, Contract!Succeed,
          Contract!Fail, Contract!Garble, Contract!Tick, Contract!Fails, Contract!PauseAfter
    <2> QED
      BY <2>1, <2>2, Invariant, PTL DEF Spec, BonusBreaker!Spec
  <1> QED
    BY <1>1, <1>2, <1>3 DEF BreakerContract
=============================================================================
