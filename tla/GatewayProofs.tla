---------------------------- MODULE GatewayProofs ----------------------------
(***************************************************************************)
(* Proofs about Gateway, for any number of workers, any thresholds and any *)
(* replies of the other services.                                          *)
(***************************************************************************)
EXTENDS Gateway, TLAPS

-----------------------------------------------------------------------------
(* Breakers and plans.                                                     *)

\* The methods of CircuitBreaker keep its fields in range.
LEMMA BreakerType ==
    ASSUME NEW b \in Breaker
    PROVE  /\ AfterIsAvailable(b) \in Breaker
           /\ onSuccess(b) \in Breaker
           /\ onFailure(b) \in Breaker
           /\ Aged(b) \in Breaker
  <1> USE DEF Breaker
  <1>0. FailureThreshold \in Nat \ {0} /\ RetryTimeout \in Nat \ {0}
    BY BreakerAssumption DEF BreakerAssumption
  <1>1. Counted(b) \in 0..FailureThreshold
    BY <1>0 DEF Counted
  <1>2. AfterIsAvailable(b) \in Breaker
    BY DEF AfterIsAvailable, Available
  <1>3. onSuccess(b) \in Breaker
    BY <1>0 DEF onSuccess
  <1>4. onFailure(b) \in Breaker
    BY <1>0, <1>1 DEF onFailure
  <1>5. Aged(b) \in Breaker
    BY <1>0 DEF Aged, Aging
  <1> QED
    BY <1>2, <1>3, <1>4, <1>5

\* A handler's plan is a list of calls, and starts with a guarded one.
LEMMA PlanType ==
    ASSUME NEW e \in AllEndpoints, NEW n \in Nat
    PROVE  Plan(e, n) \in Seq(Calls) /\ Plan(e, n) # <<>>
  <1>1. Flights(n) \in Seq(Calls)
    BY DEF Flights, Calls
  <1>2. \A c \in Calls : <<c>> \in Seq(Calls) /\ <<c>> # <<>>
    OBVIOUS
  <1>3. \A c, d \in Calls : <<c, d>> \in Seq(Calls) /\ <<c, d>> # <<>>
    OBVIOUS
  <1>4. \A c, d, f \in Calls : <<c, d, f>> \in Seq(Calls) /\ <<c, d, f>> # <<>>
    OBVIOUS
  <1>5. \A s \in Services : Critical(s) \in Calls
    BY DEF Calls
  <1>6. Fallback("flight") \in Calls /\ Fallback("bonus") \in Calls /\ Purchase \in Calls /\ Refund \in Calls
    BY DEF Calls
  <1>7. ASSUME NEW p \in Seq(Calls), p # <<>>
        PROVE  p \o Flights(n) \in Seq(Calls) /\ p \o Flights(n) # <<>>
    BY <1>1, <1>7
  <1> QED
    BY <1>2, <1>3, <1>4, <1>5, <1>6, <1>7
       DEF Plan, FlightsGetPoint, TicketGetPoint, TicketsGetPoint, PrivilegeGetPoint, MeGetPoint,
           BuyPoint, ReturnPoint, AllEndpoints, Services

\* The services of calls.
LEMMA CallType ==
    ASSUME NEW c \in Calls, c.kind \in GuardedKinds
    PROVE  c.svc \in Services /\ (c.kind = "fallback" => c.svc # "ticket")
  BY DEF Calls, GuardedKinds, Services, Critical, Fallback, Purchase, CancelTicket, Refund, Publish

-----------------------------------------------------------------------------
(* Type correctness.  The handlers' part first, one lemma for each way a   *)
(* handler goes on.                                                        *)

LEMMA AnswerType ==
    ASSUME HandlersOK, NEW w \in Workers, NEW status \in Statuses \cup {NoAnswer}, Answer(w, status)
    PROVE  HandlersOK'
  BY DEF HandlersOK, Answer, Phases

LEMMA ProceedType ==
    ASSUME HandlersOK, NEW w \in Workers, phase[w] # "idle", Proceed(w)
    PROVE  HandlersOK'
  <1>1. todo[w] \in Seq(Calls) /\ todo[w] # <<>>
    BY DEF HandlersOK
  <1>2. Tail(todo[w]) \in Seq(Calls)
    BY <1>1
  <1>3. SuccessStatus(endpoint[w]) \in Statuses
    BY DEF SuccessStatus, Statuses
  <1> QED
    BY <1>2, <1>3 DEF HandlersOK, Proceed, Phases

LEMMA InsteadType ==
    ASSUME HandlersOK, NEW w \in Workers, NEW c \in Calls, NEW status \in Statuses \cup {NoAnswer},
           Instead(w, c, status)
    PROVE  HandlersOK'
  BY DEF HandlersOK, Instead, Phases

\* What a worker between lock() and unlock() works on.
LEMMA CurrentType ==
    ASSUME HandlersOK, NEW w \in Workers, phase[w] \in {"calling", "refused"}
           \/ (phase[w] = "wait" /\ Current(w).kind \in GuardedKinds)
    PROVE  /\ Current(w) \in Calls
           /\ Current(w).kind \in GuardedKinds
           /\ Svc(w) \in Services
           /\ Current(w).kind = "fallback" => Svc(w) # "ticket"
  <1>1. todo[w] \in Seq(Calls) /\ todo[w] # <<>>
    BY DEF HandlersOK
  <1>2. Current(w) \in Calls
    BY <1>1 DEF Current
  <1>3. Current(w).kind \in GuardedKinds
    BY DEF HandlersOK, Current
  <1> QED
    BY <1>2, <1>3, CallType DEF Svc

LEMMA TypeInit == Init => TypeOK
  BY BreakerAssumption DEF Init, TypeOK, HandlersOK, Fresh, Breaker, Phases, BreakerAssumption

LEMMA TypeStep == TypeOK /\ [Next]_vars => TypeOK'
  <1> SUFFICES ASSUME TypeOK, [Next]_vars PROVE TypeOK'
    OBVIOUS
  <1> USE DEF TypeOK
  <1>b. ASSUME NEW w \in Workers, NEW b \in Breaker, Update(w, b)
        PROVE  breaker' \in [Services -> Breaker]
    BY <1>b DEF Update
  <1>c. ASSUME NEW w \in Workers, Release(w)
        PROVE  lock' \in [Services -> Workers \cup {NoWorker}]
    BY <1>c DEF Release
  <1>d. ASSUME NEW w \in Workers, phase[w] \in {"calling", "refused"}
        PROVE  breaker[Svc(w)] \in Breaker
    BY <1>d, CurrentType
  <1>1. ASSUME NEW w \in Workers, Receive(w) PROVE TypeOK'
    <2>1. PICK e \in Endpoints, n \in TicketLists :
              /\ endpoint' = [endpoint EXCEPT ![w] = e]
              /\ todo' = [todo EXCEPT ![w] = Plan(e, n)]
      BY <1>1 DEF Receive
    <2>2. e \in AllEndpoints /\ n \in Nat
      BY GatewayAssumption DEF GatewayAssumption
    <2>3. Plan(e, n) \in Seq(Calls) /\ Plan(e, n) # <<>>
      BY <2>2, PlanType
    <2>4. HandlersOK'
      BY <1>1, <2>1, <2>3 DEF Receive, HandlersOK, Phases
    <2> QED
      BY <1>1, <2>1, <2>2, <2>4 DEF Receive
  <1>2. ASSUME NEW w \in Workers, ReceiveLocal(w) PROVE TypeOK'
    <2>1. endpoint' \in [Workers -> AllEndpoints \cup {"HealthPoint"}]
      BY <1>2, GatewayAssumption DEF ReceiveLocal, GatewayAssumption
    <2>2. answer' \in [Workers -> Statuses \cup {NoAnswer}]
      <3>1. 200 \in Statuses /\ 400 \in Statuses /\ 500 \in Statuses
        BY DEF Statuses
      <3>2. \E st \in {200, 400, 500} : answer' = [answer EXCEPT ![w] = st]
        BY <1>2 DEF ReceiveLocal
      <3> QED
        BY <3>1, <3>2 DEF HandlersOK
    <2>3. phase' = phase /\ todo' = todo
      BY <1>2 DEF ReceiveLocal
    <2>4. HandlersOK'
      BY <2>2, <2>3 DEF HandlersOK
    <2> QED
      BY <1>2, <2>1, <2>4 DEF ReceiveLocal
  <1>3. ASSUME NEW w \in Workers, Acquire(w) PROVE TypeOK'
    <2>1. Svc(w) \in Services /\ Current(w).kind \in GuardedKinds
      BY <1>3, CurrentType DEF Acquire
    <2>2. AfterIsAvailable(breaker[Svc(w)]) \in Breaker
      BY <2>1, BreakerType
    <2>3. HandlersOK'
      BY <1>3, <2>1 DEF Acquire, HandlersOK, Phases, Current
    <2> QED
      BY <1>3, <2>2, <2>3 DEF Acquire, Update
  <1>4. ASSUME NEW w \in Workers, Refused(w) PROVE TypeOK'
    <2>1. HandlersOK'
      <3>1. CASE \E st \in Statuses : Answer(w, st)
        BY <3>1, AnswerType
      <3>2. CASE Proceed(w)
        BY <1>4, <3>2, ProceedType DEF Refused
      <3>3. CASE Instead(w, CancelTicket, 503)
        BY <3>3, InsteadType DEF Calls, Statuses
      <3> QED
        BY <1>4, <3>1, <3>2, <3>3 DEF Refused, Statuses
    <2> QED
      BY <1>4, <1>c, <2>1 DEF Refused
  <1>5. ASSUME NEW w \in Workers, Failed(w) PROVE TypeOK'
    <2>1. HandlersOK'
      <3>1. CASE Answer(w, 503)
        BY <3>1, AnswerType DEF Statuses
      <3>2. CASE Proceed(w)
        BY <1>5, <3>2, ProceedType DEF Failed
      <3>3. CASE Instead(w, CancelTicket, 503)
        BY <3>3, InsteadType DEF Calls, Statuses
      <3> QED
        BY <1>5, <3>1, <3>2, <3>3 DEF Failed
    <2>2. onFailure(breaker[Svc(w)]) \in Breaker
      BY <1>5, <1>d, BreakerType DEF Failed
    <2> QED
      BY <1>5, <1>b, <1>c, <2>1, <2>2 DEF Failed
  <1>6. ASSUME NEW w \in Workers, Responded(w) PROVE TypeOK'
    <2>1. HandlersOK'
      <3>1. CASE \E st \in Statuses : Answer(w, st)
        BY <3>1, AnswerType
      <3>2. CASE Proceed(w)
        BY <1>6, <3>2, ProceedType DEF Responded
      <3>3. CASE Instead(w, CancelTicket, 500)
        BY <3>3, InsteadType DEF Calls, Statuses
      <3>4. \A r : ErrorStatus(endpoint[w], r) \in Statuses
        BY DEF ErrorStatus, Statuses
      <3>5. 500 \in Statuses
        BY DEF Statuses
      <3> QED
        BY <1>6, <3>1, <3>2, <3>3, <3>4, <3>5 DEF Responded
    <2>2. onSuccess(breaker[Svc(w)]) \in Breaker
      BY <1>6, <1>d, BreakerType DEF Responded
    <2> QED
      BY <1>6, <1>b, <1>c, <2>1, <2>2 DEF Responded
  <1>7. ASSUME NEW w \in Workers, FallbackResponded(w) PROVE TypeOK'
    <2>1. HandlersOK'
      <3>1. CASE \E st \in Statuses : Answer(w, st)
        BY <3>1, AnswerType
      <3>2. CASE Proceed(w)
        BY <1>7, <3>2, ProceedType DEF FallbackResponded
      <3> QED
        BY <1>7, <3>1, <3>2 DEF FallbackResponded, Statuses
    <2>2. /\ onSuccess(breaker[Svc(w)]) \in Breaker
          /\ onFailure(onSuccess(breaker[Svc(w)])) \in Breaker
      BY <1>7, <1>d, BreakerType DEF FallbackResponded
    <2>3. breaker' \in [Services -> Breaker]
      BY <1>7, <1>b, <2>2 DEF FallbackResponded
    <2>4. lock' \in [Services -> Workers \cup {NoWorker}]
      BY <1>7, <1>c DEF FallbackResponded
    <2> QED
      BY <1>7, <2>1, <2>3, <2>4 DEF FallbackResponded
  <1>8. ASSUME NEW w \in Workers, Cancel(w) PROVE TypeOK'
    <2>1. answer[w] \in Statuses \cup {NoAnswer}
      BY DEF HandlersOK
    <2>2. HandlersOK'
      BY <1>8, <2>1, AnswerType DEF Cancel, Statuses
    <2> QED
      BY <1>8, <2>2 DEF Cancel
  <1>9. ASSUME NEW w \in Workers, RefundBonus(w) PROVE TypeOK'
    <2>1. HandlersOK'
      <3>1. CASE Proceed(w)
        BY <1>9, <3>1, ProceedType DEF RefundBonus
      <3>2. CASE Instead(w, Publish, NoAnswer)
        BY <3>2, InsteadType DEF Calls
      <3> QED
        BY <1>9, <3>1, <3>2 DEF RefundBonus
    <2> QED
      BY <1>9, <2>1 DEF RefundBonus
  <1>10. ASSUME NEW w \in Workers, PublishRefund(w) PROVE TypeOK'
    <2>1. HandlersOK'
      BY <1>10, ProceedType DEF PublishRefund
    <2> QED
      BY <1>10, <2>1 DEF PublishRefund
  <1>11. ASSUME NEW s \in Services, Tick(s) PROVE TypeOK'
    <2>1. Aged(breaker[s]) \in Breaker
      BY BreakerType
    <2> QED
      BY <1>11, <2>1 DEF Tick, HandlersOK
  <1>12. CASE UNCHANGED vars
    BY <1>12 DEF vars, HandlersOK
  <1> QED
    BY <1>1, <1>2, <1>3, <1>4, <1>5, <1>6, <1>7, <1>8, <1>9, <1>10, <1>11, <1>12 DEF Next, Work

\* Every variable keeps its type, and a handler has calls left exactly while it
\* runs.
THEOREM TypeCorrect == Spec => []TypeOK
  BY TypeInit, TypeStep, PTL DEF Spec

-----------------------------------------------------------------------------
(* Mutexes.                                                                *)

\* The invariant that every argument about the mutexes starts from.
LockInv == TypeOK /\ GuardedCallHoldsLock

\* The mutexes that a step leaves locked only inside a section.
CannotLeak(s) == s = "ticket" \/ FallbackReplies \cap {"notFound", "error"} = {}

\* What a step does to the mutexes.
LocksKept == /\ GuardedCallHoldsLock'
             /\ \A s \in Services : CannotLeak(s) /\ NeverLeaks(s) => NeverLeaks(s)'

\* How Answer, Proceed and Instead move the worker: out of every section, and
\* without touching the others.
GoesOn(w) == /\ phase' = [phase EXCEPT ![w] = phase'[w]]
             /\ phase'[w] \notin {"calling", "refused"}
             /\ \A v \in Workers \ {w} : todo'[v] = todo[v]

LEMMA HandlerGoesOn ==
    ASSUME HandlersOK, NEW w \in Workers,
           \/ \E st \in Statuses \cup {NoAnswer} : Answer(w, st)
           \/ Proceed(w)
           \/ \E c \in Calls, st \in Statuses \cup {NoAnswer} : Instead(w, c, st)
    PROVE  GoesOn(w)
  BY DEF HandlersOK, Answer, Proceed, Instead, GoesOn

\* All actions of a worker but lock() and the answers given on the spot.
LEMMA ActionsGoOn ==
    ASSUME HandlersOK, NEW w \in Workers,
           \/ Receive(w) \/ Refused(w) \/ Failed(w) \/ Responded(w) \/ FallbackResponded(w)
           \/ Cancel(w) \/ RefundBonus(w) \/ PublishRefund(w)
    PROVE  GoesOn(w)
  <1>1. {502, 503, 500} \subseteq Statuses /\ CancelTicket \in Calls /\ Publish \in Calls
    BY DEF Statuses, Calls
  <1>2. \A r : ErrorStatus(endpoint[w], r) \in Statuses
    BY DEF ErrorStatus, Statuses
  <1>3. answer[w] \in Statuses \cup {NoAnswer}
    BY DEF HandlersOK
  <1>4. CASE Receive(w)
    BY <1>4 DEF Receive, HandlersOK, GoesOn
  <1>5. CASE Refused(w)
    BY <1>5, <1>1, HandlerGoesOn DEF Refused
  <1>6. CASE Failed(w)
    BY <1>6, <1>1, HandlerGoesOn DEF Failed
  <1>7. CASE Responded(w)
    BY <1>7, <1>1, <1>2, HandlerGoesOn DEF Responded
  <1>8. CASE FallbackResponded(w)
    BY <1>8, <1>1, HandlerGoesOn DEF FallbackResponded
  <1>9. CASE Cancel(w)
    BY <1>9, <1>1, <1>3, HandlerGoesOn DEF Cancel
  <1>10. CASE RefundBonus(w)
    BY <1>10, <1>1, HandlerGoesOn DEF RefundBonus
  <1>11. CASE PublishRefund(w)
    BY <1>11, HandlerGoesOn DEF PublishRefund
  <1> QED
    BY <1>4, <1>5, <1>6, <1>7, <1>8, <1>9, <1>10, <1>11

\* A worker that goes on is in no section, and the others are where they were.
LEMMA SectionsAfter ==
    ASSUME HandlersOK, NEW w \in Workers, GoesOn(w)
    PROVE  /\ \A s : ~InSection(w, s)'
           /\ \A v \in Workers \ {w} : \A s : InSection(v, s)' <=> InSection(v, s)
  BY DEF HandlersOK, GoesOn, InSection, Svc, Current

\* It goes on and unlocks the mutex of its section.
LEMMA LeaveSection ==
    ASSUME LockInv, NEW w \in Workers, phase[w] \in {"calling", "refused"}, Release(w), GoesOn(w)
    PROVE  LocksKept
  <1>h. HandlersOK
    BY DEF LockInv, TypeOK
  <1>1. Svc(w) \in Services
    BY <1>h, CurrentType
  <1>2. /\ \A s : ~InSection(w, s)'
        /\ \A v \in Workers \ {w} : \A s : InSection(v, s)' <=> InSection(v, s)
    BY <1>h, SectionsAfter
  <1>3. lock[Svc(w)] = w
    BY <1>1 DEF LockInv, GuardedCallHoldsLock, InSection
  <1>4. lock' = [lock EXCEPT ![Svc(w)] = NoWorker] /\ lock \in [Services -> Workers \cup {NoWorker}]
    BY DEF Release, LockInv, TypeOK
  <1>5. GuardedCallHoldsLock'
    <2> SUFFICES ASSUME NEW v \in Workers, NEW s \in Services, InSection(v, s)' PROVE lock'[s] = v
      BY DEF GuardedCallHoldsLock
    <2>1. v # w
      BY <1>2
    <2>2. lock[s] = v
      BY <1>2, <2>1 DEF LockInv, GuardedCallHoldsLock
    <2> QED
      BY <1>3, <1>4, <2>1, <2>2
  <1>6. ASSUME NEW s \in Services, NeverLeaks(s) PROVE NeverLeaks(s)'
    <2> SUFFICES ASSUME NEW v \in Workers, lock'[s] = v PROVE InSection(v, s)'
      BY DEF NeverLeaks
    <2>1. lock[s] = v /\ Svc(w) # s
      BY <1>4, GatewayAssumption DEF GatewayAssumption
    <2>2. InSection(v, s)
      BY <1>6, <2>1 DEF NeverLeaks
    <2>3. v # w
      BY <2>1, <2>2 DEF InSection
    <2> QED
      BY <1>2, <2>2, <2>3
  <1> QED
    BY <1>5, <1>6 DEF LocksKept

\* It goes on from outside every section and leaves the mutexes alone.
LEMMA OutsideSection ==
    ASSUME LockInv, NEW w \in Workers, phase[w] \notin {"calling", "refused"}, UNCHANGED lock, GoesOn(w)
    PROVE  LocksKept
  <1>1. /\ \A s : ~InSection(w, s)'
        /\ \A v \in Workers \ {w} : \A s : InSection(v, s)' <=> InSection(v, s)
    BY SectionsAfter DEF LockInv, TypeOK
  <1>2. \A s : ~InSection(w, s)
    BY DEF InSection
  <1> QED
    BY <1>1, <1>2 DEF LockInv, LocksKept, GuardedCallHoldsLock, NeverLeaks

\* Nothing a section depends on changes.
LEMMA SectionsUnchanged ==
    ASSUME LockInv, UNCHANGED <<lock, phase, todo>>
    PROVE  LocksKept
  BY DEF LockInv, LocksKept, GuardedCallHoldsLock, NeverLeaks, InSection, Svc, Current

LEMMA LockStep == LockInv /\ [Next]_vars => LocksKept
  <1> SUFFICES ASSUME LockInv, [Next]_vars PROVE LocksKept
    OBVIOUS
  <1>h. HandlersOK
    BY DEF LockInv, TypeOK
  <1>1. ASSUME NEW w \in Workers, Receive(w) PROVE LocksKept
    BY <1>1, <1>h, ActionsGoOn, OutsideSection DEF Receive
  <1>2. ASSUME NEW w \in Workers, ReceiveLocal(w) PROVE LocksKept
    BY <1>2, SectionsUnchanged DEF ReceiveLocal
  <1>3. ASSUME NEW w \in Workers, Acquire(w) PROVE LocksKept
    <2>1. Svc(w) \in Services /\ lock[Svc(w)] = NoWorker /\ lock' = [lock EXCEPT ![Svc(w)] = w]
      BY <1>3, <1>h, CurrentType DEF Acquire
    <2>2. InSection(w, Svc(w))' /\ Svc(w)' = Svc(w)
      BY <1>3, <1>h DEF Acquire, InSection, Svc, Current, HandlersOK
    <2>3. \A v \in Workers \ {w} : \A s : InSection(v, s)' <=> InSection(v, s)
      BY <1>3, <1>h DEF Acquire, InSection, Svc, Current, HandlersOK
    <2>4. lock \in [Services -> Workers \cup {NoWorker}]
      BY DEF LockInv, TypeOK
    <2>5. ~InSection(w, Svc(w))
      BY <1>3 DEF Acquire, InSection
    <2>6. GuardedCallHoldsLock'
      <3> SUFFICES ASSUME NEW v \in Workers, NEW s \in Services, InSection(v, s)' PROVE lock'[s] = v
        BY DEF GuardedCallHoldsLock
      <3>1. CASE v = w
        BY <2>1, <2>2, <2>4, <3>1 DEF InSection
      <3>2. CASE v # w
        BY <2>1, <2>3, <2>4, <3>2, GatewayAssumption DEF LockInv, GuardedCallHoldsLock, GatewayAssumption
      <3> QED
        BY <3>1, <3>2
    <2>7. ASSUME NEW s \in Services, NeverLeaks(s) PROVE NeverLeaks(s)'
      <3> SUFFICES ASSUME NEW v \in Workers, lock'[s] = v PROVE InSection(v, s)'
        BY DEF NeverLeaks
      <3>1. CASE s = Svc(w)
        BY <2>1, <2>2, <2>4, <3>1
      <3>2. CASE s # Svc(w)
        <4>1. InSection(v, s)
          BY <2>1, <2>4, <2>7, <3>2 DEF NeverLeaks
        <4>2. v # w
          BY <1>3, <4>1 DEF Acquire, InSection
        <4> QED
          BY <2>3, <4>1, <4>2
      <3> QED
        BY <3>1, <3>2
    <2> QED
      BY <2>6, <2>7 DEF LocksKept
  <1>4. ASSUME NEW w \in Workers, Refused(w) PROVE LocksKept
    BY <1>4, <1>h, ActionsGoOn, LeaveSection DEF Refused
  <1>5. ASSUME NEW w \in Workers, Failed(w) PROVE LocksKept
    BY <1>5, <1>h, ActionsGoOn, LeaveSection DEF Failed
  <1>6. ASSUME NEW w \in Workers, Responded(w) PROVE LocksKept
    BY <1>6, <1>h, ActionsGoOn, LeaveSection DEF Responded
  <1>7. ASSUME NEW w \in Workers, FallbackResponded(w) PROVE LocksKept
    <2>1. GoesOn(w)
      BY <1>7, <1>h, ActionsGoOn
    <2>2. CASE Release(w)
      BY <1>7, <2>1, <2>2, LeaveSection DEF FallbackResponded
    <2>3. CASE UNCHANGED lock /\ FallbackReplies \cap {"notFound", "error"} # {}
      <3>1. Svc(w) # "ticket" /\ phase[w] = "calling"
        BY <1>7, <1>h, CurrentType DEF FallbackResponded
      <3>2. /\ \A s : ~InSection(w, s)'
            /\ \A v \in Workers \ {w} : \A s : InSection(v, s)' <=> InSection(v, s)
        BY <2>1, <1>h, SectionsAfter
      <3>3. ~InSection(w, "ticket")
        BY <3>1 DEF InSection
      <3>4. \A s \in Services : CannotLeak(s) => s = "ticket"
        BY <2>3 DEF CannotLeak
      <3> QED
        BY <2>3, <3>2, <3>3, <3>4 DEF LockInv, LocksKept, GuardedCallHoldsLock, NeverLeaks
    <2> QED
      BY <1>7, <2>2, <2>3 DEF FallbackResponded
  <1>8. ASSUME NEW w \in Workers, Cancel(w) PROVE LocksKept
    BY <1>8, <1>h, ActionsGoOn, OutsideSection DEF Cancel
  <1>9. ASSUME NEW w \in Workers, RefundBonus(w) PROVE LocksKept
    BY <1>9, <1>h, ActionsGoOn, OutsideSection DEF RefundBonus
  <1>10. ASSUME NEW w \in Workers, PublishRefund(w) PROVE LocksKept
    BY <1>10, <1>h, ActionsGoOn, OutsideSection DEF PublishRefund
  <1>11. ASSUME NEW s \in Services, Tick(s) PROVE LocksKept
    BY <1>11, SectionsUnchanged DEF Tick
  <1>12. CASE UNCHANGED vars
    BY <1>12, SectionsUnchanged DEF vars
  <1> QED
    BY <1>1, <1>2, <1>3, <1>4, <1>5, <1>6, <1>7, <1>8, <1>9, <1>10, <1>11, <1>12 DEF Next, Work

LEMMA LockInit == Init => LockInv /\ NoLockLeaks
  BY TypeInit, GatewayAssumption
  DEF Init, LockInv, GuardedCallHoldsLock, NoLockLeaks, NeverLeaks, InSection, GatewayAssumption

LEMMA LockInvariant == Spec => []LockInv
  <1>1. LockInv /\ [Next]_vars => LockInv'
    BY LockStep, TypeStep DEF LockInv, LocksKept
  <1> QED
    BY LockInit, <1>1, PTL DEF Spec

\* Guarded calls to one service never overlap, whatever the services reply.
THEOREM MutualExclusion == Spec => []GuardedCallHoldsLock
  BY LockInvariant, PTL DEF LockInv

\* The Ticket Service's mutex is never left locked, whatever the services reply.
THEOREM TicketLockSafe == Spec => []TicketLockNeverLeaks
  <1>1. Init => TicketLockNeverLeaks
    BY LockInit DEF NoLockLeaks, TicketLockNeverLeaks, Services
  <1>2. LockInv /\ TicketLockNeverLeaks /\ [Next]_vars => TicketLockNeverLeaks'
    BY LockStep DEF LocksKept, TicketLockNeverLeaks, CannotLeak, Services
  <1> QED
    BY <1>1, <1>2, LockInvariant, PTL DEF Spec

\* No mutex is left locked if calls with a fallback fail only by not answering.
THEOREM NoLeakWithoutErrors ==
    ASSUME FallbackReplies \cap {"notFound", "error"} = {}
    PROVE  Spec => []NoLockLeaks
  <1>1. Init => NoLockLeaks
    BY LockInit
  <1>2. LockInv /\ NoLockLeaks /\ [Next]_vars => NoLockLeaks'
    BY LockStep DEF LocksKept, NoLockLeaks, CannotLeak
  <1> QED
    BY <1>1, <1>2, LockInvariant, PTL DEF Spec
=============================================================================
