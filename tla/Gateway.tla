------------------------------- MODULE Gateway -------------------------------
(***************************************************************************)
(* GatewayService: the worker threads of its asynchronous executor run the *)
(* handlers of GatewayController.hpp to completion, one at a time each.    *)
(* A handler is a list of calls to the other services.  Most calls are     *)
(* guarded: made while holding the service's entry of "locks" and only if  *)
(* its entry of "circuits" (a CircuitBreaker) lets them through.           *)
(*                                                                         *)
(* What the called services do is external to this module: a call ends     *)
(* with any reply of CriticalReplies or FallbackReplies.                   *)
(***************************************************************************)
EXTENDS BreakerOps, Sequences

CONSTANTS Workers,          \* threads of the executor
          NoWorker,         \* the owner of a free mutex
          Endpoints,        \* the handlers that clients use
          TicketLists,      \* numbers of tickets a user may have
          CriticalReplies,  \* how a call whose data the answer needs may end
          FallbackReplies   \* how a call that has a fallback may end

Services == {"flight", "ticket", "bonus"}

AllEndpoints == {"FlightsGetPoint", "TicketGetPoint", "TicketsGetPoint", "PrivilegeGetPoint",
                 "MeGetPoint", "BuyPoint", "ReturnPoint"}

\* A reply: status 200 with a readable body, 404, another status, no response
\* (the client throws), or status 200 with a body that readBodyToDto rejects.
AllReplies == {"ok", "notFound", "error", "none", "garbled"}

ASSUME GatewayAssumption == /\ NoWorker \notin Workers
                            /\ Endpoints \subseteq AllEndpoints
                            /\ TicketLists \subseteq Nat
                            /\ CriticalReplies \subseteq AllReplies
                            /\ FallbackReplies \subseteq AllReplies

\* The kinds of calls.  The last three are made without lock or breaker:
\* TicketDeletePoint after a failed purchase, ReturnPoint of the Bonus
\* Service, and the file and script that queue a return for later.
GuardedKinds == {"critical", "fallback", "purchase"}

Critical(s)  == [svc |-> s, kind |-> "critical"]
Fallback(s)  == [svc |-> s, kind |-> "fallback"]
Purchase     == [svc |-> "bonus", kind |-> "purchase"]
CancelTicket == [svc |-> "ticket", kind |-> "cancel"]
Refund       == [svc |-> "bonus", kind |-> "refund"]
Publish      == [svc |-> "queue", kind |-> "publish"]

Calls == {Critical(s) : s \in Services} \cup {Fallback("flight"), Fallback("bonus")}
           \cup {Purchase, CancelTicket, Refund, Publish}

Flights(n) == [i \in 1..n |-> Fallback("flight")]

\* The calls of each handler, in order; n is the number of the user's tickets.
FlightsGetPoint    == <<Critical("flight")>>
TicketGetPoint     == <<Critical("ticket"), Fallback("flight")>>
TicketsGetPoint(n) == <<Critical("ticket")>> \o Flights(n)
PrivilegeGetPoint  == <<Critical("bonus")>>
MeGetPoint(n)      == <<Fallback("bonus"), Critical("ticket")>> \o Flights(n)

BuyPoint           == <<Critical("flight"), Critical("ticket"), Purchase>>

\* Mutant of ReturnPoint: the bonuses are given back before the ticket is canceled.
ReturnPointRefundsFirst == <<Refund, Critical("ticket")>>

ReturnPoint        == <<Critical("ticket"), Refund>>

Plan(e, n) ==
    CASE e = "FlightsGetPoint"   -> FlightsGetPoint
      [] e = "TicketGetPoint"    -> TicketGetPoint
      [] e = "TicketsGetPoint"   -> TicketsGetPoint(n)
      [] e = "PrivilegeGetPoint" -> PrivilegeGetPoint
      [] e = "MeGetPoint"        -> MeGetPoint(n)
      [] e = "BuyPoint"          -> BuyPoint
      [] e = "ReturnPoint"       -> ReturnPoint

Statuses == {200, 204, 400, 404, 500, 502, 503}

NoAnswer == 0

VARIABLES
    lock,       \* locks: the worker that holds each mutex
    breaker,    \* circuits: the breaker of each service
    phase,      \* what each worker does
    endpoint,   \* the handler it runs, or ran last
    todo,       \* the calls the handler still makes, the current one first
    answer      \* the status it answers, once decided

vars == <<lock, breaker, phase, endpoint, todo, answer>>

\* "idle": no request; "wait": about to make the current call; "calling": the
\* guarded call is under way; "refused": the breaker refused it.
Phases == {"idle", "wait", "calling", "refused"}

\* A worker has calls to make exactly while it has a request, and is past
\* lock() only for a guarded call.
HandlersOK ==
    /\ phase \in [Workers -> Phases]
    /\ todo \in [Workers -> Seq(Calls)]
    /\ answer \in [Workers -> Statuses \cup {NoAnswer}]
    /\ \A w \in Workers : phase[w] = "idle" <=> todo[w] = <<>>
    /\ \A w \in Workers : phase[w] \in {"calling", "refused"} => Head(todo[w]).kind \in GuardedKinds

\* Types of the variables, and the handlers' state as described above.
TypeOK ==
    /\ lock \in [Services -> Workers \cup {NoWorker}]
    /\ breaker \in [Services -> Breaker]
    /\ endpoint \in [Workers -> AllEndpoints \cup {"HealthPoint"}]
    /\ HandlersOK

Init ==
    /\ lock = [s \in Services |-> NoWorker]
    /\ breaker = [s \in Services |-> Fresh]
    /\ phase = [w \in Workers |-> "idle"]
    /\ endpoint = [w \in Workers |-> "HealthPoint"]
    /\ todo = [w \in Workers |-> <<>>]
    /\ answer = [w \in Workers |-> NoAnswer]
-----------------------------------------------------------------------------
Current(w) == Head(todo[w])
Svc(w) == Current(w).svc

\* Worker w is between lock() and unlock() of service s.
InSection(w, s) == phase[w] \in {"calling", "refused"} /\ Svc(w) = s

\* Mutant of Release: the mutex of the Flight Service is unlocked instead.
ReleaseFlight(w) == lock' = [lock EXCEPT !["flight"] = NoWorker]

Release(w) == lock' = [lock EXCEPT ![Svc(w)] = NoWorker]

Update(w, b) == breaker' = [breaker EXCEPT ![Svc(w)] = b]

\* Mutant of Answer: the rest of the handler's calls is kept.
AnswerKeepsPlan(w, status) ==
    /\ phase' = [phase EXCEPT ![w] = "idle"]
    /\ answer' = [answer EXCEPT ![w] = status]
    /\ UNCHANGED todo

\* The handler returns.
Answer(w, status) ==
    /\ phase' = [phase EXCEPT ![w] = "idle"]
    /\ todo' = [todo EXCEPT ![w] = <<>>]
    /\ answer' = [answer EXCEPT ![w] = status]

SuccessStatus(e) == IF e = "ReturnPoint" THEN 204 ELSE 200

\* Mutant of Proceed: the call is made again.
ProceedRepeats(w) ==
    /\ phase' = [phase EXCEPT ![w] = "wait"]
    /\ UNCHANGED <<todo, answer>>

\* The current call is done; the handler makes the next one, or returns.
Proceed(w) ==
    /\ todo' = [todo EXCEPT ![w] = Tail(@)]
    /\ IF Tail(todo[w]) = <<>>
       THEN /\ phase' = [phase EXCEPT ![w] = "idle"]
            /\ answer' = [answer EXCEPT ![w] = SuccessStatus(endpoint[w])]
       ELSE /\ phase' = [phase EXCEPT ![w] = "wait"]
            /\ UNCHANGED answer

\* The handler goes on with one call that was not planned.
Instead(w, call, status) ==
    /\ todo' = [todo EXCEPT ![w] = <<call>>]
    /\ phase' = [phase EXCEPT ![w] = "wait"]
    /\ answer' = [answer EXCEPT ![w] = status]
-----------------------------------------------------------------------------
\* A worker takes a request that passes validation.
Receive(w) ==
    /\ phase[w] = "idle"
    /\ \E e \in Endpoints, n \in TicketLists :
          /\ endpoint' = [endpoint EXCEPT ![w] = e]
          /\ todo' = [todo EXCEPT ![w] = Plan(e, n)]
    /\ phase' = [phase EXCEPT ![w] = "wait"]
    /\ answer' = [answer EXCEPT ![w] = NoAnswer]
    /\ UNCHANGED <<lock, breaker>>

\* A worker answers a request without calling anyone: /manage/health, or a
\* request that lacks its user name or its ticket, has a page out of range or
\* a body that does not parse; a page that is no number (std::stoi throws)
\* ends the handler with the framework's status 500.
ReceiveLocal(w) ==
    /\ phase[w] = "idle"
    /\ \/ /\ endpoint' = [endpoint EXCEPT ![w] = "HealthPoint"]
          /\ answer' = [answer EXCEPT ![w] = 200]
       \/ /\ \E e \in Endpoints : endpoint' = [endpoint EXCEPT ![w] = e]
          /\ answer' = [answer EXCEPT ![w] = 400]
       \/ /\ "FlightsGetPoint" \in Endpoints
          /\ endpoint' = [endpoint EXCEPT ![w] = "FlightsGetPoint"]
          /\ answer' = [answer EXCEPT ![w] = 500]
    /\ UNCHANGED <<lock, breaker, phase, todo>>

\* lock(), then isAvailable().  std::mutex is not recursive: a worker that
\* already holds it waits as well.
Acquire(w) ==
    /\ phase[w] = "wait"
    /\ Current(w).kind \in GuardedKinds
    /\ lock[Svc(w)] = NoWorker
    /\ lock' = [lock EXCEPT ![Svc(w)] = w]
    /\ phase' = [phase EXCEPT ![w] = IF Available(breaker[Svc(w)]) THEN "calling" ELSE "refused"]
    /\ Update(w, AfterIsAvailable(breaker[Svc(w)]))
    /\ UNCHANGED <<endpoint, todo, answer>>

\* The breaker refused the call: the handler answers, goes on without the
\* data, or cancels the ticket it has just created.
Refused(w) ==
    /\ phase[w] = "refused"
    /\ Release(w)
    /\ \/ /\ Current(w).kind = "critical"
          /\ Answer(w, IF endpoint[w] = "PrivilegeGetPoint" THEN 502 ELSE 503)
       \/ /\ Current(w).kind = "fallback"
          /\ Proceed(w)
       \/ /\ Current(w).kind = "purchase"
          /\ Instead(w, CancelTicket, 503)
    /\ UNCHANGED <<breaker, endpoint>>

\* No response: the handler's catch (...) branch.
Failed(w) ==
    /\ phase[w] = "calling"
    /\ \/ /\ Current(w).kind = "critical" /\ "none" \in CriticalReplies
          /\ Answer(w, 503)
       \/ /\ Current(w).kind = "purchase" /\ "none" \in CriticalReplies
          /\ Instead(w, CancelTicket, 503)
       \/ /\ Current(w).kind = "fallback" /\ "none" \in FallbackReplies
          /\ Proceed(w)
    /\ Update(w, onFailure(breaker[Svc(w)]))
    /\ Release(w)
    /\ UNCHANGED endpoint

\* FlightsGetPoint, TicketsGetPoint and MeGetPoint never look at the status of
\* the response whose body they read.
StatusIsChecked(e) == e \notin {"FlightsGetPoint", "TicketsGetPoint", "MeGetPoint"}

\* The status the others answer when a critical call does not end with 200.
ErrorStatus(e, r) == IF e = "ReturnPoint" \/ (e = "TicketGetPoint" /\ r = "notFound") THEN 404 ELSE 500

\* ReturnPoint never reads the body of the ticket's update.
BodyIsUsed(e) == e # "ReturnPoint"

\* What a response holds for a handler: an error status is one only where it is
\* checked, and elsewhere comes with a body that can be read or with one that
\* cannot.
TakenAs(e, r) == IF r \in {"notFound", "error"} /\ ~StatusIsChecked(e) THEN {"ok", "garbled"} ELSE {r}

\* A response to a critical call: onSuccess() and unlock() come before the
\* handler looks at it.  An unreadable body ends the handler with the
\* framework's status 500.
Responded(w) ==
    /\ phase[w] = "calling"
    /\ Current(w).kind \in {"critical", "purchase"}
    /\ \E r \in UNION {TakenAs(endpoint[w], reply) : reply \in CriticalReplies \ {"none"}} :
          \/ /\ r = "ok" \/ (r = "garbled" /\ ~BodyIsUsed(endpoint[w]))
             /\ Proceed(w)
          \/ /\ r = "garbled" /\ BodyIsUsed(endpoint[w])
             /\ Answer(w, 500)
          \/ /\ r \in {"notFound", "error"} /\ Current(w).kind = "critical"
             /\ Answer(w, ErrorStatus(endpoint[w], r))
          \/ /\ r \in {"notFound", "error"} /\ Current(w).kind = "purchase"
             /\ Instead(w, CancelTicket, 500)
    /\ Update(w, onSuccess(breaker[Svc(w)]))
    /\ Release(w)
    /\ UNCHANGED endpoint

\* A response to a call that has a fallback: its body is read inside the try
\* block, so an unreadable one counts as a success and then as a failure; a
\* status other than 200 returns from the handler before unlock().
FallbackResponded(w) ==
    /\ phase[w] = "calling"
    /\ Current(w).kind = "fallback"
    /\ \/ /\ "ok" \in FallbackReplies
          /\ Update(w, onSuccess(breaker[Svc(w)]))
          /\ Release(w)
          /\ Proceed(w)
       \/ /\ "garbled" \in FallbackReplies
          /\ Update(w, onFailure(onSuccess(breaker[Svc(w)])))
          /\ Release(w)
          /\ Proceed(w)
       \/ /\ FallbackReplies \cap {"notFound", "error"} # {}
          /\ Update(w, onSuccess(breaker[Svc(w)]))
          /\ UNCHANGED lock
          /\ Answer(w, IF Svc(w) = "bonus" THEN 503 ELSE 500)
    /\ UNCHANGED endpoint

\* TicketDeletePoint: its status is ignored, an exception is not caught.
Cancel(w) ==
    /\ phase[w] = "wait" /\ Current(w).kind = "cancel"
    /\ \/ Answer(w, answer[w])
       \/ /\ "none" \in CriticalReplies
          /\ Answer(w, 500)
    /\ UNCHANGED <<lock, breaker, endpoint>>

\* ReturnPoint of the Bonus Service: an exception or a status other than 200
\* makes the handler queue the return.
RefundBonus(w) ==
    /\ phase[w] = "wait" /\ Current(w).kind = "refund"
    /\ \/ Proceed(w)
       \/ /\ CriticalReplies \cap {"none", "notFound", "error"} # {}
          /\ Instead(w, Publish, NoAnswer)
    /\ UNCHANGED <<lock, breaker, endpoint>>

\* message.txt is written and publish.py run; the result is ignored.
PublishRefund(w) ==
    /\ phase[w] = "wait" /\ Current(w).kind = "publish"
    /\ Proceed(w)
    /\ UNCHANGED <<lock, breaker, endpoint>>

\* Another whole second has gone by since the breaker of service s opened.
Tick(s) ==
    /\ Aging(breaker[s])
    /\ breaker' = [breaker EXCEPT ![s] = Aged(@)]
    /\ UNCHANGED <<lock, phase, endpoint, todo, answer>>

\* A worker goes on with the request it has.
Work(w) == \/ Acquire(w) \/ Refused(w) \/ Failed(w) \/ Responded(w) \/ FallbackResponded(w)
           \/ Cancel(w) \/ RefundBonus(w) \/ PublishRefund(w)

Next == \/ \E w \in Workers : Receive(w) \/ ReceiveLocal(w) \/ Work(w)
        \/ \E s \in Services : Tick(s)

Spec == Init /\ [][Next]_vars

\* Threads are scheduled, calls end and time passes.
Fairness == /\ \A w \in Workers : WF_vars(Work(w))
            /\ \A s \in Services : WF_vars(Tick(s))

FairSpec == Spec /\ Fairness
-----------------------------------------------------------------------------
\* Calls guarded by one mutex never overlap: whoever is between lock() and
\* unlock() of a service owns its mutex, even after another handler returned
\* without unlock().
GuardedCallHoldsLock ==
    \A w \in Workers, s \in Services : InSection(w, s) => lock[s] = w

\* Whoever owns the mutex of service s is between lock() and unlock().
NeverLeaks(s) == \A w \in Workers : lock[s] = w => InSection(w, s)

\* Every handler that locks the Ticket Service unlocks it on every path,
\* whatever that service replies.
TicketLockNeverLeaks == NeverLeaks("ticket")

\* No handler returns, or goes on to its next call, with a mutex locked; so no
\* worker ever holds two.  True only as long as no call that has a fallback
\* ends with a status other than 200.
NoLockLeaks == \A s \in Services : NeverLeaks(s)

\* Each circuit breaker, together with its lock and the handlers that use both,
\* does what a breaker promises.
Mode(s) == IF \E w \in Workers : phase[w] = "calling" /\ Svc(w) = s THEN "calling"
           ELSE IF \E w \in Workers : phase[w] = "refused" /\ Svc(w) = s THEN "refused"
           ELSE "idle"

Streak(s) == breaker[s].failureCount

Pause(s) == IF breaker[s].open THEN RetryTimeout - breaker[s].elapsed ELSE 0

FlightBreaker == INSTANCE AbstractBreaker
    WITH mode <- Mode("flight"), streak <- Streak("flight"), pause <- Pause("flight")
TicketBreaker == INSTANCE AbstractBreaker
    WITH mode <- Mode("ticket"), streak <- Streak("ticket"), pause <- Pause("ticket")
BonusBreaker == INSTANCE AbstractBreaker
    WITH mode <- Mode("bonus"), streak <- Streak("bonus"), pause <- Pause("bonus")

\* GatewayController's breakers keep the promise for each of the services.
BreakerContract == FlightBreaker!Spec /\ TicketBreaker!Spec /\ BonusBreaker!Spec

\* Refusing requests never postpones the trial call: an open breaker lets one
\* through again.
TrialEventuallyAllowed == \A s \in Services : breaker[s].open ~> Available(breaker[s])

\* Every locked mutex is unlocked again.
LocksAreReleased == \A s \in Services : lock[s] # NoWorker ~> lock[s] = NoWorker

\* There is always a thread to come that can take a request, /manage/health
\* included.
HealthIsServed == []<>(\E w \in Workers : phase[w] = "idle")

=============================================================================
