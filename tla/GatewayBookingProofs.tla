------------------------- MODULE GatewayBookingProofs -------------------------
(***************************************************************************)
(* Proof that the handlers of GatewayBooking implement Booking, for any    *)
(* number of threads of the gateway and of the Bonus Service, any          *)
(* thresholds, replies, users, tickets and prices.                         *)
(***************************************************************************)
EXTENDS GatewayBooking, TLAPS

\* Worker w runs handler e and has these calls to make.
At(w, e, calls) == phase[w] # "idle" /\ endpoint[w] = e /\ todo[w] = calls

\* The request names a ticket that exists, or existed.
Knows(w) == request[w].ticket \in Tickets /\ ticket[request[w].ticket] # B!Absent

\* Where a worker can be in its handler.
Place(w) ==
    \/ phase[w] = "idle"
    \/ At(w, "BuyPoint", BuyPoint)
    \/ At(w, "BuyPoint", <<Critical("ticket"), Purchase>>)
    \/ At(w, "BuyPoint", <<Purchase>>) /\ Knows(w)
    \/ At(w, "BuyPoint", <<CancelTicket>>) /\ Knows(w) /\ phase[w] = "wait" /\ answer[w] # 200
    \/ At(w, "ReturnPoint", ReturnPoint) /\ Knows(w)
    \/ At(w, "ReturnPoint", <<Refund>>) /\ Knows(w) /\ phase[w] = "wait"
    \/ At(w, "ReturnPoint", <<Publish>>) /\ Knows(w) /\ phase[w] = "wait"

\* message.txt is only open at the end of a return.
WritesAtEnd(w) == writing[w] = "open" \/ At(w, "ReturnPoint", <<Publish>>)

\* Worker w waits for the Bonus Service.
Waits(w) == \/ phase[w] = "calling" /\ todo[w] = <<Purchase>>
            \/ phase[w] = "wait" /\ todo[w] = <<Refund>>

\* A thread of the Bonus Service that serves a worker is the one it waits for.
Served ==
    /\ caller \in [Servers -> Workers \cup {Script, Nobody}]
    /\ \A b \in Servers : caller[b] \in Workers => Waits(caller[b])
    /\ \A b, d \in Servers : caller[b] = caller[d] /\ caller[b] \in Workers => b = d

\* Types of what a handler consists of, and of the tickets.
Shape ==
    /\ phase \in [Workers -> Phases]
    /\ DOMAIN endpoint = Workers /\ DOMAIN todo = Workers /\ DOMAIN answer = Workers
    /\ request \in [Workers -> [user : Users \cup Strangers \cup {"none"}, ticket : Tickets \cup {NoTicket}]]
    /\ writing \in [Workers -> {"open", "close", "publish"}]
    /\ ticket \in [Tickets -> B!TicketRows \cup {B!Absent}]
    /\ \A w \in Workers : phase[w] # "idle" => request[w].user \in Users \cup Strangers

\* Every worker is at a place of its handler: the inductive invariant.
SystemInv == Shape /\ Served /\ \A w \in Workers : Place(w) /\ WritesAtEnd(w)
-----------------------------------------------------------------------------
(* Calls and jobs.                                                         *)

\* Heads and tails of the lists of calls.
LEMMA Lists ==
    ASSUME NEW a, NEW b, NEW c
    PROVE  /\ Head(<<a>>) = a /\ Tail(<<a>>) = <<>>
           /\ Head(<<a, b>>) = a /\ Tail(<<a, b>>) = <<b>> /\ <<b>> # <<>>
           /\ Head(<<a, b, c>>) = a /\ Tail(<<a, b, c>>) = <<b, c>> /\ <<b, c>> # <<>>
  OBVIOUS

\* Initial states are initial states of Booking.
LEMMA InitMaps == SystemInit => B!Init
  <1> SUFFICES ASSUME SystemInit PROVE B!Init
    OBVIOUS
  <1>1. jobs = [w \in Workers |-> B!NoJob]
    BY DEF jobs, JobOf, SystemInit, Init, B!NoJob
  <1> QED
    BY <1>1 DEF B!Init, SystemInit, B!Ready

\* The gateway's threads, the script and nobody are different callers.
LEMMA Callers == Script \notin Workers /\ Nobody \notin Workers /\ Nobody # Script
  BY SystemAssumption DEF SystemAssumption, B!BookingAssumption

\* Another worker's place in its handler stays what it was.
Stays(x) ==
    /\ phase'[x] = phase[x] /\ endpoint'[x] = endpoint[x] /\ todo'[x] = todo[x] /\ answer'[x] = answer[x]
    /\ request'[x] = request[x] /\ writing'[x] = writing[x]

\* Tickets that exist do not come to be as if they had never existed.
TicketsRemain == \A t \in Tickets : ticket[t] # B!Absent => ticket'[t] # B!Absent

\* Who does not move stays at a place of the handler, and keeps its job.
LEMMA PlaceStays ==
    ASSUME NEW x \in Workers, Place(x), WritesAtEnd(x), Stays(x), TicketsRemain
    PROVE  Place(x)' /\ WritesAtEnd(x)' /\ JobOf(x)' = JobOf(x)
  <1>1. \A e, c : At(x, e, c) => At(x, e, c)'
    BY DEF At, Stays
  <1>2. Knows(x) => Knows(x)'
    BY DEF Knows, Stays, TicketsRemain
  <1>3. JobOf(x)' = JobOf(x)
    BY DEF JobOf, Stays, Current
  <1>4. Place(x)'
    BY <1>1, <1>2 DEF Place, Stays
  <1> QED
    BY <1>1, <1>3, <1>4 DEF WritesAtEnd, Stays

\* A step of one worker moves its job only.
LEMMA JobMoves ==
    ASSUME NEW w \in Workers, SystemInv, TicketsRemain, \A x \in Workers \ {w} : Stays(x)
    PROVE  /\ jobs' = [jobs EXCEPT ![w] = JobOf(w)']
           /\ \A x \in Workers \ {w} : Place(x)' /\ WritesAtEnd(x)'
  BY PlaceStays DEF jobs, SystemInv

\* A worker's job, and what it is after a step.
LEMMA Job ==
    ASSUME NEW w \in Workers
    PROVE  jobs[w] = JobOf(w) /\ (JobOf(w)' = JobOf(w) /\ jobs' = [jobs EXCEPT ![w] = JobOf(w)'] => jobs' = jobs)
  BY DEF jobs

\* The job at each of the calls.
LEMMA JobAt ==
    ASSUME NEW w \in Workers
    PROVE  /\ phase[w] = "idle" => JobOf(w) = B!NoJob
           /\ \A e : At(w, e, BuyPoint) => JobOf(w) = B!NoJob
           /\ \A e : At(w, e, <<Critical("ticket"), Purchase>>) => JobOf(w) = B!NoJob
           /\ \A e : At(w, e, ReturnPoint) => JobOf(w) = B!NoJob
           /\ \A e : At(w, e, <<Purchase>>) => 
                 JobOf(w) = [step |-> "purchase", user |-> request[w].user, ticket |-> request[w].ticket]
           /\ \A e : At(w, e, <<CancelTicket>>) => 
                 JobOf(w) = [step |-> "cancel", user |-> request[w].user, ticket |-> request[w].ticket]
           /\ \A e : At(w, e, <<Refund>>) => 
                 JobOf(w) = [step |-> "refund", user |-> request[w].user, ticket |-> request[w].ticket]
           /\ \A e : At(w, e, <<Publish>>) => 
                 JobOf(w) = [step |-> writing[w], user |-> request[w].user, ticket |-> request[w].ticket]
  BY DEF JobOf, At, Current, B!NoJob, BuyPoint, ReturnPoint, Critical, Purchase, CancelTicket, Refund, Publish

\* The same, after a step.
LEMMA JobThen ==
    ASSUME NEW w \in Workers
    PROVE  /\ phase'[w] = "idle" => JobOf(w)' = B!NoJob
           /\ phase'[w] # "idle" =>
                /\ todo'[w] = BuyPoint => JobOf(w)' = B!NoJob
                /\ todo'[w] = <<Critical("ticket"), Purchase>> => JobOf(w)' = B!NoJob
                /\ todo'[w] = ReturnPoint => JobOf(w)' = B!NoJob
                /\ todo'[w] = <<Purchase>> =>
                     JobOf(w)' = [step |-> "purchase", user |-> request'[w].user, ticket |-> request'[w].ticket]
                /\ todo'[w] = <<CancelTicket>> =>
                     JobOf(w)' = [step |-> "cancel", user |-> request'[w].user, ticket |-> request'[w].ticket]
                /\ todo'[w] = <<Refund>> =>
                     JobOf(w)' = [step |-> "refund", user |-> request'[w].user, ticket |-> request'[w].ticket]
                /\ todo'[w] = <<Publish>> =>
                     JobOf(w)' = [step |-> writing'[w], user |-> request'[w].user, ticket |-> request'[w].ticket]
  BY DEF JobOf, Current, B!NoJob, BuyPoint, ReturnPoint, Critical, Purchase, CancelTicket, Refund, Publish

\* The kinds of the calls at each place.
LEMMA CallAt ==
    ASSUME NEW w \in Workers
    PROVE  /\ todo[w] = BuyPoint => Current(w) = Critical("flight") /\ Tail(todo[w]) = <<Critical("ticket"), Purchase>>
           /\ todo[w] = <<Critical("ticket"), Purchase>> => Current(w) = Critical("ticket") /\ Tail(todo[w]) = <<Purchase>>
           /\ todo[w] = <<Purchase>> => Current(w) = Purchase /\ Tail(todo[w]) = <<>>
           /\ todo[w] = <<CancelTicket>> => Current(w) = CancelTicket /\ Tail(todo[w]) = <<>>
           /\ todo[w] = ReturnPoint => Current(w) = Critical("ticket") /\ Tail(todo[w]) = <<Refund>>
           /\ todo[w] = <<Refund>> => Current(w) = Refund /\ Tail(todo[w]) = <<>>
           /\ todo[w] = <<Publish>> => Current(w) = Publish /\ Tail(todo[w]) = <<>>
  <1>1. /\ Head(BuyPoint) = Critical("flight") /\ Tail(BuyPoint) = <<Critical("ticket"), Purchase>>
        /\ Head(ReturnPoint) = Critical("ticket") /\ Tail(ReturnPoint) = <<Refund>>
    BY Lists DEF BuyPoint, ReturnPoint
  <1>2. /\ Head(<<Critical("ticket"), Purchase>>) = Critical("ticket")
        /\ Tail(<<Critical("ticket"), Purchase>>) = <<Purchase>>
    BY Lists
  <1>3. \A c : Head(<<c>>) = c /\ Tail(<<c>>) = <<>>
    OBVIOUS
  <1> QED
    BY <1>1, <1>2, <1>3 DEF Current

\* The calls differ.
LEMMA Kinds ==
    /\ Critical("flight").kind = "critical" /\ Critical("ticket").kind = "critical"
    /\ Purchase.kind = "purchase" /\ CancelTicket.kind = "cancel"
    /\ Refund.kind = "refund" /\ Publish.kind = "publish"
    /\ Critical("flight") # Critical("ticket")
    /\ <<Critical("ticket"), Purchase>> # <<>> /\ <<Purchase>> # <<>> /\ <<Refund>> # <<>>
  BY DEF Critical, Purchase, CancelTicket, Refund, Publish

-----------------------------------------------------------------------------
(* The steps of Gateway, for the worker that takes them.                   *)

Functions ==
    /\ phase \in [Workers -> Phases]
    /\ DOMAIN endpoint = Workers /\ DOMAIN todo = Workers /\ DOMAIN answer = Workers

\* Only worker w moves in its handler.
OnlyOne(w) ==
    /\ Functions'
    /\ \A x \in Workers \ {w} : /\ phase'[x] = phase[x] /\ endpoint'[x] = endpoint[x]
                                /\ todo'[x] = todo[x] /\ answer'[x] = answer[x]

\* The worker's handler returns.
LEMMA AnswerMoves ==
    ASSUME NEW w \in Workers, Functions, NEW status, Answer(w, status), UNCHANGED endpoint
    PROVE  /\ OnlyOne(w) /\ endpoint'[w] = endpoint[w]
           /\ phase'[w] = "idle" /\ todo'[w] = <<>> /\ answer'[w] = status
  BY DEF Functions, Answer, OnlyOne, Phases

\* The worker goes on with one unplanned call.
LEMMA InsteadMoves ==
    ASSUME NEW w \in Workers, Functions, NEW call, NEW status, Instead(w, call, status), UNCHANGED endpoint
    PROVE  /\ OnlyOne(w) /\ endpoint'[w] = endpoint[w]
           /\ phase'[w] = "wait" /\ todo'[w] = <<call>> /\ answer'[w] = status
  BY DEF Functions, Instead, OnlyOne, Phases

\* The worker goes on with its next call, or returns.
LEMMA ProceedMoves ==
    ASSUME NEW w \in Workers, Functions, Proceed(w), UNCHANGED endpoint
    PROVE  /\ OnlyOne(w) /\ endpoint'[w] = endpoint[w] /\ todo'[w] = Tail(todo[w])
           /\ Tail(todo[w]) # <<>> => phase'[w] = "wait" /\ answer'[w] = answer[w]
           /\ Tail(todo[w]) = <<>> => phase'[w] = "idle" /\ answer'[w] = SuccessStatus(endpoint[w])
  BY DEF Functions, Proceed, OnlyOne, Phases

\* A critical call ends, or is refused.
LEMMA CriticalMoves ==
    ASSUME NEW w \in Workers, Functions, Current(w).kind = "critical", Tail(todo[w]) # <<>>,
           Failed(w) \/ Responded(w) \/ Refused(w)
    PROVE  /\ OnlyOne(w) /\ endpoint'[w] = endpoint[w] /\ phase[w] # "idle"
           /\ \/ phase'[w] = "idle" /\ todo'[w] = <<>> /\ answer'[w] \notin {200, 204}
              \/ phase'[w] = "wait" /\ todo'[w] = Tail(todo[w]) /\ ~Refused(w)
  <1> DEFINE Ended(status) == Answer(w, status) /\ UNCHANGED endpoint
  <1>1. (\E status \in {500, 502, 503, 404} : Ended(status)) \/ (~Refused(w) /\ Proceed(w) /\ UNCHANGED endpoint)
    BY DEF Failed, Responded, Refused, ErrorStatus
  <1>2. phase[w] # "idle"
    BY DEF Failed, Responded, Refused
  <1>3. CASE ~Refused(w) /\ Proceed(w) /\ UNCHANGED endpoint
    BY <1>2, <1>3, ProceedMoves
  <1>4. ASSUME NEW status \in {500, 502, 503, 404}, Ended(status)
        PROVE  /\ OnlyOne(w) /\ endpoint'[w] = endpoint[w]
               /\ phase'[w] = "idle" /\ todo'[w] = <<>> /\ answer'[w] = status
    BY <1>4, AnswerMoves
  <1> QED
    BY <1>1, <1>2, <1>3, <1>4

\* The call to PurchasePoint ends, or is refused.
LEMMA PurchaseMoves ==
    ASSUME NEW w \in Workers, Functions, todo[w] = <<Purchase>>, endpoint[w] = "BuyPoint",
           Failed(w) \/ Responded(w) \/ Refused(w)
    PROVE  /\ OnlyOne(w) /\ endpoint'[w] = endpoint[w] /\ phase[w] # "idle"
           /\ \/ phase'[w] = "idle" /\ todo'[w] = <<>> /\ answer'[w] \in {200, 500} /\ ~Refused(w)
              \/ phase'[w] = "wait" /\ todo'[w] = <<CancelTicket>> /\ answer'[w] # 200
  <1>1. Current(w).kind = "purchase" /\ Tail(todo[w]) = <<>>
    BY CallAt, Kinds
  <1>2. phase[w] # "idle"
    BY DEF Failed, Responded, Refused
  <1>3. \/ \E status \in {500, 503} : Instead(w, CancelTicket, status)
        \/ ~Refused(w) /\ (Answer(w, 500) \/ Proceed(w))
    BY <1>1 DEF Failed, Responded, Refused
  <1>4. UNCHANGED endpoint
    BY DEF Failed, Responded, Refused
  <1>5. CASE ~Refused(w) /\ Answer(w, 500)
    BY <1>2, <1>4, <1>5, AnswerMoves
  <1>6. CASE ~Refused(w) /\ Proceed(w)
    BY <1>1, <1>2, <1>4, <1>6, ProceedMoves DEF SuccessStatus
  <1>7. ASSUME NEW status \in {500, 503}, Instead(w, CancelTicket, status)
        PROVE  OnlyOne(w) /\ endpoint'[w] = endpoint[w]
               /\ phase'[w] = "wait" /\ todo'[w] = <<CancelTicket>> /\ answer'[w] = status
    BY <1>4, <1>7, InsteadMoves
  <1> QED
    BY <1>2, <1>3, <1>5, <1>6, <1>7

\* The compensation ends.
LEMMA CancelMoves ==
    ASSUME NEW w \in Workers, Functions, Cancel(w), answer[w] # 200
    PROVE  /\ OnlyOne(w) /\ endpoint'[w] = endpoint[w]
           /\ phase'[w] = "idle" /\ todo'[w] = <<>> /\ answer'[w] # 200
  BY AnswerMoves DEF Cancel

\* The refund ends.
LEMMA RefundMoves ==
    ASSUME NEW w \in Workers, Functions, RefundBonus(w), todo[w] = <<Refund>>, endpoint[w] = "ReturnPoint"
    PROVE  /\ OnlyOne(w) /\ endpoint'[w] = endpoint[w]
           /\ \/ phase'[w] = "idle" /\ todo'[w] = <<>> /\ answer'[w] = 204
              \/ phase'[w] = "wait" /\ todo'[w] = <<Publish>>
  <1>1. Tail(todo[w]) = <<>> /\ UNCHANGED endpoint
    BY CallAt DEF RefundBonus
  <1>2. CASE Proceed(w)
    BY <1>1, <1>2, ProceedMoves DEF SuccessStatus
  <1>3. CASE Instead(w, Publish, NoAnswer)
    BY <1>1, <1>3, InsteadMoves
  <1> QED
    BY <1>2, <1>3 DEF RefundBonus

\* The message has been published, or not.
LEMMA PublishMoves ==
    ASSUME NEW w \in Workers, Functions, PublishRefund(w), todo[w] = <<Publish>>, endpoint[w] = "ReturnPoint"
    PROVE  /\ OnlyOne(w) /\ endpoint'[w] = endpoint[w]
           /\ phase'[w] = "idle" /\ todo'[w] = <<>> /\ answer'[w] = 204
  <1>1. Tail(todo[w]) = <<>> /\ UNCHANGED endpoint /\ Proceed(w)
    BY CallAt DEF PublishRefund
  <1> QED
    BY <1>1, ProceedMoves DEF SuccessStatus

\* A mutex is locked.
LEMMA AcquireMoves ==
    ASSUME NEW w \in Workers, Functions, Acquire(w)
    PROVE  /\ OnlyOne(w) /\ phase[w] = "wait" /\ phase'[w] \in {"calling", "refused"}
           /\ UNCHANGED <<endpoint, todo, answer>>
  BY DEF Functions, Acquire, OnlyOne, Phases

-----------------------------------------------------------------------------
(* The steps of GatewayBooking.                                            *)

\* What a handler remembers of its request.
LEMMA Remembered ==
    ASSUME NEW w \in Workers, Shape, NEW t \in Tickets \cup {NoTicket}, Remember(w, t)
    PROVE  /\ request' \in [Workers -> [user : Users \cup Strangers \cup {"none"}, ticket : Tickets \cup {NoTicket}]]
           /\ \A x \in Workers \ {w} : request'[x] = request[x]
           /\ phase'[w] # "idle" => request'[w].user = request[w].user /\ request'[w].ticket = t
  <1>1. NoRequest \in [user : Users \cup Strangers \cup {"none"}, ticket : Tickets \cup {NoTicket}]
    BY DEF NoRequest
  <1>2. [request[w] EXCEPT !.ticket = t]
           \in [user : Users \cup Strangers \cup {"none"}, ticket : Tickets \cup {NoTicket}]
    BY DEF Shape
  <1> QED
    BY <1>1, <1>2 DEF Remember, Shape

\* Worker w waits for nobody, or its call is over.
Free(w) == \/ ~Waits(w) /\ UNCHANGED caller
           \/ B!Answered(w) \/ B!NotExecuted(w) \/ B!GivenUp(w)

\* Who does not wait is not served.
LEMMA Unwaited ==
    ASSUME NEW w \in Workers, Served, ~Waits(w)
    PROVE  B!Unserved(w)
  BY DEF Served, B!Unserved

\* Then no thread serves it any more.
LEMMA ServedKept ==
    ASSUME NEW w \in Workers, Served, Free(w), \A x \in Workers \ {w} : phase'[x] = phase[x] /\ todo'[x] = todo[x]
    PROVE  Served'
  <1>1. /\ caller' \in [Servers -> Workers \cup {Script, Nobody}]
        /\ \A b \in Servers : caller'[b] \in {caller[b], Nobody} /\ caller'[b] # w
    <2>1. CASE UNCHANGED caller /\ B!Unserved(w)
      BY <2>1 DEF Served, B!Unserved
    <2>2. ASSUME NEW b \in Servers, caller[b] = w, B!Serves(b, Nobody)
          PROVE  /\ caller' \in [Servers -> Workers \cup {Script, Nobody}]
                 /\ \A d \in Servers : caller'[d] \in {caller[d], Nobody} /\ caller'[d] # w
      BY <2>2, Callers DEF Served, B!Serves
    <2> QED
      BY <2>1, <2>2, Unwaited DEF Free, B!Answered, B!NotExecuted, B!GivenUp, B!bonus
  <1> QED
    BY <1>1, Callers DEF Served, Waits

\* A step of worker w that leaves it at a place of its handler keeps the invariant.
LEMMA InvKept ==
    ASSUME NEW w \in Workers, SystemInv, OnlyOne(w), Place(w)', WritesAtEnd(w)', TicketsRemain, Free(w),
           request' \in [Workers -> [user : Users \cup Strangers \cup {"none"}, ticket : Tickets \cup {NoTicket}]],
           \A x \in Workers \ {w} : request'[x] = request[x],
           writing' \in [Workers -> {"open", "close", "publish"}],
           \A x \in Workers \ {w} : writing'[x] = writing[x],
           ticket' \in [Tickets -> B!TicketRows \cup {B!Absent}],
           phase'[w] # "idle" => request'[w].user \in Users \cup Strangers
    PROVE  SystemInv' /\ jobs' = [jobs EXCEPT ![w] = JobOf(w)']
  <1>1. \A x \in Workers \ {w} : Stays(x)
    BY DEF OnlyOne, Stays
  <1>2. \A x \in Workers : Place(x)' /\ WritesAtEnd(x)'
    BY <1>1, JobMoves
  <1>3. Shape'
    BY DEF Shape, SystemInv, OnlyOne, Functions
  <1>4. Served'
    BY ServedKept DEF SystemInv, OnlyOne
  <1> QED
    BY <1>1, <1>2, <1>3, <1>4, JobMoves DEF SystemInv

\* Nothing of Booking's changes.
Quiet == jobs' = jobs /\ UNCHANGED <<tables, file, queue, consumer, confirmed, accepted>>

\* Such a step is a stutter of Booking.
LEMMA QuietMaps == Quiet => UNCHANGED B!vars
  BY DEF Quiet, B!vars, B!bonus, tables, bonus

\* Without a change, tickets remain.
LEMMA TicketsStay == UNCHANGED ticket => TicketsRemain
  BY DEF TicketsRemain

\* Booking does not see a request arrive.
LEMMA BeginsMaps ==
    ASSUME NEW w \in Workers, SystemInv, Begins(w)
    PROVE  SystemInv' /\ UNCHANGED B!vars
  <1>1. OnlyOne(w) /\ phase'[w] = "wait" /\ phase[w] = "idle"
    BY DEF Begins, Receive, OnlyOne, Functions, SystemInv, Shape, Phases
  <1>2. \/ endpoint'[w] = "BuyPoint" /\ todo'[w] = BuyPoint
        \/ endpoint'[w] = "ReturnPoint" /\ todo'[w] = ReturnPoint
    BY DEF Begins, Receive, SystemInv, Shape, Plan
  <1>3. UNCHANGED <<tables, file, queue, consumer, writing, confirmed, accepted>>
    BY DEF Begins, messages
  <1>4. UNCHANGED ticket /\ TicketsRemain
    BY <1>3, TicketsStay DEF tables
  <1>5. PICK u \in Users \cup Strangers, t \in Tickets \cup {NoTicket} :
           /\ request' = [request EXCEPT ![w] = [user |-> u, ticket |-> t]]
           /\ endpoint'[w] = "ReturnPoint" => t \in Tickets /\ ticket[t] # B!Absent
    BY DEF Begins
  <1>6. /\ request' \in [Workers -> [user : Users \cup Strangers \cup {"none"}, ticket : Tickets \cup {NoTicket}]]
        /\ \A x \in Workers \ {w} : request'[x] = request[x]
        /\ request'[w] = [user |-> u, ticket |-> t]
    BY <1>5 DEF SystemInv, Shape
  <1>7. Place(w)'
    BY <1>1, <1>2, <1>4, <1>5, <1>6 DEF Place, At, Knows
  <1>8. writing'[w] = "open"
    BY <1>1, <1>3 DEF SystemInv, WritesAtEnd, At
  <1>9. SystemInv' /\ jobs' = [jobs EXCEPT ![w] = JobOf(w)']
    <2>1. Free(w)
      BY <1>1, <1>3 DEF Free, Waits, tables, bonus
    <2> QED
      BY <1>1, <1>3, <1>4, <1>6, <1>7, <1>8, <2>1, InvKept DEF SystemInv, Shape, WritesAtEnd
  <1>10. jobs' = jobs
    BY <1>1, <1>2, <1>9, JobAt, JobThen, Job
  <1> QED
    BY <1>3, <1>9, <1>10, QuietMaps DEF Quiet

\* Nor a mutex being locked.
LEMMA LocksMaps ==
    ASSUME NEW w \in Workers, SystemInv, Locks(w)
    PROVE  SystemInv' /\ UNCHANGED B!vars
  <1>1. OnlyOne(w) /\ phase[w] = "wait" /\ phase'[w] \in {"calling", "refused"} /\ UNCHANGED <<endpoint, todo, answer>>
    BY AcquireMoves DEF Locks, SystemInv, Shape, Functions
  <1>2. UNCHANGED <<tables, file, queue, consumer, writing, confirmed, accepted, request, ticket>>
    BY DEF Locks, messages, clients, tables
  <1>3. Current(w).kind \in GuardedKinds
    BY DEF Locks, Acquire
  <1>4. todo[w] \notin {<<CancelTicket>>, <<Refund>>, <<Publish>>}
    BY <1>3, CallAt, Kinds DEF GuardedKinds
  <1>5. Place(w)' /\ writing[w] = "open"
    BY <1>1, <1>2, <1>4 DEF Place, At, Knows, SystemInv, WritesAtEnd
  <1>6. SystemInv' /\ jobs' = [jobs EXCEPT ![w] = JobOf(w)']
    <2>1. Free(w)
      BY <1>1, <1>2, <1>4 DEF Free, Waits, tables, bonus
    <2> QED
      BY <1>1, <1>2, <1>5, <2>1, InvKept, TicketsStay DEF SystemInv, Shape, WritesAtEnd
  <1>7. JobOf(w)' = JobOf(w)
    BY <1>1, <1>2 DEF JobOf, Current
  <1> QED
    BY <1>2, <1>6, <1>7, QuietMaps, Job DEF Quiet

\* Every call of the handlers may fail, be lost or be answered with garbage.
LEMMA MayFail ==
    \A call \in {"TicketPost", "Purchase", "TicketDelete", "TicketUpdate", "Refund", "Publish"} :
        B!Outcomes(call) = {"done", "garbled", "lost", "failed"}
  BY DEF B!Outcomes, EveryFault

\* A handler of Booking goes to another step.
LEMMA GoesTo ==
    ASSUME NEW w \in Workers, NEW step, NEW next,
           JobOf(w) = [step |-> step, user |-> request[w].user, ticket |-> request[w].ticket],
           JobOf(w)' = [step |-> next, user |-> request[w].user, ticket |-> request[w].ticket],
           jobs' = [jobs EXCEPT ![w] = JobOf(w)']
    PROVE  /\ jobs[w].step = step /\ jobs[w].user = request[w].user /\ jobs[w].ticket = request[w].ticket
           /\ B!GoTo(w, next)
  <1>1. jobs[w] = [step |-> step, user |-> request[w].user, ticket |-> request[w].ticket]
    BY DEF jobs
  <1>2. [jobs[w] EXCEPT !.step = next] = [step |-> next, user |-> request[w].user, ticket |-> request[w].ticket]
    BY <1>1
  <1>3. jobs' = [jobs EXCEPT ![w] = [jobs[w] EXCEPT !.step = next]]
    BY <1>2
  <1>4. jobs' = [jobs EXCEPT ![w].step = next]
    BY <1>3
  <1>5. B!GoTo(w, next)
    BY <1>4 DEF B!GoTo
  <1> QED
    BY <1>1, <1>5

\* A handler of Booking ends.
LEMMA Ended ==
    ASSUME NEW w \in Workers, NEW step,
           JobOf(w) = [step |-> step, user |-> request[w].user, ticket |-> request[w].ticket],
           JobOf(w)' = B!NoJob,
           jobs' = [jobs EXCEPT ![w] = JobOf(w)']
    PROVE  /\ jobs[w].step = step /\ jobs[w].user = request[w].user /\ jobs[w].ticket = request[w].ticket
           /\ B!Leave(w)
  <1>1. jobs[w] = [step |-> step, user |-> request[w].user, ticket |-> request[w].ticket]
    BY DEF jobs
  <1> QED
    BY <1>1 DEF B!Leave

\* Only a success is remembered of what clients are told.
LEMMA ToldNothing ==
    ASSUME NEW w \in Workers, Told(w), phase'[w] # "idle" \/ answer'[w] \notin {200, 204}
    PROVE  UNCHANGED <<confirmed, accepted>>
  BY DEF Told

\* The ticket that a request names is the one it named.
LEMMA RequestTicket ==
    ASSUME NEW w \in Workers, Shape
    PROVE  request[w].ticket \in Tickets \cup {NoTicket}
  BY DEF Shape

\* The flight is looked up, or a breaker refuses: a refused purchase is one that failed.
LEMMA NothingChangesMaps ==
    ASSUME NEW w \in Workers, SystemInv, NothingChanges(w)
    PROVE  SystemInv' /\ [B!Next]_(B!vars)
  <1>1. UNCHANGED <<tables, file, queue, consumer, writing, ticket>> /\ Remember(w, request[w].ticket) /\ Told(w)
    BY DEF NothingChanges, messages, tables
  <1>2. /\ request' \in [Workers -> [user : Users \cup Strangers \cup {"none"}, ticket : Tickets \cup {NoTicket}]]
        /\ \A x \in Workers \ {w} : request'[x] = request[x]
        /\ phase'[w] # "idle" => request'[w].user = request[w].user /\ request'[w].ticket = request[w].ticket
    BY <1>1, Remembered, RequestTicket DEF SystemInv
  <1>3. phase[w] # "idle" /\ (Failed(w) \/ Responded(w) \/ Refused(w))
    BY DEF NothingChanges, Ends, Refused
  <1>4. Functions /\ TicketsRemain
    BY <1>1, TicketsStay DEF SystemInv, Shape, Functions
  <1>5. Current(w) = Critical("flight") \/ Current(w).kind \in GuardedKinds
    BY Kinds DEF NothingChanges, Ends, Refused, GuardedKinds
  <1>6. todo[w] \in {BuyPoint, <<Critical("ticket"), Purchase>>, <<Purchase>>, ReturnPoint}
    <2>1. todo[w] \notin {<<CancelTicket>>, <<Refund>>, <<Publish>>}
      BY <1>5, CallAt, Kinds DEF GuardedKinds
    <2> QED
      BY <1>3, <2>1 DEF SystemInv, Place, At
  <1>7. writing[w] = "open" /\ writing' = writing
    BY <1>1, <1>3, <1>6, CallAt, Kinds DEF SystemInv, WritesAtEnd, At
  <1>8. ~Waits(w) /\ Free(w)
    <2>1. Current(w) = Critical("flight") \/ phase[w] = "refused"
      BY DEF NothingChanges, Ends, Refused
    <2> QED
      BY <1>1, <2>1, CallAt, Kinds DEF Free, Waits, tables, bonus
  <1>11. ASSUME OnlyOne(w), Place(w)'
        PROVE  SystemInv' /\ jobs' = [jobs EXCEPT ![w] = JobOf(w)']
    BY <1>1, <1>2, <1>3, <1>4, <1>7, <1>8, <1>11, InvKept DEF SystemInv, Shape, WritesAtEnd
  <1>9. CASE todo[w] \in {BuyPoint, <<Critical("ticket"), Purchase>>, ReturnPoint}
    <2>1. Current(w).kind = "critical" /\ Tail(todo[w]) # <<>>
      BY <1>9, CallAt, Kinds
    <2>2. /\ OnlyOne(w) /\ endpoint'[w] = endpoint[w]
          /\ \/ phase'[w] = "idle" /\ answer'[w] \notin {200, 204}
             \/ phase'[w] = "wait" /\ todo'[w] = Tail(todo[w]) /\ ~Refused(w)
      BY <1>3, <1>4, <2>1, CriticalMoves
    <2>3. CASE phase'[w] = "idle" /\ answer'[w] \notin {200, 204}
      <3>1. SystemInv' /\ jobs' = [jobs EXCEPT ![w] = JobOf(w)']
        BY <1>11, <2>2, <2>3 DEF Place
      <3>2. JobOf(w) = B!NoJob /\ JobOf(w)' = B!NoJob
        BY <1>3, <1>9, <2>3, JobAt, JobThen DEF At
      <3> QED
        BY <1>1, <2>3, <3>1, <3>2, ToldNothing, Job, QuietMaps DEF Quiet
    <2>4. CASE phase'[w] = "wait" /\ todo'[w] = Tail(todo[w]) /\ ~Refused(w)
      <3>1. todo[w] = BuyPoint /\ endpoint[w] = "BuyPoint"
        BY <1>3, <1>9, <2>4, CallAt, Kinds DEF NothingChanges, Ends, SystemInv, Place, At
      <3>2. todo'[w] = <<Critical("ticket"), Purchase>>
        BY <2>4, <3>1, CallAt
      <3>3. SystemInv' /\ jobs' = [jobs EXCEPT ![w] = JobOf(w)']
        BY <1>11, <2>2, <2>4, <3>1, <3>2 DEF Place, At
      <3>4. JobOf(w) = B!NoJob /\ JobOf(w)' = B!NoJob
        BY <1>3, <2>4, <3>1, <3>2, JobAt, JobThen DEF At
      <3> QED
        BY <1>1, <2>4, <3>3, <3>4, ToldNothing, Job, QuietMaps DEF Quiet
    <2> QED
      BY <2>2, <2>3, <2>4
  <1>10. CASE todo[w] = <<Purchase>>
    <2>1. endpoint[w] = "BuyPoint" /\ Knows(w) /\ request[w].user \in Users \cup Strangers
      BY <1>3, <1>10, CallAt, Kinds DEF SystemInv, Place, At, Shape
    <2>2. Refused(w)
      BY <1>10, CallAt, Kinds DEF NothingChanges, Ends
    <2>3. /\ OnlyOne(w) /\ endpoint'[w] = endpoint[w]
          /\ phase'[w] = "wait" /\ todo'[w] = <<CancelTicket>> /\ answer'[w] # 200
      BY <1>3, <1>4, <1>10, <2>1, <2>2, PurchaseMoves
    <2>4. SystemInv' /\ jobs' = [jobs EXCEPT ![w] = JobOf(w)']
      BY <1>1, <1>2, <1>11, <2>1, <2>3 DEF Place, At, Knows
    <2>5. /\ JobOf(w) = [step |-> "purchase", user |-> request[w].user, ticket |-> request[w].ticket]
          /\ JobOf(w)' = [step |-> "cancel", user |-> request[w].user, ticket |-> request[w].ticket]
      BY <1>2, <1>3, <1>10, <2>3, JobAt, JobThen DEF At
    <2>6. jobs[w].step = "purchase" /\ B!GoTo(w, "cancel")
      BY <2>4, <2>5, GoesTo
    <2>7. B!Fails(w, "Purchase")
      BY <1>1, <1>8, MayFail, Unwaited DEF SystemInv, B!Fails, B!NotExecuted, B!bonus, tables, bonus
    <2>8. B!PurchaseCall(w)
      BY <1>1, <2>3, <2>6, <2>7, ToldNothing DEF B!PurchaseCall, B!AfterPurchase, tables
    <2> QED
      BY <2>4, <2>8 DEF B!Next, B!Handle
  <1> QED
    BY <1>6, <1>9, <1>10

\* A call of worker w ends, at a place of its handler.
LEMMA EndsAt ==
    ASSUME NEW w \in Workers, SystemInv, Failed(w) \/ Responded(w), Current(w).kind \in {"critical", "purchase"}
    PROVE  /\ phase[w] # "idle" /\ writing[w] = "open" /\ Functions
           /\ request[w].user \in Users \cup Strangers
           /\ \/ At(w, "BuyPoint", BuyPoint)
              \/ At(w, "BuyPoint", <<Critical("ticket"), Purchase>>)
              \/ At(w, "BuyPoint", <<Purchase>>) /\ Knows(w)
              \/ At(w, "ReturnPoint", ReturnPoint) /\ Knows(w)
  <1>1. phase[w] # "idle" /\ Functions
    BY DEF Failed, Responded, SystemInv, Shape, Functions
  <1>2. todo[w] \notin {<<CancelTicket>>, <<Refund>>, <<Publish>>}
    BY CallAt, Kinds
  <1> QED
    BY <1>1, <1>2 DEF SystemInv, Place, WritesAtEnd, At, Shape

\* TicketPostPoint is Booking's TicketPost.
LEMMA TicketPostMaps ==
    ASSUME NEW w \in Workers, SystemInv, TicketPostPoint(w)
    PROVE  SystemInv' /\ [B!Next]_(B!vars)
  <1>1. /\ UNCHANGED <<bonus, file, queue, consumer, writing>> /\ Told(w)
        /\ endpoint[w] = "BuyPoint" /\ Current(w) = Critical("ticket") /\ (Failed(w) \/ Responded(w))
    BY DEF TicketPostPoint, messages, Ends
  <1>2. /\ phase[w] # "idle" /\ writing[w] = "open" /\ Functions /\ request[w].user \in Users \cup Strangers
        /\ todo[w] = <<Critical("ticket"), Purchase>>
    BY <1>1, EndsAt, CallAt, Kinds DEF At
  <1>3. /\ OnlyOne(w) /\ endpoint'[w] = endpoint[w]
        /\ \/ phase'[w] = "idle" /\ answer'[w] \notin {200, 204}
           \/ phase'[w] = "wait" /\ todo'[w] = <<Purchase>>
    <2>1. Current(w).kind = "critical" /\ Tail(todo[w]) = <<Purchase>> /\ <<Purchase>> # <<>>
      BY <1>1, <1>2, CallAt, Kinds
    <2> QED
      BY <1>1, <1>2, <2>1, CriticalMoves
  <1>4. UNCHANGED <<confirmed, accepted>>
    BY <1>3, ToldNothing, <1>1
  <1>5. JobOf(w) = B!NoJob
    BY <1>1, <1>2, JobAt DEF At
  <1>8. Free(w)
    BY <1>1, CallAt, Kinds DEF Free, Waits, bonus
  <1>6. CASE phase'[w] = "idle" /\ Remember(w, NoTicket) /\ UNCHANGED ticket
    <2>1. SystemInv' /\ jobs' = [jobs EXCEPT ![w] = JobOf(w)']
      BY <1>1, <1>2, <1>3, <1>6, <1>8, Remembered, TicketsStay, InvKept DEF SystemInv, Shape, WritesAtEnd, Place
    <2> QED
      BY <1>1, <1>4, <1>5, <1>6, <2>1, JobThen, Job, QuietMaps DEF Quiet, tables
  <1>7. ASSUME NEW t \in Tickets, ticket[t] = B!Absent, ticket' = B!Created(request[w].user, t), Remember(w, t)
        PROVE  SystemInv' /\ [B!Next]_(B!vars)
    <2>1. /\ ticket' = [ticket EXCEPT ![t] = [status |-> "PAID", user |-> request[w].user]]
          /\ [status |-> "PAID", user |-> request[w].user] \in B!TicketRows
          /\ [status |-> "PAID", user |-> request[w].user] # B!Absent
      BY <1>2, <1>7 DEF B!Created, B!Row, B!TicketRows, B!Clients, B!Absent
    <2>2. /\ ticket' \in [Tickets -> B!TicketRows \cup {B!Absent}] /\ TicketsRemain /\ ticket'[t] # B!Absent
      BY <2>1 DEF SystemInv, Shape, TicketsRemain
    <2>3. /\ request' \in [Workers -> [user : Users \cup Strangers \cup {"none"}, ticket : Tickets \cup {NoTicket}]]
          /\ \A x \in Workers \ {w} : request'[x] = request[x]
          /\ phase'[w] # "idle" => request'[w].user = request[w].user /\ request'[w].ticket = t
      BY <1>7, Remembered DEF SystemInv
    <2>4. Place(w)'
      BY <1>1, <1>3, <2>2, <2>3 DEF Place, At, Knows
    <2>5. SystemInv' /\ jobs' = [jobs EXCEPT ![w] = JobOf(w)']
      BY <1>1, <1>2, <1>3, <1>8, <2>2, <2>3, <2>4, InvKept DEF SystemInv, Shape, WritesAtEnd
    <2>6. \/ JobOf(w)' = B!NoJob
          \/ JobOf(w)' = [step |-> "purchase", user |-> request[w].user, ticket |-> t]
      BY <1>3, <2>3, JobThen
    <2>7. /\ jobs[w] = B!NoJob
          /\ \/ jobs' = jobs
             \/ jobs' = [jobs EXCEPT ![w] = [step |-> "purchase", user |-> request[w].user, ticket |-> t]]
      BY <1>5, <2>5, <2>6, Job
    <2>8. B!TicketPost(w)
      BY <1>1, <1>2, <1>4, <1>7, <2>7, MayFail DEF B!TicketPost, B!Clients, B!bonus, bonus
    <2> QED
      BY <2>5, <2>8 DEF B!Next
  <1> QED
    BY <1>6, <1>7 DEF TicketPostPoint

\* PurchasePoint is Booking's PurchaseCall.
LEMMA PurchaseMaps ==
    ASSUME NEW w \in Workers, SystemInv, PurchasePoint(w)
    PROVE  SystemInv' /\ [B!Next]_(B!vars)
  <1>1. /\ UNCHANGED <<ticket, file, queue, consumer, writing>>
        /\ Told(w) /\ Remember(w, request[w].ticket)
        /\ Current(w) = Purchase /\ (Failed(w) \/ Responded(w))
    BY DEF PurchasePoint, messages, Ends
  <1>2. /\ phase[w] # "idle" /\ writing[w] = "open" /\ Functions /\ request[w].user \in Users \cup Strangers
        /\ At(w, "BuyPoint", <<Purchase>>) /\ Knows(w)
    BY <1>1, EndsAt, CallAt, Kinds DEF At
  <1>3. /\ OnlyOne(w) /\ endpoint'[w] = "BuyPoint"
        /\ \/ phase'[w] = "idle" /\ todo'[w] = <<>> /\ answer'[w] \in {200, 500}
           \/ phase'[w] = "wait" /\ todo'[w] = <<CancelTicket>> /\ answer'[w] # 200
    BY <1>1, <1>2, PurchaseMoves DEF At
  <1>4. /\ request' \in [Workers -> [user : Users \cup Strangers \cup {"none"}, ticket : Tickets \cup {NoTicket}]]
        /\ \A x \in Workers \ {w} : request'[x] = request[x]
        /\ phase'[w] # "idle" => request'[w].user = request[w].user /\ request'[w].ticket = request[w].ticket
    BY <1>1, Remembered, RequestTicket DEF SystemInv
  <1>5. Place(w)'
    BY <1>1, <1>2, <1>3, <1>4 DEF Place, At, Knows
  <1>13. todo'[w] # <<CancelTicket>> => B!Answered(w)
    BY DEF PurchasePoint
  <1>14. todo'[w] = <<CancelTicket>> => B!NotExecuted(w) \/ B!GivenUp(w)
    BY DEF PurchasePoint
  <1>6. SystemInv' /\ jobs' = [jobs EXCEPT ![w] = JobOf(w)']
    <2>1. Free(w)
      BY <1>13, <1>14 DEF Free
    <2> QED
      BY <1>1, <1>2, <1>3, <1>4, <1>5, <2>1, TicketsStay, InvKept DEF SystemInv, Shape, WritesAtEnd
  <1>7. JobOf(w) = [step |-> "purchase", user |-> request[w].user, ticket |-> request[w].ticket]
    BY <1>2, JobAt
  <1>8. /\ jobs[w].step = "purchase" /\ jobs[w].user = request[w].user /\ jobs[w].ticket = request[w].ticket
    BY <1>7 DEF jobs
  <1>9. phase'[w] = "idle" => B!Leave(w)
    BY <1>6, <1>7, JobThen, Ended
  <1>10. phase'[w] = "wait" => B!GoTo(w, "cancel")
    <2>1. phase'[w] = "wait"
             => JobOf(w)' = [step |-> "cancel", user |-> request[w].user, ticket |-> request[w].ticket]
      BY <1>3, <1>4, JobThen
    <2> QED
      BY <1>6, <1>7, <2>1, GoesTo
  <1>11. accepted' = accepted /\ endpoint[w] = "BuyPoint"
    BY <1>1, <1>2 DEF Told, At
  <1>12. confirmed' = IF phase'[w] = "idle" /\ answer'[w] = 200 THEN confirmed \cup {request[w].ticket} ELSE confirmed
    BY <1>1, <1>11 DEF Told
  <1>15. CASE phase'[w] = "idle" /\ todo'[w] # <<CancelTicket>>
    <2>1. \E o \in B!Outcomes("Purchase") \cap {"done", "garbled"} :
             confirmed' = IF o = "done" THEN confirmed \cup {request[w].ticket} ELSE confirmed
      <3>1. CASE answer'[w] = 200
        BY <1>12, <1>15, <3>1, MayFail
      <3>2. CASE answer'[w] # 200
        <4>1. "garbled" \in B!Outcomes("Purchase") \cap {"done", "garbled"}
          BY MayFail
        <4> QED
          BY <1>12, <3>2, <4>1
      <3> QED
        BY <3>1, <3>2
    <2>2. B!PurchaseCall(w)
      BY <1>1, <1>8, <1>9, <1>11, <1>13, <1>15, <2>1 DEF B!PurchaseCall
    <2> QED
      BY <1>6, <2>2 DEF B!Next, B!Handle
  <1>16. CASE phase'[w] = "wait" /\ todo'[w] = <<CancelTicket>>
    <2>1. B!Fails(w, "Purchase") /\ confirmed' = confirmed
      BY <1>12, <1>14, <1>16, MayFail DEF B!Fails
    <2>2. B!PurchaseCall(w)
      BY <1>1, <1>8, <1>10, <1>11, <1>16, <2>1 DEF B!PurchaseCall, B!AfterPurchase
    <2> QED
      BY <1>6, <2>2 DEF B!Next, B!Handle
  <1>17. <<>> # <<CancelTicket>>
    BY Lists
  <1> QED
    BY <1>3, <1>15, <1>16, <1>17

\* A new status keeps a row a row.
LEMMA StatusChanges ==
    ASSUME NEW t \in Tickets, ticket \in [Tickets -> B!TicketRows \cup {B!Absent}], ticket[t] # B!Absent,
           NEW status \in {"CANCELED", "deleted"}, ticket' = [ticket EXCEPT ![t].status = status]
    PROVE  ticket' \in [Tickets -> B!TicketRows \cup {B!Absent}] /\ TicketsRemain
  <1>1. PICK old \in {"PAID", "CANCELED", "deleted"}, u \in B!Clients : ticket[t] = [status |-> old, user |-> u]
    BY DEF B!TicketRows
  <1>2. [ticket[t] EXCEPT !.status = status] = [status |-> status, user |-> u]
    BY <1>1
  <1>3. [status |-> status, user |-> u] \in B!TicketRows /\ [status |-> status, user |-> u] # B!Absent
    BY DEF B!TicketRows, B!Absent
  <1>4. ticket' = [ticket EXCEPT ![t] = [status |-> status, user |-> u]]
    BY <1>2
  <1> QED
    BY <1>3, <1>4 DEF TicketsRemain

\* TicketDeletePoint is Booking's TicketDelete.
LEMMA TicketDeleteMaps ==
    ASSUME NEW w \in Workers, SystemInv, TicketDeletePoint(w)
    PROVE  SystemInv' /\ [B!Next]_(B!vars)
  <1>1. /\ UNCHANGED <<bonus, file, queue, consumer, writing>>
        /\ Told(w) /\ Remember(w, request[w].ticket)
        /\ Cancel(w) /\ (ticket' = B!RolledBack(request[w].user, request[w].ticket) \/ UNCHANGED ticket)
    BY DEF TicketDeletePoint, messages
  <1>2. todo[w] \notin {BuyPoint, <<Critical("ticket"), Purchase>>, <<Purchase>>, ReturnPoint, <<Refund>>, <<Publish>>}
        /\ phase[w] = "wait"
    BY <1>1, CallAt, Kinds DEF Cancel
  <1>3. At(w, "BuyPoint", <<CancelTicket>>) /\ Knows(w) /\ answer[w] # 200 /\ writing[w] = "open" /\ Functions
    BY <1>2, CallAt, Kinds DEF SystemInv, Place, At, WritesAtEnd, Shape, Functions
  <1>4. OnlyOne(w) /\ phase'[w] = "idle" /\ answer'[w] # 200 /\ endpoint[w] = "BuyPoint"
    BY <1>1, <1>3, CancelMoves DEF At
  <1>5. UNCHANGED <<confirmed, accepted>>
    BY <1>1, <1>4 DEF Told
  <1>6. ticket' \in [Tickets -> B!TicketRows \cup {B!Absent}] /\ TicketsRemain
    <2>1. CASE UNCHANGED ticket
      BY <2>1, TicketsStay DEF SystemInv, Shape
    <2>2. CASE /\ B!Owns(request[w].user, request[w].ticket)
               /\ ticket' = [ticket EXCEPT ![request[w].ticket].status = "deleted"]
      BY <1>3, <2>2, StatusChanges DEF Knows, SystemInv, Shape
    <2> QED
      BY <1>1, <2>1, <2>2 DEF B!RolledBack
  <1>7. SystemInv' /\ jobs' = [jobs EXCEPT ![w] = JobOf(w)']
    <2>1. Free(w)
      BY <1>1, <1>3, CallAt, Kinds DEF Free, Waits, At, bonus
    <2> QED
      BY <1>1, <1>3, <1>4, <1>6, <2>1, Remembered, RequestTicket, InvKept DEF SystemInv, Shape, WritesAtEnd, Place
  <1>8. /\ jobs[w].step = "cancel" /\ jobs[w].user = request[w].user /\ jobs[w].ticket = request[w].ticket
        /\ B!Leave(w)
    BY <1>3, <1>4, <1>7, JobAt, JobThen, Ended
  <1>9. B!TicketDelete(w)
    BY <1>1, <1>5, <1>8, MayFail DEF B!TicketDelete, B!bonus, bonus
  <1> QED
    BY <1>7, <1>9 DEF B!Next, B!Handle

\* TicketUpdatePoint is Booking's TicketUpdate.
LEMMA TicketUpdateMaps ==
    ASSUME NEW w \in Workers, SystemInv, TicketUpdatePoint(w)
    PROVE  SystemInv' /\ [B!Next]_(B!vars)
  <1>1. /\ UNCHANGED <<bonus, file, queue, consumer, writing>>
        /\ Told(w) /\ Remember(w, request[w].ticket)
        /\ endpoint[w] = "ReturnPoint" /\ Current(w) = Critical("ticket") /\ (Failed(w) \/ Responded(w))
    BY DEF TicketUpdatePoint, messages, Ends
  <1>2. /\ phase[w] # "idle" /\ writing[w] = "open" /\ Functions /\ request[w].user \in Users \cup Strangers
        /\ todo[w] = ReturnPoint /\ Knows(w)
    BY <1>1, EndsAt, CallAt, Kinds DEF At
  <1>3. /\ OnlyOne(w) /\ endpoint'[w] = endpoint[w]
        /\ \/ phase'[w] = "idle" /\ answer'[w] \notin {200, 204}
           \/ phase'[w] = "wait" /\ todo'[w] = <<Refund>>
    <2>1. Current(w).kind = "critical" /\ Tail(todo[w]) = <<Refund>> /\ <<Refund>> # <<>>
      BY <1>1, <1>2, CallAt, Kinds
    <2> QED
      BY <1>1, <1>2, <2>1, CriticalMoves
  <1>4. UNCHANGED <<confirmed, accepted>>
    BY <1>1, <1>3, ToldNothing
  <1>5. JobOf(w) = B!NoJob
    BY <1>1, <1>2, JobAt DEF At
  <1>6. /\ request' \in [Workers -> [user : Users \cup Strangers \cup {"none"}, ticket : Tickets \cup {NoTicket}]]
        /\ \A x \in Workers \ {w} : request'[x] = request[x]
        /\ phase'[w] # "idle" => request'[w].user = request[w].user /\ request'[w].ticket = request[w].ticket
    BY <1>1, Remembered, RequestTicket DEF SystemInv
  <1>7. ASSUME TicketsRemain, ticket' \in [Tickets -> B!TicketRows \cup {B!Absent}]
        PROVE  SystemInv' /\ jobs' = [jobs EXCEPT ![w] = JobOf(w)']
    <2>1. Place(w)'
      BY <1>1, <1>2, <1>3, <1>6, <1>7 DEF Place, At, Knows, TicketsRemain
    <2>2. Free(w)
      BY <1>1, CallAt, Kinds DEF Free, Waits, bonus
    <2> QED
      BY <1>1, <1>2, <1>3, <1>6, <1>7, <2>1, <2>2, InvKept DEF SystemInv, Shape, WritesAtEnd
  <1>8. CASE phase'[w] = "idle" /\ UNCHANGED ticket
    <2>1. SystemInv' /\ jobs' = [jobs EXCEPT ![w] = JobOf(w)']
      BY <1>7, <1>8, TicketsStay DEF SystemInv, Shape
    <2> QED
      BY <1>1, <1>4, <1>5, <1>8, <2>1, JobThen, Job, QuietMaps DEF Quiet, tables
  <1>9. CASE ticket' = B!Canceled(request[w].user, request[w].ticket)
    <2>1. ticket' \in [Tickets -> B!TicketRows \cup {B!Absent}] /\ TicketsRemain
      <3>1. CASE UNCHANGED ticket
        BY <3>1, TicketsStay DEF SystemInv, Shape
      <3>2. CASE ticket' = [ticket EXCEPT ![request[w].ticket].status = "CANCELED"]
                 /\ B!Owns(request[w].user, request[w].ticket)
        BY <1>2, <3>2, StatusChanges DEF Knows, SystemInv, Shape
      <3> QED
        BY <1>9, <3>1, <3>2 DEF B!Canceled
    <2>2. SystemInv' /\ jobs' = [jobs EXCEPT ![w] = JobOf(w)']
      BY <1>7, <2>1
    <2>3. \/ JobOf(w)' = B!NoJob
          \/ JobOf(w)' = [step |-> "refund", user |-> request[w].user, ticket |-> request[w].ticket]
      BY <1>3, <1>6, JobThen
    <2>4. /\ jobs[w] = B!NoJob
          /\ \/ jobs' = jobs
             \/ jobs' = [jobs EXCEPT ![w] = [step |-> "refund", user |-> request[w].user, ticket |-> request[w].ticket]]
      BY <1>5, <2>2, <2>3, Job
    <2>5. request[w].ticket \in Tickets /\ ticket[request[w].ticket] # B!Absent
      BY <1>2 DEF Knows
    <2>6. "lost" \in B!Outcomes("TicketUpdate") \ {"failed"} /\ "done" \in B!Outcomes("TicketUpdate") \ {"failed"}
      BY MayFail
    <2>7. B!TicketUpdate(w)
      BY <1>1, <1>2, <1>4, <1>9, <2>4, <2>5, <2>6 DEF B!TicketUpdate, B!Clients, B!bonus, bonus
    <2> QED
      BY <2>2, <2>7 DEF B!Next
  <1> QED
    BY <1>8, <1>9 DEF TicketUpdatePoint

\* ReturnPoint of the Bonus Service is Booking's RefundCall.
LEMMA RefundMaps ==
    ASSUME NEW w \in Workers, SystemInv, RefundPoint(w)
    PROVE  SystemInv' /\ [B!Next]_(B!vars)
  <1>1. /\ UNCHANGED <<ticket, file, queue, consumer, writing>>
        /\ Told(w) /\ Remember(w, request[w].ticket) /\ RefundBonus(w)
    BY DEF RefundPoint, messages
  <1>2. /\ phase[w] = "wait"
        /\ todo[w] \notin {BuyPoint, <<Critical("ticket"), Purchase>>, <<Purchase>>, ReturnPoint, <<CancelTicket>>, <<Publish>>}
    BY <1>1, CallAt, Kinds DEF RefundBonus
  <1>3. At(w, "ReturnPoint", <<Refund>>) /\ Knows(w) /\ writing[w] = "open" /\ Functions
    BY <1>2, CallAt, Kinds DEF SystemInv, Place, At, WritesAtEnd, Shape, Functions
  <1>4. /\ OnlyOne(w) /\ endpoint'[w] = "ReturnPoint"
        /\ \/ phase'[w] = "idle" /\ todo'[w] = <<>> /\ answer'[w] = 204
           \/ phase'[w] = "wait" /\ todo'[w] = <<Publish>>
    BY <1>1, <1>3, RefundMoves DEF At
  <1>5. /\ request' \in [Workers -> [user : Users \cup Strangers \cup {"none"}, ticket : Tickets \cup {NoTicket}]]
        /\ \A x \in Workers \ {w} : request'[x] = request[x]
        /\ phase'[w] # "idle" => request'[w].user = request[w].user /\ request'[w].ticket = request[w].ticket
    BY <1>1, Remembered, RequestTicket DEF SystemInv
  <1>6. Place(w)'
    BY <1>1, <1>3, <1>4, <1>5 DEF Place, At, Knows
  <1>7. SystemInv' /\ jobs' = [jobs EXCEPT ![w] = JobOf(w)']
    <2>1. Free(w)
      BY DEF RefundPoint, Free
    <2> QED
      BY <1>1, <1>2, <1>3, <1>4, <1>5, <1>6, <2>1, TicketsStay, InvKept DEF SystemInv, Shape, WritesAtEnd
  <1>8. JobOf(w) = [step |-> "refund", user |-> request[w].user, ticket |-> request[w].ticket]
    BY <1>3, JobAt
  <1>9. jobs[w].step = "refund" /\ jobs[w].user = request[w].user /\ jobs[w].ticket = request[w].ticket
    BY <1>8 DEF jobs
  <1>10. phase'[w] = "idle" => B!Leave(w)
    BY <1>7, <1>8, JobThen, Ended
  <1>11. phase'[w] = "wait" => B!GoTo(w, "open")
    <2>1. phase'[w] = "wait"
             => JobOf(w)' = [step |-> "open", user |-> request[w].user, ticket |-> request[w].ticket]
      BY <1>1, <1>3, <1>4, <1>5, JobThen
    <2> QED
      BY <1>7, <1>8, <2>1, GoesTo
  <1>12. UNCHANGED confirmed /\ (phase'[w] = "wait" => UNCHANGED accepted) /\ (phase'[w] = "idle" => B!Accept(w))
    BY <1>1, <1>3, <1>4, <1>9 DEF Told, At, B!Accept
  <1>13. CASE phase'[w] = "idle" /\ todo'[w] # <<Publish>>
    <2>1. B!Answered(w)
      BY <1>13 DEF RefundPoint
    <2>2. B!RefundCall(w)
      BY <1>1, <1>9, <1>10, <1>12, <1>13, <2>1 DEF B!RefundCall
    <2> QED
      BY <1>7, <2>2 DEF B!Next, B!Handle
  <1>14. CASE phase'[w] = "wait" /\ todo'[w] = <<Publish>>
    <2>1. B!Fails(w, "Refund")
      BY <1>14, MayFail DEF RefundPoint, B!Fails
    <2>2. B!RefundCall(w)
      BY <1>1, <1>9, <1>11, <1>12, <1>14, <2>1 DEF B!RefundCall
    <2> QED
      BY <1>7, <2>2 DEF B!Next, B!Handle
  <1> QED
    BY <1>4, <1>13, <1>14

\* A thread of the Bonus Service takes the call of a worker that waits for it.
LEMMA ServedAnew ==
    ASSUME NEW w \in Workers, SystemInv, Waits(w), B!Unserved(w), NEW b \in Servers, B!Serves(b, w),
           UNCHANGED <<vars, ticket, messages, clients>>
    PROVE  SystemInv' /\ UNCHANGED <<ticket, jobs, file, queue, consumer, confirmed, accepted>>
  <1>1. /\ UNCHANGED <<phase, endpoint, todo, answer, request, writing>>
        /\ UNCHANGED <<ticket, file, queue, consumer, confirmed, accepted>>
    BY DEF vars, messages, clients
  <1>2. \A x \in Workers : Place(x)' /\ WritesAtEnd(x)' /\ JobOf(x)' = JobOf(x)
    BY <1>1, PlaceStays, TicketsStay DEF SystemInv, Stays
  <1>3. Shape' /\ jobs' = jobs
    BY <1>1, <1>2 DEF SystemInv, Shape, jobs
  <1>4. Served'
    BY <1>1 DEF SystemInv, Served, Waits, B!Unserved, B!Serves
  <1> QED
    BY <1>1, <1>2, <1>3, <1>4 DEF SystemInv

\* Its SELECT is Booking's.
LEMMA PurchaseReadsMaps ==
    ASSUME NEW w \in Workers, SystemInv, PurchaseReads(w)
    PROVE  SystemInv' /\ [B!Next]_(B!vars)
  <1>1. phase[w] = "calling" /\ Current(w) = Purchase /\ UNCHANGED <<vars, ticket, messages, clients>>
    BY DEF PurchaseReads
  <1>2. At(w, "BuyPoint", <<Purchase>>)
    BY <1>1, CallAt, Kinds DEF SystemInv, Place, At
  <1>3. /\ SystemInv'
        /\ UNCHANGED <<ticket, jobs, file, queue, consumer, confirmed, accepted>>
    BY <1>1, <1>2, ServedAnew DEF PurchaseReads, B!AsksForPurchase, Waits, At
  <1>4. jobs[w] = [step |-> "purchase", user |-> request[w].user, ticket |-> request[w].ticket]
    BY <1>2, JobAt, Job
  <1>5. B!PurchaseRead(w)
    BY <1>3, <1>4 DEF PurchaseReads, B!PurchaseRead
  <1> QED
    BY <1>3, <1>5 DEF B!Next, B!Handle

LEMMA RefundReadsMaps ==
    ASSUME NEW w \in Workers, SystemInv, RefundReads(w)
    PROVE  SystemInv' /\ [B!Next]_(B!vars)
  <1>1. phase[w] = "wait" /\ Current(w) = Refund /\ UNCHANGED <<vars, ticket, messages, clients>>
    BY DEF RefundReads
  <1>2. At(w, "ReturnPoint", <<Refund>>)
    BY <1>1, CallAt, Kinds DEF SystemInv, Place, At
  <1>3. /\ SystemInv'
        /\ UNCHANGED <<ticket, jobs, file, queue, consumer, confirmed, accepted>>
    BY <1>1, <1>2, ServedAnew DEF RefundReads, B!AsksForRefund, Waits, At
  <1>4. jobs[w] = [step |-> "refund", user |-> request[w].user, ticket |-> request[w].ticket]
    BY <1>2, JobAt, Job
  <1>5. B!RefundRead(w)
    BY <1>3, <1>4 DEF RefundReads, B!RefundRead
  <1> QED
    BY <1>3, <1>5 DEF B!Next, B!Handle

\* While its message is written, a handler stays where it is.
LEMMA WritesOn ==
    ASSUME NEW w \in Workers, SystemInv, phase[w] = "wait", Current(w) = Publish,
           NEW step \in {"close", "publish"}, writing' = [writing EXCEPT ![w] = step],
           UNCHANGED <<vars, tables, queue, consumer, clients>>
    PROVE  /\ SystemInv' /\ jobs[w].step = writing[w] /\ B!GoTo(w, step)
           /\ jobs[w].user = request[w].user /\ jobs[w].ticket = request[w].ticket
           /\ UNCHANGED <<ticket, bonus, queue, consumer, confirmed, accepted>>
  <1>1. /\ UNCHANGED <<phase, endpoint, todo, answer, request>>
        /\ UNCHANGED <<ticket, bonus, queue, consumer, confirmed, accepted>>
    BY DEF vars, tables, bonus, clients
  <1>2. todo[w] \notin {BuyPoint, <<Critical("ticket"), Purchase>>, <<Purchase>>, ReturnPoint, <<CancelTicket>>, <<Refund>>}
    BY CallAt, Kinds
  <1>3. At(w, "ReturnPoint", <<Publish>>) /\ Functions
    BY <1>2 DEF SystemInv, Place, At, Shape, Functions
  <1>4. OnlyOne(w)
    BY <1>1, <1>3 DEF OnlyOne, Functions
  <1>5. Place(w)' /\ WritesAtEnd(w)'
    BY <1>1, <1>3 DEF SystemInv, Place, WritesAtEnd, At, Knows
  <1>6. /\ writing' \in [Workers -> {"open", "close", "publish"}]
        /\ \A x \in Workers \ {w} : writing'[x] = writing[x]
        /\ writing'[w] = step
    BY DEF SystemInv, Shape
  <1>7. SystemInv' /\ jobs' = [jobs EXCEPT ![w] = JobOf(w)']
    <2>1. Free(w)
      BY <1>1, <1>3, CallAt, Kinds DEF Free, Waits, At, bonus
    <2> QED
      BY <1>1, <1>4, <1>5, <1>6, <2>1, TicketsStay, InvKept DEF SystemInv, Shape
  <1>8. JobOf(w) = [step |-> writing[w], user |-> request[w].user, ticket |-> request[w].ticket]
    BY <1>3, JobAt
  <1>9. JobOf(w)' = [step |-> step, user |-> request[w].user, ticket |-> request[w].ticket]
    BY <1>1, <1>3, <1>6, JobThen DEF At
  <1> QED
    BY <1>1, <1>7, <1>8, <1>9, GoesTo

\* fopen is Booking's OpenFile.
LEMMA OpensMaps ==
    ASSUME NEW w \in Workers, SystemInv, Opens(w)
    PROVE  SystemInv' /\ [B!Next]_(B!vars)
  <1>1. /\ SystemInv' /\ jobs[w].step = "open" /\ B!GoTo(w, "close")
        /\ UNCHANGED <<ticket, bonus, queue, consumer, confirmed, accepted>>
    BY WritesOn DEF Opens
  <1>2. B!OpenFile(w)
    BY <1>1 DEF Opens, B!OpenFile, B!bonus, bonus
  <1> QED
    BY <1>1, <1>2 DEF B!Next, B!Handle

\* fclose is Booking's CloseFile.
LEMMA ClosesMaps ==
    ASSUME NEW w \in Workers, SystemInv, Closes(w)
    PROVE  SystemInv' /\ [B!Next]_(B!vars)
  <1>1. /\ SystemInv' /\ jobs[w].step = "close" /\ B!GoTo(w, "publish")
        /\ jobs[w].user = request[w].user /\ jobs[w].ticket = request[w].ticket
        /\ UNCHANGED <<ticket, bonus, queue, consumer, confirmed, accepted>>
    BY WritesOn DEF Closes
  <1>2. B!CloseFile(w)
    BY <1>1 DEF Closes, B!CloseFile, B!bonus, bonus
  <1> QED
    BY <1>1, <1>2 DEF B!Next, B!Handle

\* publish.py is Booking's Publish.
LEMMA PublishesMaps ==
    ASSUME NEW w \in Workers, SystemInv, Publishes(w)
    PROVE  SystemInv' /\ [B!Next]_(B!vars)
  <1>1. /\ UNCHANGED <<ticket, bonus, file, consumer>> /\ PublishRefund(w)
        /\ Told(w) /\ Remember(w, request[w].ticket)
        /\ writing[w] = "publish" /\ writing' = [writing EXCEPT ![w] = "open"]
        /\ queue' = B!Enqueued(queue, file) \/ UNCHANGED queue
    BY DEF Publishes, tables
  <1>2. At(w, "ReturnPoint", <<Publish>>) /\ Functions
    BY <1>1 DEF SystemInv, WritesAtEnd, Shape, Functions
  <1>3. OnlyOne(w) /\ phase'[w] = "idle" /\ answer'[w] = 204
    BY <1>1, <1>2, PublishMoves DEF At
  <1>4. /\ writing' \in [Workers -> {"open", "close", "publish"}]
        /\ \A x \in Workers \ {w} : writing'[x] = writing[x]
        /\ writing'[w] = "open"
    BY <1>1 DEF SystemInv, Shape
  <1>5. SystemInv' /\ jobs' = [jobs EXCEPT ![w] = JobOf(w)']
    <2>1. Free(w)
      BY <1>1, <1>2, CallAt, Kinds DEF Free, Waits, At, bonus
    <2> QED
      BY <1>1, <1>3, <1>4, <2>1, Remembered, RequestTicket, TicketsStay, InvKept
      DEF SystemInv, Shape, WritesAtEnd, Place
  <1>6. JobOf(w) = [step |-> "publish", user |-> request[w].user, ticket |-> request[w].ticket]
    BY <1>1, <1>2, JobAt
  <1>7. /\ jobs[w].step = "publish" /\ jobs[w].user = request[w].user /\ jobs[w].ticket = request[w].ticket
        /\ B!Leave(w)
    BY <1>3, <1>5, <1>6, JobThen, Ended
  <1>8. UNCHANGED confirmed /\ B!Accept(w)
    BY <1>1, <1>2, <1>3, <1>7 DEF Told, At, B!Accept
  <1>9. B!Publish(w)
    BY <1>1, <1>7, <1>8, MayFail DEF B!Publish, B!bonus, bonus
  <1> QED
    BY <1>5, <1>9 DEF B!Next, B!Handle

\* The handlers stay where they are.
LEMMA HandlersStay ==
    ASSUME SystemInv, UNCHANGED <<phase, endpoint, todo, answer, request, writing, ticket>>, Served'
    PROVE  SystemInv' /\ jobs' = jobs
  <1>1. \A x \in Workers : Place(x)' /\ WritesAtEnd(x)' /\ JobOf(x)' = JobOf(x)
    BY PlaceStays, TicketsStay DEF SystemInv, Stays
  <1>2. Shape'
    BY DEF SystemInv, Shape
  <1> QED
    BY <1>1, <1>2 DEF SystemInv, jobs

LEMMA StandsStill ==
    ASSUME SystemInv, UNCHANGED <<phase, endpoint, todo, answer, tables, messages, clients>>
    PROVE  SystemInv' /\ UNCHANGED B!vars
  <1>1. UNCHANGED <<ticket, bonus, file, queue, consumer, writing, confirmed, accepted, request>>
    BY DEF tables, messages, clients
  <1>2. Served'
    BY <1>1 DEF SystemInv, Served, Waits, bonus
  <1> QED
    BY <1>1, <1>2, HandlersStay DEF B!vars, B!bonus, bonus

\* A thread whose caller is gone goes on as Booking says.
LEMMA ServerMaps ==
    ASSUME SystemInv, ServerGoesOn
    PROVE  SystemInv' /\ [B!Next]_(B!vars)
  <1>1. UNCHANGED <<phase, endpoint, todo, answer, request, writing, ticket, caller>>
    BY DEF ServerGoesOn, vars, B!GoesOn
  <1>2. Served'
    BY <1>1 DEF SystemInv, Served, Waits
  <1> QED
    BY <1>1, <1>2, HandlersStay DEF ServerGoesOn, B!Next

\* The consumer's steps are Booking's, and leave the handlers alone.
LEMMA ConsumerMaps ==
    ASSUME SystemInv, ConsumerGoesOn
    PROVE  SystemInv' /\ [B!Next]_(B!vars)
  <1>1. UNCHANGED <<phase, endpoint, todo, answer, request, writing>>
    BY DEF ConsumerGoesOn, vars
  <1>2. B!Consume \/ B!ConsumerStops
    BY DEF ConsumerGoesOn
  <1>3. /\ UNCHANGED ticket
        /\ \/ UNCHANGED caller
           \/ \E b \in Servers : B!Serves(b, Script)
           \/ \E b \in Servers : caller[b] = Script /\ B!Serves(b, Nobody)
           \/ B!Abandoned({Script})
    BY <1>2 DEF B!Consume, B!Deliver, B!RetryRead, B!Retry, B!RetryRefused, B!RetryRaises, B!PublishAgain,
           B!Acknowledge, B!ConsumerStarts, B!ConsumerStops, B!AsksForRefund, B!Answered, B!Fails, B!NotExecuted,
           B!GivenUp, B!bonus
  <1>4. /\ caller' \in [Servers -> Workers \cup {Script, Nobody}]
        /\ \A b \in Servers : caller'[b] \in {caller[b], Script, Nobody}
    BY <1>3, Callers DEF SystemInv, Served, B!Serves, B!Abandoned
  <1>5. Served'
    BY <1>1, <1>4, Callers DEF SystemInv, Served, Waits
  <1> QED
    BY <1>1, <1>3, <1>5, HandlersStay DEF ConsumerGoesOn, B!Next

\* A stop of the gateway is one of Booking's if a handler had changed something.
LEMMA GatewayRestartsMaps ==
    ASSUME SystemInv, GatewayRestarts
    PROVE  SystemInv' /\ [B!Next]_(B!vars)
  <1>1. UNCHANGED <<ticket, file, queue, consumer, confirmed, accepted>> /\ B!Abandoned(Workers)
    BY DEF GatewayRestarts
  <1>2. NoRequest \in [user : Users \cup Strangers \cup {"none"}, ticket : Tickets \cup {NoTicket}]
    BY DEF NoRequest
  <1>3. Shape'
    BY <1>1, <1>2 DEF SystemInv, Shape, GatewayRestarts, Phases
  <1>4. \A x \in Workers : Place(x)' /\ WritesAtEnd(x)'
    BY DEF GatewayRestarts, Place, WritesAtEnd
  <1>5. jobs' = [w \in Workers |-> B!NoJob]
    BY DEF GatewayRestarts, jobs, JobOf, B!NoJob
  <1>8. Served'
    BY <1>1, Callers DEF SystemInv, Served, B!Abandoned
  <1>6. CASE \E w \in Workers : jobs[w] # B!NoJob
    <2>1. <<"Gateway", "stop">> \in EveryFault
      BY DEF EveryFault
    <2>2. B!GatewayStops
      BY <1>1, <1>5, <1>6, <2>1 DEF B!GatewayStops
    <2> QED
      BY <1>3, <1>4, <1>8, <2>2 DEF SystemInv, B!Next
  <1>7. CASE \A w \in Workers : jobs[w] = B!NoJob
    <2>1. jobs' = jobs
      BY <1>5, <1>7 DEF jobs
    <2>2. \A w \in Workers : ~Waits(w)
      <3>1. ASSUME NEW w \in Workers, Waits(w) PROVE FALSE
        <4>1. JobOf(w).step \in {"purchase", "refund"}
          BY <3>1, CallAt, Kinds DEF Waits, JobOf
        <4> QED
          BY <1>7, <4>1, Job DEF B!NoJob
      <3> QED
        BY <3>1
    <2>3. UNCHANGED bonus
      BY <1>1, <2>2 DEF SystemInv, Served, B!Abandoned, bonus
    <2> QED
      BY <1>1, <1>3, <1>4, <1>8, <2>1, <2>3 DEF SystemInv, B!vars, B!bonus, bonus
  <1> QED
    BY <1>6, <1>7

-----------------------------------------------------------------------------
(* The refinement.                                                         *)

\* The invariant holds at first.
LEMMA SystemBegins == SystemInit => SystemInv /\ B!Init
  <1> SUFFICES ASSUME SystemInit PROVE SystemInv
    BY InitMaps
  <1>1. ticket \in [Tickets -> B!TicketRows \cup {B!Absent}]
    <2>1. SeedUser \in Users
      BY SystemAssumption DEF B!BookingAssumption
    <2>2. B!Row("PAID", SeedUser) \in B!TicketRows
      BY <2>1 DEF B!Row, B!TicketRows, B!Clients
    <2> QED
      BY <2>2 DEF SystemInit
  <1>2. NoRequest \in [user : Users \cup Strangers \cup {"none"}, ticket : Tickets \cup {NoTicket}]
    BY DEF NoRequest
  <1>3. Shape
    BY <1>1, <1>2 DEF SystemInit, Init, Shape, Phases
  <1>4. \A w \in Workers : Place(w) /\ WritesAtEnd(w)
    BY DEF SystemInit, Init, Place, WritesAtEnd
  <1>5. Served
    BY Callers DEF SystemInit, Served
  <1> QED
    BY <1>3, <1>4, <1>5 DEF SystemInv

\* Each step keeps the invariant and is one of Booking's, or a stutter of it.
LEMMA SystemStep == SystemInv /\ [SystemNext]_allVars => SystemInv' /\ [B!Next]_(B!vars)
  <1> SUFFICES ASSUME SystemInv, [SystemNext]_allVars PROVE SystemInv' /\ [B!Next]_(B!vars)
    OBVIOUS
  <1>1. CASE UNCHANGED allVars
    BY <1>1, StandsStill DEF allVars, vars
  <1>2. ASSUME NEW s \in Services, SystemTick(s) PROVE SystemInv' /\ [B!Next]_(B!vars)
    BY <1>2, StandsStill DEF SystemTick, Tick
  <1>3. ASSUME NEW w \in Workers,
               \/ Begins(w) \/ Locks(w) \/ NothingChanges(w)
               \/ TicketPostPoint(w) \/ PurchaseReads(w) \/ PurchasePoint(w) \/ TicketDeletePoint(w)
               \/ TicketUpdatePoint(w) \/ RefundReads(w) \/ RefundPoint(w)
               \/ Opens(w) \/ Closes(w) \/ Publishes(w)
        PROVE  SystemInv' /\ [B!Next]_(B!vars)
    BY <1>3, BeginsMaps, LocksMaps, NothingChangesMaps, TicketPostMaps, PurchaseReadsMaps, PurchaseMaps,
       TicketDeleteMaps, TicketUpdateMaps, RefundReadsMaps, RefundMaps, OpensMaps, ClosesMaps, PublishesMaps
  <1>4. CASE GatewayRestarts
    BY <1>4, GatewayRestartsMaps
  <1>5. CASE ConsumerGoesOn
    BY <1>5, ConsumerMaps
  <1>6. CASE ServerGoesOn
    BY <1>6, ServerMaps
  <1> QED
    BY <1>1, <1>2, <1>3, <1>4, <1>5, <1>6 DEF SystemNext

\* The handlers with their mutexes and breakers do to the tables and the queue what Booking
\* says, in its order: locks, refusals, trials and other threads in between change nothing.
THEOREM HandlersImplementBooking == SystemSpec => HandlersBook
  <1>1. SystemInit => SystemInv /\ B!Init
    BY SystemBegins
  <1>2. SystemInv /\ [SystemNext]_allVars => SystemInv' /\ [B!Next]_(B!vars)
    BY SystemStep
  <1> QED
    BY <1>1, <1>2, PTL DEF SystemSpec, HandlersBook, B!Spec
-----------------------------------------------------------------------------
(* What the handlers inherit.                                              *)

LEMMA BookingAssumed == B!BookingAssumption
  BY SystemAssumption DEF SystemAssumption

\* Through mutexes, breakers, refusals and any number of threads: a purchase that was answered
\* with success keeps its ticket and its booking, whatever fails in later ones.
THEOREM ConfirmedThroughGateway == SystemSpec => []B!ConfirmedIsBooked
  <1>1. B!Spec => []B!ConfirmedIsBooked
    BY BookingAssumed, B!ConfirmedStaysBooked
  <1> QED
    BY <1>1, HandlersImplementBooking, PTL DEF HandlersBook

\* The bonuses of a ticket are given back only when the ticket cannot be used, unless the consumer
\* can read it out of a user's name: whatever the breakers refuse and in whatever order the
\* threads come through the mutexes.
THEOREM RefundedNotPaidThroughGateway ==
    ASSUME Users = {SeedUser}
    PROVE  SystemSpec => []B!RefundedIsNotPaid
  <1>1. B!Spec => []B!RefundedIsNotPaid
    BY BookingAssumed, B!RefundedNotPaid
  <1> QED
    BY <1>1, HandlersImplementBooking, PTL DEF HandlersBook

\* Once a ticket is refunded and no refund of it is under way, no return, retry or restart of the
\* gateway books it again.
THEOREM SettledThroughGateway == SystemSpec => B!SettledForGood
  <1>1. B!Spec => B!SettledForGood
    BY BookingAssumed, B!SettledStays
  <1> QED
    BY <1>1, HandlersImplementBooking, PTL DEF HandlersBook
=============================================================================
