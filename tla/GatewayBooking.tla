---------------------------- MODULE GatewayBooking ----------------------------
(***************************************************************************)
(* BuyPoint and ReturnPoint in full: the threads, mutexes and circuit      *)
(* breakers of Gateway together with what their calls do to the tables,    *)
(* the threads of the Bonus Service and the queue.  Every step of a        *)
(* handler is one of Gateway's, or one inside what Gateway takes as one    *)
(* call: a thread of the Bonus Service reads the account, message.txt is   *)
(* written.  Those threads and the consumer of the queue are Booking's;    *)
(* the gateway may stop at any time and starts again with free mutexes and *)
(* new breakers.                                                           *)
(***************************************************************************)
EXTENDS Gateway

CONSTANTS Users, Strangers, LongNames, CommaNames, ReadAs, Unsendable, Tickets, Seed, SeedUser,
          Prices, Opening, Servers, Script, Nobody, MaxCopies    \* as in Booking

VARIABLES
    ticket, balance, history, pending, caller, file, queue, consumer, confirmed, accepted,    \* as in Booking
    request,    \* the user and the ticket of the request that each worker serves
    writing     \* the step of its return's message that each worker has to do next

bonus == <<balance, history, pending, caller>>
tables == <<ticket, bonus>>
messages == <<file, queue, consumer, writing>>
clients == <<confirmed, accepted, request>>
allVars == <<vars, tables, messages, clients>>

\* Before the Ticket Service has drawn an identifier, and between requests.
NoTicket == "none"
NoRequest == [user |-> "none", ticket |-> NoTicket]

\* Where a handler of Booking is: it begins with the first call that changed something.
JobOf(w) ==
    IF phase[w] # "idle" /\ Current(w).kind \in {"purchase", "cancel", "refund", "publish"}
    THEN [step |-> IF Current(w).kind = "publish" THEN writing[w] ELSE Current(w).kind,
          user |-> request[w].user, ticket |-> request[w].ticket]
    ELSE [step |-> "idle"]

jobs == [w \in Workers |-> JobOf(w)]

\* Whatever may go wrong in Booking.
EveryFault ==
    {"TicketPost", "Purchase", "TicketDelete", "TicketUpdate", "Refund", "Publish", "Retry"}
        \X {"garbled", "lost", "failed"}
      \cup {"Gateway", "Consumer"} \X {"stop"}

\* Booking, with its theorems.
B == INSTANCE BookingProofs
     WITH job <- jobs, Handlers <- {"BuyPoint", "ReturnPoint"}, Faults <- EveryFault

ASSUME SystemAssumption ==
    /\ B!BookingAssumption
    /\ Endpoints \subseteq {"BuyPoint", "ReturnPoint"}

SystemInit ==
    /\ Init
    /\ B!Service!Init
    /\ caller = [b \in Servers |-> Nobody]
    /\ ticket = [t \in Tickets |-> IF t = Seed THEN B!Row("PAID", SeedUser) ELSE B!Absent]
    /\ file = B!Missing
    /\ queue = <<>>
    /\ consumer = B!Ready
    /\ confirmed = {Seed}
    /\ accepted = {}
    /\ request = [w \in Workers |-> NoRequest]
    /\ writing = [w \in Workers |-> "open"]
-----------------------------------------------------------------------------
\* The call may have had no effect: it ends with an error status, or not at all.
MayNotExecute == CriticalReplies \cap {"none", "notFound", "error"} # {}

\* What the handler knows of its request, which ends with it; t is the ticket from now on.
Remember(w, t) ==
    request' = [request EXCEPT ![w] = IF phase'[w] = "idle" THEN NoRequest ELSE [@ EXCEPT !.ticket = t]]

\* What clients are told.
Told(w) ==
    /\ confirmed' = IF endpoint[w] = "BuyPoint" /\ phase'[w] = "idle" /\ answer'[w] = 200
                    THEN confirmed \cup {request[w].ticket} ELSE confirmed
    /\ accepted' = IF endpoint[w] = "ReturnPoint" /\ phase'[w] = "idle" /\ answer'[w] = 204
                   THEN accepted \cup {<<request[w].user, request[w].ticket>>} ELSE accepted

\* A call of worker w ends.
Ends(w, call) == phase[w] # "idle" /\ Current(w) = call /\ (Failed(w) \/ Responded(w))

Begins(w) ==
    /\ Receive(w)
    /\ \E u \in Users \cup Strangers :
          \/ /\ endpoint'[w] = "BuyPoint"
             /\ request' = [request EXCEPT ![w] = [user |-> u, ticket |-> NoTicket]]
          \/ /\ endpoint'[w] = "ReturnPoint"
             /\ \E t \in Tickets :
                   /\ ticket[t] # B!Absent
                   /\ request' = [request EXCEPT ![w] = [user |-> u, ticket |-> t]]
    /\ UNCHANGED <<tables, messages, confirmed, accepted>>

Locks(w) == Acquire(w) /\ UNCHANGED <<tables, messages, clients>>

\* FlightGetPoint, or a breaker that refuses: no service changes anything.
NothingChanges(w) ==
    /\ Ends(w, Critical("flight")) \/ Refused(w)
    /\ Remember(w, request[w].ticket)
    /\ Told(w)
    /\ UNCHANGED <<tables, messages>>

TicketPostPoint(w) ==
    /\ endpoint[w] = "BuyPoint"
    /\ Ends(w, Critical("ticket"))
    /\ \/ \E t \in Tickets :
             /\ ticket[t] = B!Absent
             /\ ticket' = B!Created(request[w].user, t)
             /\ Remember(w, t)
       \/ /\ MayNotExecute
          /\ phase'[w] = "idle"
          /\ Remember(w, NoTicket)
          /\ UNCHANGED ticket
    /\ Told(w)
    /\ UNCHANGED <<bonus, messages>>

\* A thread of the Bonus Service has the request, and reads the account.
PurchaseReads(w) ==
    /\ phase[w] = "calling" /\ Current(w) = Purchase
    /\ B!AsksForPurchase(w, request[w].user, request[w].ticket)
    /\ UNCHANGED <<vars, ticket, messages, clients>>

\* It has booked when its answer is a good one.  The handler that gets no good answer does
\* not know.
PurchasePoint(w) ==
    /\ Ends(w, Purchase)
    /\ IF todo'[w] = <<CancelTicket>>
       THEN \/ B!NotExecuted(w)
            \/ B!GivenUp(w)
       ELSE B!Answered(w)
    /\ Remember(w, request[w].ticket)
    /\ Told(w)
    /\ UNCHANGED <<ticket, messages>>

TicketDeletePoint(w) ==
    /\ Cancel(w)
    /\ \/ ticket' = B!RolledBack(request[w].user, request[w].ticket)
       \/ MayNotExecute /\ UNCHANGED ticket
    /\ Remember(w, request[w].ticket)
    /\ Told(w)
    /\ UNCHANGED <<bonus, messages>>

TicketUpdatePoint(w) ==
    /\ endpoint[w] = "ReturnPoint"
    /\ Ends(w, Critical("ticket"))
    /\ \/ ticket' = B!Canceled(request[w].user, request[w].ticket)
       \/ MayNotExecute /\ phase'[w] = "idle" /\ UNCHANGED ticket
    /\ Remember(w, request[w].ticket)
    /\ Told(w)
    /\ UNCHANGED <<bonus, messages>>

RefundReads(w) ==
    /\ phase[w] = "wait" /\ Current(w) = Refund
    /\ B!AsksForRefund(w, request[w].user, request[w].ticket)
    /\ UNCHANGED <<vars, ticket, messages, clients>>

\* A refund that is refused is not executed either.
RefundPoint(w) ==
    /\ RefundBonus(w)
    /\ IF todo'[w] = <<Publish>>
       THEN \/ B!NotExecuted(w)
            \/ B!GivenUp(w)
       ELSE B!Answered(w)
    /\ Remember(w, request[w].ticket)
    /\ Told(w)
    /\ UNCHANGED <<ticket, messages>>

\* fopen, fclose and publish.py.
Opens(w) ==
    /\ phase[w] = "wait" /\ Current(w) = Publish /\ writing[w] = "open"
    /\ file' = B!Nothing
    /\ writing' = [writing EXCEPT ![w] = "close"]
    /\ UNCHANGED <<vars, tables, queue, consumer, clients>>

Closes(w) ==
    /\ phase[w] = "wait" /\ Current(w) = Publish /\ writing[w] = "close"
    /\ file' \in B!Overwritten(file, request[w].user, request[w].ticket)
    /\ writing' = [writing EXCEPT ![w] = "publish"]
    /\ UNCHANGED <<vars, tables, queue, consumer, clients>>

Publishes(w) ==
    /\ PublishRefund(w)
    /\ writing[w] = "publish"
    /\ queue' = B!Enqueued(queue, file) \/ UNCHANGED queue
    /\ writing' = [writing EXCEPT ![w] = "open"]
    /\ Remember(w, request[w].ticket)
    /\ Told(w)
    /\ UNCHANGED <<tables, file, consumer>>

\* The gateway stops, with its requests, and starts again.
GatewayRestarts ==
    /\ lock' = [s \in Services |-> NoWorker]
    /\ breaker' = [s \in Services |-> Fresh]
    /\ phase' = [w \in Workers |-> "idle"]
    /\ endpoint' = [w \in Workers |-> "HealthPoint"]
    /\ todo' = [w \in Workers |-> <<>>]
    /\ answer' = [w \in Workers |-> NoAnswer]
    /\ request' = [w \in Workers |-> NoRequest]
    /\ writing' = [w \in Workers |-> "open"]
    /\ B!Abandoned(Workers)
    /\ UNCHANGED <<ticket, file, queue, consumer, confirmed, accepted>>

\* consumer.py knows nothing of the gateway.
ConsumerGoesOn ==
    /\ UNCHANGED <<vars, request, writing>>
    /\ B!Consume \/ B!ConsumerStops

\* Nor does a thread of the Bonus Service whose caller is gone.
ServerGoesOn ==
    /\ UNCHANGED <<vars, request, writing>>
    /\ \E b \in Servers : B!GoesOn(b)

SystemTick(s) == Tick(s) /\ UNCHANGED <<tables, messages, clients>>

SystemNext ==
    \/ \E w \in Workers :
          \/ Begins(w) \/ Locks(w) \/ NothingChanges(w)
          \/ TicketPostPoint(w) \/ PurchaseReads(w) \/ PurchasePoint(w) \/ TicketDeletePoint(w)
          \/ TicketUpdatePoint(w) \/ RefundReads(w) \/ RefundPoint(w)
          \/ Opens(w) \/ Closes(w) \/ Publishes(w)
    \/ GatewayRestarts
    \/ ConsumerGoesOn
    \/ ServerGoesOn
    \/ \E s \in Services : SystemTick(s)

SystemSpec == SystemInit /\ [][SystemNext]_allVars
-----------------------------------------------------------------------------
\* The handlers of the gateway, with their mutexes and breakers, next to the threads of the
\* Bonus Service and the consumer and through restarts, do to the tables and the queue what
\* Booking says, in its order, and answer 200 and 204 when it does: so what is shown of
\* Booking holds of them.
HandlersBook == B!Spec
=============================================================================
