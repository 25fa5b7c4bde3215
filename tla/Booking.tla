------------------------------- MODULE Booking -------------------------------
(***************************************************************************)
(* A purchase and a return of a ticket across the services: BuyPoint and   *)
(* ReturnPoint of the gateway, the rows of the Ticket Service, the threads *)
(* of the Bonus Service (BonusService), and the queue in which the gateway *)
(* puts a return that the Bonus Service did not confirm.                   *)
(*                                                                         *)
(* A remote call ends in one of four ways:                                 *)
(*    "done"     it is executed and answered with status 200;              *)
(*    "garbled"  the same, but the body of the answer cannot be read;      *)
(*    "lost"     the caller gets an error or no answer, and it is executed *)
(*               nevertheless;                                             *)
(*    "failed"   the same, and it is not executed.                         *)
(* The last is also what a refusal by the circuit breaker looks like.  A   *)
(* call of the Ticket Service is one step.  One of the Bonus Service is    *)
(* read by one of its threads and booked later, and threads overlap; a     *)
(* caller that gives up leaves its thread to go on.  (A request given up   *)
(* before its SELECT ran is "failed".)                                     *)
(***************************************************************************)
EXTENDS Integers, Sequences, FiniteSetsExt

CONSTANTS Users,        \* users with an account in the Bonus Service
          Strangers,    \* other user names
          LongNames,    \* the longer names among them
          CommaNames,   \* the names with a comma, and
          ReadAs,       \* which return the consumer takes a line with such a name for
          Unsendable,   \* the names that consumer.py cannot encode as a header
          Tickets, Seed,      \* ticket identifiers, and the ticket of the test data
          SeedUser,           \* its user
          Prices, Opening,    \* prices of tickets, balance of the test data
          Workers,      \* threads of the gateway
          Servers,      \* threads of the Bonus Service
          Script, Nobody,     \* consumer.py as a caller, and no caller
          Handlers,     \* which of BuyPoint and ReturnPoint clients use
          Faults,       \* <<call, outcome>>: what may go wrong
          MaxCopies     \* bound: more copies of a message are as good as this many

Clients == Users \cup Strangers

VARIABLES
    ticket,     \* table ticket: status and user of each identifier
    balance,    \* privilege.balance
    history,    \* privilege_history
    pending,    \* what each thread of the Bonus Service is about to write,
    caller,     \* and who waits for its answer
    job,        \* the handler that each thread runs, once it has changed something
    file,       \* message.txt
    queue,      \* the messages of queue cancel-bonus that are ready
    consumer,   \* consumer.py, and the message it has not acknowledged
    confirmed,  \* purchases that were answered with 200, the test data's included
    accepted    \* returns that were answered with 204

bonus == <<balance, history, pending, caller>>

vars == <<ticket, bonus, job, file, queue, consumer, confirmed, accepted>>

\* BonusService, with its theorems; the balance queries do not matter here.
Service == INSTANCE BonusProofs WITH Workers <- Servers, Readers <- {}, reading <- <<>>

ASSUME BookingAssumption ==
    /\ Service!Ledger!LedgerAssumption
    /\ Users \cap Strangers = {}
    /\ SeedUser \in Users
    /\ MaxCopies \in Nat \ {0}
    /\ Script \notin Workers /\ Nobody \notin Workers \cup {Script}
    \* Table privilege has none of these names.  One with a comma is longer than one without,
    \* and the part before the comma has none.
    /\ Unsendable \subseteq Strangers
    /\ CommaNames \subseteq Strangers \cap LongNames
    /\ ReadAs \in [CommaNames -> [user : Clients \ CommaNames, ticket : Tickets]]

Outcomes(call) == {"done"} \cup {o \in {"garbled", "lost", "failed"} : <<call, o>> \in Faults}

\* Rows of table ticket.  "absent": not inserted yet; "deleted": not any more.
Row(status, u) == [status |-> status, user |-> u]
Absent == [status |-> "absent"]

TicketRows == [status : {"PAID", "CANCELED", "deleted"}, user : Clients]

NoJob == [step |-> "idle"]
Steps == {"purchase", "cancel", "refund", "open", "close", "publish"}
Jobs == [step : Steps, user : Clients, ticket : Tickets]

\* What message.txt, and so a message, can hold: the line of a return, nothing, or
\* the line of u with the rest of a longer one behind it.
Message(u, t) == [kind |-> "return", user |-> u, ticket |-> t]
Nothing == [kind |-> "empty"]
Mixture(u) == [kind |-> "mixed", user |-> u]
Messages == [kind : {"return"}, user : Clients, ticket : Tickets]
              \cup [kind : {"mixed"}, user : Clients] \cup {Nothing}

\* What the consumer makes of the line of a return: its first two fields.
Requested(m) == IF m.user \in CommaNames THEN ReadAs[m.user] ELSE [user |-> m.user, ticket |-> m.ticket]

Missing == [kind |-> "missing"]

Ready == [step |-> "idle"]
Down == [step |-> "down"]
Busy == [step : {"call", "again", "ack"}, message : Messages]

\* Types of the variables; a status is one that table ticket allows.
TypeOK ==
    /\ ticket \in [Tickets -> TicketRows \cup {Absent}]
    /\ balance \in [Users -> Int]
    /\ history \in [Users -> Seq(Service!Ledger!Rows)]
    /\ pending \in [Servers -> Service!Writes \cup {Service!NoWrite}]
    /\ caller \in [Servers -> Workers \cup {Script, Nobody}]
    /\ job \in [Workers -> Jobs \cup {NoJob}]
    /\ file \in Messages \cup {Missing}
    /\ queue \in Seq(Messages)
    /\ consumer \in Busy \cup {Ready, Down}
    /\ confirmed \subseteq Tickets
    /\ accepted \subseteq Clients \X Tickets

Init ==
    /\ Service!Init
    /\ caller = [b \in Servers |-> Nobody]
    /\ ticket = [t \in Tickets |-> IF t = Seed THEN Row("PAID", SeedUser) ELSE Absent]
    /\ job = [w \in Workers |-> NoJob]
    /\ file = Missing
    /\ queue = <<>>
    /\ consumer = Ready
    /\ confirmed = {Seed}
    /\ accepted = {}
-----------------------------------------------------------------------------
(* The rows of the Ticket Service and of the Bonus Service.                *)

Owns(u, t) == ticket[t].status \in {"PAID", "CANCELED"} /\ ticket[t].user = u

\* CreateTicket, for an identifier that is new.
Created(u, t) == [ticket EXCEPT ![t] = Row("PAID", u)]

\* Mutant of RolledBack: every ticket of the user is deleted.
RolledBackAll(u, t) ==
    [x \in Tickets |-> IF Owns(u, x) THEN Row("deleted", u) ELSE ticket[x]]

\* RollbackCreateTicket.
RolledBack(u, t) == IF Owns(u, t) THEN [ticket EXCEPT ![t].status = "deleted"] ELSE ticket

\* Mutants of Canceled: a status that the table's CHECK does not list; and a
\* statement that never finds its row.
CanceledMisspelled(u, t) == IF Owns(u, t) THEN [ticket EXCEPT ![t].status = "CANCELLED"] ELSE ticket
CanceledNothing(u, t) == ticket

\* DeleteTicket: an UPDATE that finds no row is a success as well.
Canceled(u, t) == IF Owns(u, t) THEN [ticket EXCEPT ![t].status = "CANCELED"] ELSE ticket

\* PerfromReturnOperation finds the purchase, not yet refunded.
CanRefund(u, t) == u \in Users /\ Service!ActiveTicket(history[u], t)
-----------------------------------------------------------------------------
(* Calls of the Bonus Service.  Caller c is a handler's thread or Script.  *)

Unserved(c) == \A b \in Servers : caller[b] # c

Serves(b, c) == caller' = [caller EXCEPT ![b] = c]

AsksForPurchase(c, u, t) ==
    /\ Unserved(c) /\ u \in Users
    /\ \E b \in Servers : Service!ReadForPurchase(b, u, t) /\ Serves(b, c)

AsksForRefund(c, u, t) ==
    /\ Unserved(c) /\ u \in Users
    /\ \E b \in Servers : Service!ReadForReturn(b, u, t) /\ Serves(b, c)

\* The thread books, and answers.
Answered(c) == \E b \in Servers : caller[b] = c /\ Service!Write(b) /\ Serves(b, Nobody)

\* The request is not executed: it does not arrive, it cannot be read, or its
\* transaction fails.
NotExecuted(c) ==
    \/ Unserved(c) /\ UNCHANGED bonus
    \/ \E b \in Servers : caller[b] = c /\ Service!WriteFails(b) /\ Serves(b, Nobody)

\* The caller gets no good answer; the thread goes on, or has booked already.
GivenUp(c) == /\ \E b \in Servers : caller[b] = c /\ Serves(b, Nobody)
              /\ UNCHANGED <<balance, history, pending>>

Fails(c, call) == \/ "failed" \in Outcomes(call) /\ NotExecuted(c)
                  \/ "lost" \in Outcomes(call) /\ GivenUp(c)

\* A thread whose caller is gone.
GoesOn(b) ==
    /\ caller[b] = Nobody
    /\ Service!Write(b) \/ Service!WriteFails(b)
    /\ UNCHANGED <<caller, ticket, job, file, queue, consumer, confirmed, accepted>>

\* The callers C are gone.
Abandoned(C) == /\ caller' = [b \in Servers |-> IF caller[b] \in C THEN Nobody ELSE caller[b]]
                /\ UNCHANGED <<balance, history, pending>>
-----------------------------------------------------------------------------
(* The handlers.  A handler that ends before it changed anything is no step. *)

GoTo(w, step) == job' = [job EXCEPT ![w].step = step]

Leave(w) == job' = [job EXCEPT ![w] = NoJob]

\* BuyPoint: TicketPostPoint, for a new identifier.
TicketPost(w) ==
    /\ job[w] = NoJob /\ "BuyPoint" \in Handlers
    /\ \E u \in Clients, t \in Tickets :
          /\ ticket[t] = Absent
          /\ ticket' = Created(u, t)
          /\ \E o \in Outcomes("TicketPost") \ {"failed"} :
                job' = IF o = "done"
                       THEN [job EXCEPT ![w] = [step |-> "purchase", user |-> u, ticket |-> t]]
                       ELSE job
    /\ UNCHANGED <<bonus, file, queue, consumer, confirmed, accepted>>

\* PurchasePoint of the Bonus Service is called.
PurchaseRead(w) ==
    /\ job[w].step = "purchase"
    /\ AsksForPurchase(w, job[w].user, job[w].ticket)
    /\ UNCHANGED <<ticket, job, file, queue, consumer, confirmed, accepted>>

\* Mutant of AfterPurchase: a purchase without an answer is tried again.
AfterPurchaseRetries == "purchase"

\* Where BuyPoint goes when the purchase is not confirmed.
AfterPurchase == "cancel"

\* The call ends, and BuyPoint goes on.
PurchaseCall(w) ==
    /\ job[w].step = "purchase"
    /\ \/ /\ Answered(w) /\ Leave(w)
          /\ \E o \in Outcomes("Purchase") \cap {"done", "garbled"} :
                confirmed' = IF o = "done" THEN confirmed \cup {job[w].ticket} ELSE confirmed
       \/ /\ \/ Fails(w, "Purchase")
             \/ job[w].user \in Strangers /\ UNCHANGED bonus
          /\ GoTo(w, AfterPurchase)
          /\ UNCHANGED confirmed
    /\ UNCHANGED <<ticket, file, queue, consumer, accepted>>

\* The compensation: TicketDeletePoint.  However it ends, so does the handler.
TicketDelete(w) ==
    /\ job[w].step = "cancel"
    /\ \/ ticket' = RolledBack(job[w].user, job[w].ticket)
       \/ "failed" \in Outcomes("TicketDelete") /\ UNCHANGED ticket
    /\ Leave(w)
    /\ UNCHANGED <<bonus, file, queue, consumer, confirmed, accepted>>

\* ReturnPoint: TicketUpdatePoint, for any user and any ticket.
TicketUpdate(w) ==
    /\ job[w] = NoJob /\ "ReturnPoint" \in Handlers
    /\ \E u \in Clients, t \in Tickets :
          /\ ticket[t] # Absent     \* no client knows an identifier before it exists
          /\ ticket' = Canceled(u, t)
          /\ \E o \in Outcomes("TicketUpdate") \ {"failed"} :
                job' = IF o = "lost"
                       THEN job
                       ELSE [job EXCEPT ![w] = [step |-> "refund", user |-> u, ticket |-> t]]
    /\ UNCHANGED <<bonus, file, queue, consumer, confirmed, accepted>>

Accept(w) == accepted' = accepted \cup {<<job[w].user, job[w].ticket>>}

\* ReturnPoint of the Bonus Service is called.
RefundRead(w) ==
    /\ job[w].step = "refund"
    /\ AsksForRefund(w, job[w].user, job[w].ticket)
    /\ UNCHANGED <<ticket, job, file, queue, consumer, confirmed, accepted>>

\* The call ends; its body is not read.
RefundCall(w) ==
    /\ job[w].step = "refund"
    /\ \/ Answered(w) /\ Leave(w) /\ Accept(w)
       \/ /\ \/ Fails(w, "Refund")
             \/ Unserved(w) /\ ~CanRefund(job[w].user, job[w].ticket) /\ UNCHANGED bonus
          /\ GoTo(w, "open")
          /\ UNCHANGED accepted
    /\ UNCHANGED <<ticket, file, queue, consumer, confirmed>>

\* fopen("message.txt", "w") empties the file.
OpenFile(w) ==
    /\ job[w].step = "open"
    /\ file' = Nothing
    /\ GoTo(w, "close")
    /\ UNCHANGED <<ticket, bonus, queue, consumer, confirmed, accepted>>

IsLong(line) == line.kind = "mixed" \/ (line.kind = "return" /\ line.user \in LongNames)

\* The line is written over what the file holds by then, from its start.  The rest
\* of a longer one becomes part of the ticket, unless it begins with a comma.
Overwritten(old, u, t) ==
    {Message(u, t)} \cup (IF IsLong(old) /\ u \notin LongNames THEN {Mixture(u)} ELSE {})

CloseFile(w) ==
    /\ job[w].step = "close"
    /\ file' \in Overwritten(file, job[w].user, job[w].ticket)
    /\ GoTo(w, "publish")
    /\ UNCHANGED <<ticket, bonus, queue, consumer, confirmed, accepted>>

Copies(q, m) == Cardinality({i \in 1..Len(q) : q[i] = m})

\* Mutant of Enqueued: the message is not added.
EnqueuedNot(q, m) == q

\* The broker adds a message to the queue.
Enqueued(q, m) == IF Copies(q, m) < MaxCopies THEN Append(q, m) ELSE q

\* publish.py sends what the file holds; the handler does not look how it ended.
Publish(w) ==
    /\ job[w].step = "publish"
    /\ \/ queue' = Enqueued(queue, file)
       \/ "failed" \in Outcomes("Publish") /\ UNCHANGED queue
    /\ Accept(w)
    /\ Leave(w)
    /\ UNCHANGED <<ticket, bonus, file, consumer, confirmed>>

\* The gateway stops and starts again: its handlers are gone.
GatewayStops ==
    /\ <<"Gateway", "stop">> \in Faults
    /\ \E w \in Workers : job[w] # NoJob
    /\ job' = [w \in Workers |-> NoJob]
    /\ Abandoned(Workers)
    /\ UNCHANGED <<ticket, file, queue, consumer, confirmed, accepted>>
-----------------------------------------------------------------------------
(* consumer.py                                                             *)

Deliver ==
    /\ consumer = Ready /\ queue # <<>>
    /\ consumer' = [step |-> "call", message |-> Head(queue)]
    /\ queue' = Tail(queue)
    /\ UNCHANGED <<ticket, bonus, job, file, confirmed, accepted>>

\* Mutant of NextStep: a refund that was refused is acknowledged as well.
NextStepForgets(ok) == "ack"

\* What queue_callback does after its request.
NextStep(ok) == IF ok THEN "ack" ELSE "again"

Calls(u, t) == consumer = [step |-> "call", message |-> Message(u, t)]

\* Its request is read by the Bonus Service.
RetryRead(u, t) ==
    /\ Calls(u, t)
    /\ LET f == Requested(Message(u, t)) IN AsksForRefund(Script, f.user, f.ticket)
    /\ UNCHANGED <<ticket, job, file, queue, consumer, confirmed, accepted>>

\* It is executed and answered.
Retry(u, t) ==
    /\ Calls(u, t)
    /\ Answered(Script)
    /\ consumer' = [consumer EXCEPT !.step = NextStep(TRUE)]
    /\ UNCHANGED <<ticket, job, file, queue, confirmed, accepted>>

\* It fails, or is refused: there is nothing to refund, or no such ticket can be.
RetryRefused ==
    /\ consumer.step = "call"
    /\ LET m == consumer.message
       IN  \/ m.kind = "mixed" /\ m.user \notin Unsendable /\ UNCHANGED bonus
           \/ /\ m.kind = "return" /\ Requested(m).user \notin Unsendable
              /\ \/ Fails(Script, "Retry")
                 \/ /\ Unserved(Script) /\ ~CanRefund(Requested(m).user, Requested(m).ticket)
                    /\ UNCHANGED bonus
    /\ consumer' = [consumer EXCEPT !.step = NextStep(FALSE)]
    /\ UNCHANGED <<ticket, job, file, queue, confirmed, accepted>>

\* splited[1] raises IndexError, or a field cannot be encoded as a header, which may be the
\* rest of a longer line: the message is acknowledged, the script ends.
RetryRaises ==
    /\ consumer.step = "call"
    /\ LET m == consumer.message
       IN  \/ m = Nothing
           \/ m.kind = "return" /\ Requested(m).user \in Unsendable
           \/ m.kind = "mixed" /\ Unsendable # {}
    /\ consumer' = Down
    /\ UNCHANGED <<ticket, bonus, job, file, queue, confirmed, accepted>>

\* basic_publish of the same body.
PublishAgain ==
    /\ consumer.step = "again"
    /\ queue' = Enqueued(queue, consumer.message)
    /\ consumer' = [consumer EXCEPT !.step = "ack"]
    /\ UNCHANGED <<ticket, bonus, job, file, confirmed, accepted>>

Acknowledge ==
    /\ consumer.step = "ack"
    /\ consumer' = Ready
    /\ UNCHANGED <<ticket, bonus, job, file, queue, confirmed, accepted>>

\* The consumer stops; what it has not acknowledged is delivered again.
ConsumerStops ==
    /\ <<"Consumer", "stop">> \in Faults
    /\ consumer.step \in {"call", "again", "ack"}
    /\ queue' = IF Copies(queue, consumer.message) < MaxCopies THEN <<consumer.message>> \o queue ELSE queue
    /\ consumer' = Down
    /\ Abandoned({Script})
    /\ UNCHANGED <<ticket, job, file, confirmed, accepted>>

\* docker-compose.yml: restart on failure.
ConsumerStarts ==
    /\ consumer = Down
    /\ consumer' = Ready
    /\ UNCHANGED <<ticket, bonus, job, file, queue, confirmed, accepted>>
-----------------------------------------------------------------------------
Handle(w) == \/ PurchaseRead(w) \/ PurchaseCall(w) \/ TicketDelete(w)
             \/ RefundRead(w) \/ RefundCall(w)
             \/ OpenFile(w) \/ CloseFile(w) \/ Publish(w)

Consume == \/ Deliver \/ RetryRefused \/ RetryRaises \/ PublishAgain \/ Acknowledge \/ ConsumerStarts
           \/ \E u \in Clients, t \in Tickets : RetryRead(u, t) \/ Retry(u, t)

Next == \/ \E w \in Workers : TicketPost(w) \/ TicketUpdate(w) \/ Handle(w)
        \/ \E b \in Servers : GoesOn(b)
        \/ GatewayStops
        \/ Consume
        \/ ConsumerStops

Spec == Init /\ [][Next]_vars

\* The threads of the Bonus Service are not all busy whenever the consumer calls.
ThreadsGetFree ==
    \A u \in Clients, t \in Tickets :
        []<>Calls(u, t) => []<>(Calls(u, t) /\ \E b \in Servers : Service!Idle(b) \/ caller[b] = Script)

\* Handlers, threads and the consumer go on, a request that is repeated for ever reaches
\* the Bonus Service at last and is booked at last, and a consumer that stops again and
\* again gets past each message at last.
Fairness == /\ \A w \in Workers : WF_vars(Handle(w))
            /\ \A b \in Servers : WF_vars(GoesOn(b))
            /\ WF_vars(Consume)
            /\ SF_vars(RetryRefused) /\ SF_vars(PublishAgain)
            /\ \A u \in Clients, t \in Tickets : SF_vars(RetryRead(u, t)) /\ SF_vars(Retry(u, t))
            /\ ThreadsGetFree

FairSpec == Spec /\ Fairness
-----------------------------------------------------------------------------
\* The rows of a ticket in the account of u, and in all accounts.
Booked(u, t) == Service!Ledger!RowsOf(history[u], t)

RowsNaming(t) == UNION {{u} \X Booked(u, t) : u \in Users}

Unrefunded(u, t) == u \in Users /\ Service!Ledger!Refundable(history[u], t)

\* A purchase that was answered with success keeps its ticket and its booking,
\* whatever fails in later purchases and returns.
ConfirmedIsBooked ==
    \A t \in confirmed : ticket[t].status \in {"PAID", "CANCELED"} /\ RowsNaming(t) # {}

\* Tickets that a line with a comma in its name can be taken for.
Misread == {ReadAs[n].ticket : n \in CommaNames}

\* The bonuses of a ticket are not given back while the ticket can be used:
\* ReturnPoint cancels the ticket before it asks for the refund, and so does
\* whoever wrote the message that the consumer retries.  Of a ticket that the
\* consumer can read out of a user's name this is not promised.
RefundedIsNotPaid ==
    \A t \in Tickets \ Misread : Cardinality(RowsNaming(t)) >= 2 => ticket[t].status # "PAID"

\* Handlers, retries, duplicates and restarts use the Bonus Service as BonusService
\* assumes: it is asked once for the purchase of a ticket, and nothing else changes
\* the accounts.
KeepsService == Service!Spec

\* Ticket t of u is refunded and no thread is about to book it.
Settled(u, t) ==
    /\ Cardinality(Booked(u, t)) >= 2
    /\ \A b \in Servers : ~Service!Idle(b) /\ pending[b].user = u => pending[b].row.ticket # t

\* Once a ticket is refunded, and no refund of it is under way, it is for good: returns
\* that are repeated, messages that come twice and retries of what was done book nothing.
SettledForGood ==
    [][\A u \in Users, t \in Tickets :
          Settled(u, t) => Settled(u, t)' /\ Booked(u, t)' = Booked(u, t)]_vars

\* A purchase is booked in both services or in none, once its handler is done.
AllOrNothing ==
    \A t \in Tickets : (\A w \in Workers : job[w] # NoJob => job[w].ticket # t)
        => /\ ticket[t].status = "PAID" => RowsNaming(t) # {}
           /\ ticket[t].status = "deleted" => RowsNaming(t) = {}

\* A return that was answered with success is refunded, or its message is in
\* the queue or with the consumer.
ReturnsAreKept ==
    \A u \in Clients, t \in Tickets : <<u, t>> \in accepted /\ Unrefunded(u, t)
        => \/ Copies(queue, Message(u, t)) > 0
           \/ consumer.step # "idle" /\ consumer.step # "down" /\ consumer.message = Message(u, t)

\* A return that was answered with success is retried until it is refunded.
ReturnsAreRefunded ==
    \A u \in Clients, t \in Tickets : (<<u, t>> \in accepted /\ Unrefunded(u, t)) ~> ~Unrefunded(u, t)

=============================================================================
